---------------------------- MODULE MCOAuthFlow ----------------------------
\* Both providers set up, or one absent and the other with a redirect URI that does
\* not parse; a slug of no provider.
EXTENDS OAuthFlow, TLC

MCSlugs == {"google", "github", "other"}

MCConfigs == {[Google |-> "ready", GitHub |-> "ready"],
              [Google |-> "none", GitHub |-> "malformed"]}

Symmetry == Permutations(Flows) \cup Permutations(Codes) \cup Permutations(Clients)
=============================================================================
