------------------------------- MODULE Errors -------------------------------
(***************************************************************************)
(* errors.rs: what a handler that fails answers.  An answer is named after *)
(* its variant of AppError or OAuthError; all a client that does not read  *)
(* the body knows is the status.                                           *)
(***************************************************************************)
EXTENDS Naturals

AppStatus ==
    [InvalidCredentials |-> 401, TokenExpired |-> 401, TokenInvalid |-> 401,
     MissingAuthHeader |-> 401, RefreshTokenInvalid |-> 401,
     EmailTaken |-> 409, UsernameTaken |-> 409,
     UserNotFound |-> 404,
     AccountDisabled |-> 403, Forbidden |-> 403,
     RateLimited |-> 429,
     Database |-> 500, Hashing |-> 500, Internal |-> 500]

OAuthStatus ==
    [ProviderNotConfigured |-> 503, StateStore |-> 503, StateStoreRedis |-> 503,
     InvalidState |-> 401, ProviderMismatch |-> 401, ExchangeCodeInvalid |-> 401,
     TokenExchange |-> 502, ProviderUnreachable |-> 502, IncompleteProfile |-> 502,
     InvalidRedirectUri |-> 500,
     ProviderDenied |-> 400,
     UnknownProvider |-> 404]

\* AppError::OAuth delegates to the wrapped error.
Status ==
    [e \in DOMAIN AppStatus \cup DOMAIN OAuthStatus |->
        IF e \in DOMAIN AppStatus THEN AppStatus[e] ELSE OAuthStatus[e]]

ErrorAnswers == DOMAIN Status
=============================================================================
