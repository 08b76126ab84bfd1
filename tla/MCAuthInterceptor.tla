------------------------- MODULE MCAuthInterceptor -------------------------
(***************************************************************************)
(* Finite instances of AuthInterceptor: the provider replaces p1 by p2 by  *)
(* way of a body without keys.                                             *)
(***************************************************************************)
EXTENDS AuthInterceptor, TLC

CONSTANTS k1, p1, p2, s1, issuer, other, api

MCPublished == << [k \in Kids |-> p1], [k \in Kids |-> None], [k \in Kids |-> p2] >>

Oidc == [allow |-> {}, bypass |-> FALSE, devUser |-> 1, jwks |-> TRUE, secret |-> s1,
         iss |-> issuer, aud |-> api, skew |-> 1]
Local == [Oidc EXCEPT !.jwks = FALSE, !.iss = None, !.aud = None]

MCEnvs == {
    Oidc,
    Local,
    [Local EXCEPT !.secret = None],
    [Oidc EXCEPT !.bypass = TRUE, !.devUser = 2],
    [Oidc EXCEPT !.allow = {"GetMe"}] }

Good == [proc |-> "GetMe", bearer |-> TRUE, alg |-> "RSA", signed |-> p1, kid |-> k1,
         iss |-> issuer, aud |-> {api}, exp |-> None, nbf |-> None, sub |-> 1]
Plain == [Good EXCEPT !.alg = "HMAC", !.signed = s1]

MCRequests == {
    Good,
    [Good EXCEPT !.signed = p2],
    [Good EXCEPT !.exp = 3, !.proc = "GetSample"],
    [Good EXCEPT !.nbf = 2],
    [Good EXCEPT !.sub = 0],
    [Good EXCEPT !.iss = other],
    [Good EXCEPT !.aud = {other}],
    [Good EXCEPT !.bearer = FALSE],
    [Plain EXCEPT !.exp = 2],
    [Plain EXCEPT !.nbf = 2, !.sub = 0, !.proc = "GetSample"],
    [Plain EXCEPT !.signed = p1] }
=============================================================================
