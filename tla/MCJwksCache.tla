---------------------------- MODULE MCJwksCache ----------------------------
(***************************************************************************)
(* A finite instance of JwksCache.  The provider serves a key set, then an *)
(* error page that parses as a JSON object, then a key set that replaced   *)
(* the key, lists it twice and holds entries refresh skips.                *)
(***************************************************************************)
EXTENDS JwksCache, TLC

CONSTANTS k1, p1, p2, p3

Rsa(k, p) == [kid |-> k, kty |-> "RSA", decodes |-> TRUE, key |-> p]

MCServed ==
    << <<Rsa(k1, p1)>>,
       <<>>,
       <<Rsa(k1, p2), Rsa(k1, p3), [Rsa(k1, p1) EXCEPT !.decodes = FALSE],
         [Rsa(k1, p1) EXCEPT !.kty = "EC"]>> >>
=============================================================================
