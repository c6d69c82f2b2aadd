------------------------------- MODULE MCJson -------------------------------
(***************************************************************************)
(* JSON values and the parts of tokens, as JwtClaims represents them.      *)
(***************************************************************************)

Str(s) == <<"string", s>>
Object(f) == <<"object", f>>
List(s) == <<"array", s>>
TokenPart(f) == <<"json", Object(f)>>

=============================================================================
