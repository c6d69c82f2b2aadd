----------------------------- MODULE OpenSslCalls -----------------------------
(***************************************************************************)
(* The functions of jwt-cpp that drive OpenSSL (jwt-cpp/jwt.h): loading    *)
(* and building keys, signing and verifying, as tables of the steps of     *)
(* module ErrorCodeCalls, which runs them.                                 *)
(***************************************************************************)
EXTENDS ErrorCodeCalls

\* An overload without an error code.
Throwing(f, r) == <<Fresh, Unchecked({f}, r), ThrowIfError, Result(r)>>

Rsa(c) == <<"rsa", c>>
Ec(c)  == <<"ecdsa", c>>
Sig(c) == <<"generation", c>>
Ver(c) == <<"verification", c>>
Std(c) == <<"std", c>>

-----------------------------------------------------------------------------
(* namespace helper.  cat is the template parameter error_category.         *)

WriteBioToString(cat) == <<Try(<<cat, "convert_to_pem_failed">>)>>

ExtractPubkeyFromCert(cat, write) ==
  <<ClearEc, New("certbio", <<cat, "create_mem_bio_failed">>),
    New("keybio", <<cat, "create_mem_bio_failed">>),
    New("cert", <<cat, "cert_load_failed">>), New("key", <<cat, "get_key_failed">>),
    Try(<<cat, "write_key_failed">>), Unchecked({write}, "")>>

ConvertDerToPem ==
  <<ClearEc, New("cert", Rsa("create_mem_bio_failed")),
    New("certbio", Rsa("create_mem_bio_failed")), Try(Rsa("write_cert_failed")),
    Unchecked({"write_bio_rsa"}, "")>>

\* decode throws for text that is not base64
ConvertBase64DerToPem ==
  <<ClearEc, Check(Std("decode")), Unchecked({"der_to_pem"}, "")>>

\* for a PEM certificate, then for a PEM public key
LoadPublicKeyFromCert(cat, extract) ==
  <<ClearEc, New("pubkey_bio", <<cat, "create_mem_bio_failed">>), Call({extract}, ""),
    Try(<<cat, "load_key_bio_write">>), New("pkey", <<cat, "load_key_bio_read">>),
    Result("pkey")>>

\* also load_private_key_from_string
LoadKeyFromString(cat) ==
  <<ClearEc, New("bio", <<cat, "create_mem_bio_failed">>),
    Try(<<cat, "load_key_bio_write">>), New("pkey", <<cat, "load_key_bio_read">>),
    Result("pkey")>>

Raw2bn == <<New("bn", Rsa("set_rsa_failed")), Result("bn")>>

Curve2group == <<Try(Ec("unknown_curve"))>>

\* OSSL_PARAM_BLD_to_param, EVP_PKEY_CTX_new_from_name, EVP_PKEY_fromdata
KeyFromData(cat, set_failed) ==
  <<New("params", <<cat, set_failed>>), New("ctx", <<cat, "create_context_failed">>),
    Try(<<cat, "cert_load_failed">>), Frees(Fill("pkey", <<cat, "cert_load_failed">>)),
    Adopt("pkey")>>

WriteKey(cat, write) ==
  <<New("pub_key_bio", <<cat, "create_mem_bio_failed">>),
    Try(<<cat, "load_key_bio_write">>), Unchecked({write}, "")>>

RsaNumbers ==
  <<ClearEc, Check(Std("decode")), Call({"raw2bn"}, "n"), Call({"raw2bn"}, "e")>>

RsaFromComponents ==
  RsaNumbers \o <<New("param_bld", Rsa("create_context_failed")), Try(Rsa("set_rsa_failed"))>>
    \o KeyFromData("rsa", "set_rsa_failed") \o WriteKey("rsa", "write_bio_rsa")

\* With OpenSSL 1.1 RSA_set0_key makes the RSA structure own n and e.  RSA_new
\* is not tested; RSA_set0_key does not survive its failure, so it succeeds.
Set0Key == <<Alloc("rsa"), Try(Rsa("set_rsa_failed")),
             Give("n"), Give("e"), Release("n"), Release("e")>>

RsaFromComponents11 == RsaNumbers \o Set0Key \o WriteKey("rsa", "write_bio_rsa")

EcFromComponents ==
  <<ClearEc, Check(Std("decode")), New("param_bld", Ec("create_context_failed")),
    Call({"curve2group"}, ""), Try(Ec("set_ecdsa_failed"))>>
    \o KeyFromData("ecdsa", "set_ecdsa_failed") \o WriteKey("ecdsa", "write_bio_ec")

EcFromComponents11 ==
  <<ClearEc, Check(Std("decode")), Call({"curve2group"}, ""), Call({"raw2bn"}, "qx"),
    Call({"raw2bn"}, "qy"), New("ecgroup", Ec("set_ecdsa_failed")),
    New("ecpoint", Ec("set_ecdsa_failed")), Try(Ec("set_ecdsa_failed")),
    New("ecdsa", Ec("set_ecdsa_failed")), Try(Ec("set_ecdsa_failed"))>>
    \o WriteKey("ecdsa", "write_bio_ec")

-----------------------------------------------------------------------------
(* namespace algorithm                                                      *)

NoneSign   == <<ClearEc>>
NoneVerify == <<ClearEc, Try(Ver("invalid_signature"))>>

HmacSign   == <<ClearEc, Try(Sig("hmac_failed"))>>
HmacVerify == <<ClearEc, Call({"hmac_sign"}, ""), Try(Ver("invalid_signature"))>>

Loaders(cat) == IF cat = "rsa" THEN {"load_key_rsa_throws", "load_cert_rsa_throws"}
                               ELSE {"load_key_ec_throws", "load_cert_ec_throws"}

RsaCtor ==
  <<Check(Rsa("no_key_provided")), Unchecked(Loaders("rsa"), "pkey"), Result("pkey")>>

RsaSign ==
  <<ClearEc, New("ctx", Sig("create_context_failed")), Try(Sig("signinit_failed")),
    Try(Sig("signupdate_failed")), Try(Sig("signfinal_failed"))>>

RsaVerify ==
  <<ClearEc, New("ctx", Ver("create_context_failed")), Try(Ver("verifyinit_failed")),
    Try(Ver("verifyupdate_failed")), Try(Ver("verifyfinal_failed"))>>

CheckKey == <<NewOrThrow("ctx", Ec("create_context_failed")), Check(Ec("invalid_key"))>>

EcdsaCtor ==
  <<Check(Ec("no_key_provided")), Unchecked(Loaders("ecdsa"), "pkey"),
    Unchecked({"check_key"}, ""), Check(Ec("invalid_key_size")), Result("pkey")>>

EcdsaSign ==
  <<ClearEc, New("ctx", Sig("create_context_failed")), Try(Sig("signinit_failed")),
    Try(Sig("digestupdate_failed")), Try(Sig("signfinal_failed")),
    Unchecked({"der_to_p1363"}, "")>>

EcdsaVerify ==
  <<ClearEc, Call({"p1363_to_der"}, ""), New("ctx", Ver("create_context_failed")),
    Try(Ver("verifyinit_failed")), Try(Ver("verifyupdate_failed")),
    TryOnly(Ver("invalid_signature"), Ver("verifyfinal_failed"))>>

DerToP1363 ==
  <<New("sig", Sig("signature_decoding_failed")), Check(Std("bignum size"))>>

P1363ToDer ==
  <<ClearEc, Call({"raw2bn"}, "r"), Call({"raw2bn"}, "s"),
    New("sig", Ver("create_context_failed")), Move("r"), Move("s"),
    Try(Ver("signature_encoding_failed"))>>

EddsaCtor ==
  <<Check(Ec("load_key_bio_read")), Unchecked(Loaders("rsa"), "pkey"), Result("pkey")>>

EddsaSign ==
  <<ClearEc, New("ctx", Sig("create_context_failed")), Try(Sig("signinit_failed")),
    Try(Sig("signfinal_failed"))>>

EddsaVerify ==
  <<ClearEc, New("ctx", Ver("create_context_failed")), Try(Ver("verifyinit_failed")),
    Try(Ver("verifyfinal_failed"))>>

PssCtor ==
  <<Check(Rsa("no_key_provided")), Unchecked(Loaders("rsa"), "pkey"), Result("pkey")>>

PssSign ==
  <<ClearEc, New("md_ctx", Sig("create_context_failed")), Try(Sig("signinit_failed")),
    Try(Sig("rsa_padding_failed")), Try(Sig("set_rsa_pss_saltlen_failed")),
    Try(Sig("digestupdate_failed")), Try(Sig("signfinal_failed"))>>

\* A padding failure here is reported with the code of signature generation.
PssVerify ==
  <<ClearEc, New("md_ctx", Ver("create_context_failed")), Try(Ver("verifyinit_failed")),
    Try(Sig("rsa_padding_failed")), Try(Ver("set_rsa_pss_saltlen_failed")),
    Try(Ver("verifyupdate_failed")), Try(Ver("verifyfinal_failed"))>>

-----------------------------------------------------------------------------
(* The library                                                              *)

OpenSslFunctions ==
  [write_bio_rsa |-> WriteBioToString("rsa"), write_bio_ec |-> WriteBioToString("ecdsa"),
   extract_rsa |-> ExtractPubkeyFromCert("rsa", "write_bio_rsa"),
   extract_ec |-> ExtractPubkeyFromCert("ecdsa", "write_bio_ec"),
   extract_throws |-> Throwing("extract_rsa", ""),
   der_to_pem |-> ConvertDerToPem, base64_der_to_pem |-> ConvertBase64DerToPem,
   base64_der_throws |-> Throwing("base64_der_to_pem", ""),
   load_cert_rsa |-> LoadPublicKeyFromCert("rsa", "extract_rsa"),
   load_cert_ec |-> LoadPublicKeyFromCert("ecdsa", "extract_ec"),
   load_key_rsa |-> LoadKeyFromString("rsa"), load_key_ec |-> LoadKeyFromString("ecdsa"),
   load_cert_rsa_throws |-> Throwing("load_cert_rsa", "pkey"),
   load_cert_ec_throws |-> Throwing("load_cert_ec", "pkey"),
   load_key_rsa_throws |-> Throwing("load_key_rsa", "pkey"),
   load_key_ec_throws |-> Throwing("load_key_ec", "pkey"),
   raw2bn |-> Raw2bn, raw2bn_throws |-> Throwing("raw2bn", "bn"),
   curve2group |-> Curve2group,
   rsa_components |-> RsaFromComponents, rsa_components_11 |-> RsaFromComponents11,
   rsa_components_throws |-> Throwing("rsa_components", ""),
   ec_components |-> EcFromComponents, ec_components_11 |-> EcFromComponents11,
   ec_components_throws |-> Throwing("ec_components", ""),
   none_sign |-> NoneSign, none_verify |-> NoneVerify,
   hmac_sign |-> HmacSign, hmac_verify |-> HmacVerify,
   rsa |-> RsaCtor, rsa_sign |-> RsaSign, rsa_verify |-> RsaVerify,
   ecdsa |-> EcdsaCtor, check_key |-> CheckKey,
   ecdsa_sign |-> EcdsaSign, ecdsa_verify |-> EcdsaVerify,
   der_to_p1363 |-> DerToP1363, p1363_to_der |-> P1363ToDer,
   eddsa |-> EddsaCtor, eddsa_sign |-> EddsaSign, eddsa_verify |-> EddsaVerify,
   pss |-> PssCtor, pss_sign |-> PssSign, pss_verify |-> PssVerify]

\* Private methods, which are called with their caller's ec
Internal == {"check_key", "der_to_p1363", "p1363_to_der"}

OpenSslPublic == DOMAIN OpenSslFunctions \ Internal

\* Functions without a parameter ec: constructors and throwing overloads
OpenSslThrowers ==
  {"rsa", "ecdsa", "eddsa", "pss", "check_key", "extract_throws", "base64_der_throws",
   "load_cert_rsa_throws", "load_cert_ec_throws", "load_key_rsa_throws", "load_key_ec_throws",
   "raw2bn_throws", "rsa_components_throws", "ec_components_throws"}

-----------------------------------------------------------------------------
(* Documentation                                                            *)

\* Functions whose comments say that ec gets cleared if no error occurs
ClearingByComment ==
  {"extract_rsa", "extract_ec", "der_to_pem", "base64_der_to_pem", "load_cert_rsa",
   "load_cert_ec", "load_key_rsa", "load_key_ec", "raw2bn", "rsa_components",
   "rsa_components_11", "ec_components", "ec_components_11"}

\* What the comments say of the error code when a function returns to the
\* program: it is cleared if no error occurred, for the functions that say so,
\* and filled with details if one did, for all.
ErrorCodeAsDocumented ==
  Len(stack) = 1 /\ This.pc = 0 /\ thrown = Ok =>
    /\ first = Ok /\ This.fn \in ClearingByComment => ec = Ok
    /\ first # Ok => ec # Ok

=============================================================================
