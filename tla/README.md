# pg_oidc_validator: specification

TLA+ models of the PostgreSQL OAuth validator module `pg_oidc_validator` and of
the token library it is built with (jwt-cpp with picojson, in `jwt-cpp/`), with
TLC configurations that check them on small instances and TLAPS proofs of all
safety properties but two for instances of any size. Line numbers refer to the files
under `src/` of the repository (`http_cache.hpp:88` is line 88 of
`src/http_cache.hpp`); `jwt.h`, `base.h` and `picojson.h` are those under
`jwt-cpp/include/`.

## 1. The system

A PostgreSQL backend that authenticates a connection with `oauth` calls
`validate_token`. It fetches the provider's discovery document and the key set
(JWKS) that document names, verifies the token with the key of the token's
`kid`, and compares scopes. Documents are cached in shared memory, so backends
(processes of the server) interact through the cache. Everything else in a
backend is sequential.

| Component | State | Operations | Interacts with |
|---|---|---|---|
| HTTP cache (`http_cache.hpp`) | shared table URL -> (text, expiration); per backend: attached or not | `attach`, `get`, `put`, `detach` | the table and its partition locks; called by the client |
| dshash wrapper (`dshash_wrapper.hpp`) | segment header (lock, handles); locks held through `entry_ref` | `attach_shared`, `find`, `find_or_insert`, `erase`, destructors and moves | PostgreSQL DSM, DSA, dshash, LWLocks |
| HTTP client (`http_client.cpp`) | `last_max_age_`, the response being received | `get_json`, `header_callback`, `parse_cache_control` | the cache; libcurl, which calls back per header line |
| JWK functions (`jwk.cpp`) | none | verifier configuration, issuer conversion, scope parsing and matching | jwt-cpp's verifier |
| Validator (`pg_oidc_validator.cpp`) | settings; the result record | `validate_token`, `validator_shutdown` | all of the above |
| Error bridge (`pg_utils.hpp`) | the server's exception stack, error stack and memory context | `pg_try`, `pg_assert_noerror` | turns a server ERROR into a C++ exception and back |
| Verifier, claims (`jwt.h`) | checks by claim name, default leeway, algorithms by name | `allow_algorithm`, `leeway`, `with_...`, `verify` | the clock; claims and algorithms |
| Builder (`jwt.h`) | header and payload claims | `set_...`, `sign` | algorithms |
| Key sets (`jwt.h`) | the list of keys | `parse_jwks`, `has_jwk`, `get_jwk`, getters | JSON |
| OpenSSL helpers, algorithms, key handle (`jwt.h`) | OpenSSL objects and who owns them; the caller's error code | loading and building keys, `sign`, `verify`; copies and moves of handles | OpenSSL |
| Encodings (`base.h`) | none | `encode`, `decode`, `pad`, `trim` | |
| picojson (`picojson.h`) | values that own heap memory | parser, serializer, copies, moves, `get`, `set` | |

What is hard here: the interleaving of backends in the table, with locks that
are not re-entrant; errors raised while a lock is held; entries that are
created uninitialised and written field by field; expiry; header lines in any
order; key rotation between two requests; the many early exits of the key loop
and of `validate_token`; backends that create the shared table at the same
time; exceptions and ERRORs that cross each other's frames; in the library, one
failing call of many, ownership that changes hands, a clock that runs between
checks made in no fixed order, and the edges of the text formats. `PROJECT.json` lists these as hazards, each at its
line, with the properties that would notice it going wrong.

What makes each part correct:

* cache: a hit is a complete text that was stored under that key and had not
  expired at some instant during the call; calls come back; no lock stays;
* client: a document that is returned or stored was published under that URL,
  with status 200, and is kept for the time its own header gave;
* JWK functions: a token is accepted exactly if a published signing key of its
  `kid` made the signature with the algorithm the key is for, and issuer, dates
  and scopes agree;
* validator: the composition preserves this, whatever other backends do;
* `attach_shared`: all backends use one complete table, for good, and attaching
  ends;
* error bridge: an ERROR reaches the innermost frame, and nothing of it stays;
* token library: a text is read as what it means or refused; a token is
  accepted only as the last settings say, by the key that was allowed, at one
  instant; every failure is reported once and frees everything once.

## 2. Modules

| Module | Models | State and actions |
|---|---|---|
| `HttpCache` | `http_cache.hpp` over `dshash_wrapper.hpp` | `table`, holders of each partition's lock (`shared`, `exclusive`), and per backend `attached`, position `pc`, frame `arg`, last result `ret`. `Get`/`Find`/`CheckExpired`/`CopyJson`/`ReleaseShared` are `get`; `Put`/`LockExclusive`/`WriteJson`/`WriteExpiration`/`ReleaseExclusive` are `put`; `FindError`, `InsertError` are server ERRORs under a lock |
| `ExpiringMap` | what the cache promises | an atomic map with expiry and per-call phases; no locks |
| `HttpClient` | `http_client.cpp` over `HttpCache` | `http[b]`, the frame of `get_json`; `edition[u]`, what the provider serves. One step per header line |
| `TokenCheck` | `jwk.cpp`, jwt-cpp's `verify`, `validate_token` from `jwt::decode` on | operators only |
| `TokenDecision` | one evaluation of `TokenCheck` | inputs and result; a declarative description of the right decision |
| `OidcValidator` | `validate_token`, `validator_shutdown` over `HttpClient` and `TokenCheck` | `session[b]`, the frame of `validate_token` |
| `SharedAttach` | `dshash::attach_shared`, `~dshash` | `segment` (the two handles), `holder` of its lock, areas `pinned` and `built`, per backend `at` and `uses`. One step per test, lock, server call and store; `AttachError` is an ERROR in any of the calls |
| `EntryRef` | `dshash::entry_ref` in one backend | `refs`, their `entry_`, and the locks that are `held`. Construction, move construction, move assignment, destruction |
| `PgTry` | `pg_try`, `pg_assert_noerror`, the PG_TRY block in `validate_token` | `frames` (activations of PG_TRY), `handler` (`PG_exception_stack`), `errors`, `context`, `mode`. `Raise`/`ThrowException` start an ERROR or an exception, the other actions say what each frame does with it |
| `JwtClaims` | `basic_claim`, `decoded_jwt`, `verify_ops` in `jwt.h`, the picojson traits | operators only |
| `JwtVerifier` | `jwt::verifier` | `verifier`, the `history` of its settings, `call`, `clock`. `verify` takes a step per check, in any order |
| `JwtBuilder` | `jwt::builder`, composed with `JwtVerifier` | `builder`, `asked`, `issued` |
| `JwtKeySet` | `jwt::jwks`, `jwt::jwk` | `document`, `keys`, `answer` |
| `ErrorCodeCalls` | how functions of `jwt.h` call OpenSSL and each other, own what they get and report failures | a machine that runs a table of steps per function: `stack` of activations with owner counts, `ec`, `thrown`, the `first` failure, and the code that was `given` to a function that never clears it |
| `OpenSslCalls` | the functions of `jwt.h` that drive OpenSSL | their tables, for that machine |
| `KeyHandle` | `evp_pkey_handle` | `alive`, `mkey`, `refs`, `raw`; `dangling`, a handle that has freed the key it goes on with |
| `Encodings` | `base.h`, the P1363 form of ECDSA signatures | one conversion per behaviour, from `query` to `reply`; a BIGNUM is the sequence of its digits to the base 256 |
| `PicoEscape` | `_parse_codepoint` and its helpers in `picojson.h` | one text behind `\u` per behaviour, `escape`, and what it becomes, `utf8` |
| `PicoJson` | parser and serializer of `picojson.h` | one text or tree per behaviour |
| `PicoValue` | `picojson::value` | `val`, `heap`, and `meant`, what a mathematical value would be |
| `...Proofs` | theorems about a module, section 5 | |
| `MC...` | constants for TLC | |

`HttpClient` extends `HttpCache`; `OidcValidator` extends `HttpClient` and
`TokenCheck`: a step of a lower layer is a step of the upper one that leaves
the upper variables alone. `JwtBuilder` extends `JwtVerifier`, which extends
`JwtClaims`, as does `JwtKeySet`. The validator uses of the library only
decoding, a fresh verifier per key and picojson; `TokenCheck` keeps the short
form of that.

`MCServer`, `MCValidation` and `MCJwtLibrary` put components that share no state
side by side in one run: the variable `part` says which of them a behaviour
exercises, and the variables of the others stay at their initial values. The set
of behaviours is the union of those of the parts. `MCServer` has the cache,
`SharedAttach`, `EntryRef` and `PgTry`; `MCValidation` has the client alone, the
validator and the decision; `MCJwtLibrary` extends `KeyHandle`, `PicoValue`,
`PicoEscape`, `Encodings`, `JwtBuilder`, `OpenSslCalls` and, through
`MCJwtVerifier` and `MCJwtKeySet`, the rest, so that the run checks the very
definitions that the proofs are about. It instantiates `PicoJson`, and
`JwtBuilder` twice with other constants, for tokens that are signed with several
algorithms and for tokens that expire. `MCJson` has the notation for JSON values
that these share.

Modelling decisions:

* **Locks.** A partition lock is granted in shared mode when nobody holds it
  exclusively, in exclusive mode when nobody holds it at all; the holder itself
  counts. `dshash_find` keeps the lock only if it finds the key.
  `find_or_insert` and `erase` begin with the same wait, so they are the two
  branches of `LockExclusive`.
* **New entries** have arbitrary contents until `put` has written them: text
  `Junk`, expiration past or far away. The copy of the URL into the entry
  (`http_cache.hpp:118`) repeats the key that dshash has already stored there.
* **Errors.** `pg_try` turns an ERROR into an exception and does not release
  LWLocks, so `Throw` leaves the holders unchanged; the lock goes when the
  process does (`Exit`).
* **Attach** succeeds in one step in `HttpCache` or, as `validate_token` allows,
  does not happen (the WARNING at `pg_oidc_validator.cpp:63`). `SharedAttach`
  takes the step apart.
* **Store order.** `table_handle` and `area_handle` are plain stores. Calls into
  the server stand between them and between the loads of the unlocked reader,
  so the compiler keeps their order, and so does x86-64, for which the module
  is built; a processor that reorders stores is not modelled.
* **Areas.** An area lives while it is pinned or mapped by a process. A handle
  is the identity of its area, and a table has the identity of the area it is
  in.
* **References.** `HttpCache` lets a call release the lock it took, once, when
  the call ends; `EntryRef` justifies that for every way in which the reference
  may travel through `std::optional`, `std::pair` and the values of lambdas. Its
  entries are of different partitions, because the second lock of one partition
  is the wait for oneself of finding 1.
* **PG_TRY.** An ERROR jumps to the frame that `PG_exception_stack` names: to
  none it is FATAL (the server has no handler of its own while it
  authenticates), to a frame that is gone it is the mode `undefined`. The C++
  code inside a frame may do anything the types allow: return, throw, raise,
  open another frame, run a destructor that opens `pg_assert_noerror`.
* **OpenSSL calls.** A function is its sequence of calls; any call may fail.
  What a call computes is left out; who frees its result is counted. Both the
  OpenSSL 1.1 and the 3.0 branch of a function are in the table where they
  differ. A failure that the code takes for success (other results of
  `EVP_DigestVerifyFinal` than 0 and -1, `jwt.h:1669`) is a step of its own. The
  one allocation that is not tested, `RSA_new` (`jwt.h:976`), is assumed to
  succeed. The signature conversion is modelled a second time by its bytes.
* **Assignment of a raw key** (`jwt.h:475`) takes any pointer: one the program
  owns, `nullptr`, or what `get()` of any handle returned. The count goes down
  before it goes up, so `h = h.get()` with the only reference frees the key and
  goes on with it; the model then stops, as what follows is undefined.
* **Integers and doubles.** `get<double>()` turns an integer into the nearest
  double, in place (`picojson.h:387`); `Rounded` says which that is.
* **Clock and dates.** In `JwtVerifier` two ticks make a second and the clock's
  count wraps at `MaxDate`, as nanoseconds in 64 bits do; a number claim counts
  halves, so that rounding shows, which is away from zero (`jwt.h:2663`).
* **JSON texts** have one symbol for each class of characters that the parser
  tells apart. The value of a number is its text: ranges, the locale's decimal
  point and the choice between forms of output are left out.
* **Texts** are model values. Which of them are too long, do not parse, or
  parse to which key set are constants; `Strncpy` of a long text is another
  text.
* **Header lines** are `Cache-Control` with a number or something else; one
  "other" stands for any run of such lines. A number beyond `IntMax` gives
  nullopt, as `from_chars` does.
* **JSON values** carry their type; `ToStr` gives a string itself, the digits
  of a number (`NumberText`), `true` or `false`, and for the rest the name of the
  type (`picojson.h:480`). Splitting at blanks and at the last slash,
  the tenant id and the two Microsoft host names are constants.
* **Signatures** are the algorithm name and the key material. For an `oct` key
  the material is the text of `k` as it stands, because `configure_hmac_key`
  does not decode it.
* Definitions marked *faulty* are wrong variants of the definition after them.
  They are not used by any specification; `PROJECT.json` names, for each
  property, the variant that violates it.

External parts (PostgreSQL's locks and tables, libcurl, the provider, the
clock) are modelled from how the code uses them. The wall clock is assumed
not to go back.

## 3. Runs

| Run | Checks | Bounds |
|---|---|---|
| `server` | see below | see below |
| `cache_expired` | `LookupReturns` (violated) | 2 backends, 1 key |
| `validation` | see below | see below |
| `client_max_age` | `MaxAgeHonoured` (violated) | one ordinary header |
| `token_scopes` | `ScopesGranted` (violated) | Entra ID issuer, 3 scope settings |
| `validator_live` | `ValidationEnds` | 2 backends, rotation of the discovery document, answers stored in the cache; the clock stands still, since nothing is claimed once an entry has expired |
| `attach_kept` | `AttachReturns` (violated) | 2 backends, 3 areas |
| `pg_try_block` | `EndTryCalled` (violated) | frames nested up to 3 deep |
| `jwt_library` | see below | see below |
| `openssl_error_code` | `ErrorCodeAsDocumented` (violated) | every public function, any call failing |
| `verifier_docs` | `ChecksAsDocumented` (violated) | sequences of 2 of 5 settings, 1 algorithm, 21 tokens |
| `key_set_lookup` | `LookupAnswers` (violated) | all lists of up to 3 of 5 keys |

The parts of `server` and `validation`:

| Part | Checks | Bounds |
|---|---|---|
| `HttpCache` | `CacheTypeOK`, `ReadableEntriesWhole`, `NoLockOutlivesCall`, `CheckedEntryStable`, `ImplementsExpiringMap`, `CallsReturnUntilExpiry` | 2 backends, 3 keys (one too long) on 2 locks, 3 texts (one too long), ages 0 and 1, clock 0..2 |
| `SharedAttach` | `OneTable`, `PublishedAreaLives`, `PublishedForGood`, `AttachReturnsUnlessKept`, `ServerTypeOK` | 2 backends that come and go, 3 areas |
| `EntryRef` | `LockReleasedOnce`, `ServerTypeOK` | 3 references, 2 entries |
| `PgTry` | `HandlerInnermost`, `NoErrorRemains`, `ServerTypeOK` | frames nested up to 12 deep |
| `HttpClient` | `ClientTypeOK`, `DocumentWasServed`, `CacheHoldsServedDocuments`, `StoredForDeclaredAge` | 2 backends, 2 URLs, rotation, a broken text, an error page, 5 header shapes, clock 0..1 |
| `OidcValidator` | the same, `AuthorizedByPublishedKeys`, `SupportedTokenAccepted` | 2 backends, rotation of the key set and of the discovery document, an error page that looks like a key set, answers with a lifetime of one second, clock 0..1 |
| `TokenDecision` | `AuthorizedMeansVerified`, `GoodTokenAccepted`, `KeyOrderIrrelevant` | all combinations of the settings, key sets of up to 2 keys and tokens with one deviation each that `MCTokenDecision` lists |

The parts of `jwt_library`:

| Part | Checks | Bounds |
|---|---|---|
| `JwtVerifier` | `SignedWithAllowedKey`, `ValidAtOneInstant`, `LastSettingsDecide` | all sequences of 3 of 12 settings, 21 tokens, clock of 1.5 s |
| `JwtBuilder` | `SignedTokenIsRecognized`; `GoodForItsLifetime` | 2 tokens with 3 algorithms (one without private key); 1 token that expires between two seconds |
| `JwtKeySet` | `LookupIsFirstListed` | all lists of up to 3 of 5 keys, and documents that are no key sets |
| `ErrorCodeCalls`, `OpenSslCalls` | `FreedOnce`, `FirstErrorReported` | every public function, any call failing, one call after another |
| `KeyHandle` | `OwnersCounted` | 3 handles, 2 keys, raw pointers of the program and of handles |
| `PicoValue` | `OwnedOnce`, `ValueSemantics` | 3 variables, 4 heap cells, 5 types, an integer between two doubles |
| `PicoEscape` | `EscapesAreUtf8` | one and two escapes at every border of the encoding, hexadecimal and other characters |
| `PicoJson` | `AcceptsGrammar`, `ReadsMeaning` | all texts of 3 symbols, of 5 from smaller sets, one edit away from longer ones; about 2000 trees up to two levels below the depth limit of 3 |
| `Encodings` | `RoundTrip`, `DecodeExact` | every byte, up to 4 bytes at their edges, texts of 5 characters, fills of both spellings, numbers of 0 to 3 bytes |

`AcceptsGrammar` compares the parser, which runs forward through the text, with
a grammar that says which stretches of the text are what; `RoundTrip` and
`DecodeExact` compare the arithmetic on groups with the bits of the binary;
`ReadsMeaning` compares with the tree a text was written from.

Why the bounds are enough to be interesting: two backends give every pair of
conflicting steps (two readers, reader and writer, two writers, a leaked lock
and a waiter); keys that do and do not share a lock occur; the clock passes an
entry's expiration; each size and age occurs on both sides of its limit; each
document can be replaced in mid-call. A creator of the shared table, a waiter
and a reader without the lock need two backends that may leave and return, and
a third area appears only after creations have failed twice; twelve frames
exceed what the module nests. Three references allow a move into a third while
two hold locks. In the library, three settings contain every
pair of conflicting ones and the algorithm; three handles or values make a
cycle. The proofs remove the bounds for all that section 5 lists.
Runs do not check for deadlock: a system in which a lookup has met an
expired entry may really stop (finding 1), a decided token is the end of
`TokenDecision`, a converted text that of `Encodings`, `PicoEscape` and `PicoJson`, and
bounded clocks stop.

**Fairness.** A call in progress is a running process, so its own steps are
weakly fair. Lock waits are strongly fair: PostgreSQL wakes the waiters of an
LWLock whenever it is released, and a waiter is not passed over for ever.
Transfers end, because libcurl is given a timeout (`http_client.cpp:97`). A
backend whose validation failed exits, because the server closes a connection
that it does not authenticate. In `SharedAttach` a process inside
`attach_shared` takes its next step or meets an ERROR, and the wait for the
segment's lock is strongly fair; that a session ends is not assumed, which is
what finding 4 turns on. Nothing is assumed about calls being made, time
passing, documents being published or errors occurring.

The liveness properties except `LookupReturns` are stated for executions in
which no lookup meets an expired entry, since such a lookup blocks.

## 4. Findings

1. **A lookup of an expired entry never returns** (`cache_expired`). `get`
   calls `erase` (`http_cache.hpp:88`) while its `entry_ref` still holds the
   partition's lock in shared mode. The lock is not re-entrant; the backend
   waits for itself and later writers of the partition wait for it. The
   end-to-end test treats this as a failure: "psql did not complete within
   #{timeout} seconds" (`test/spec/spec_helper.rb:172`).
2. **The lifetime of an ordinary response is lost** (`client_max_age`).
   `header_callback` assigns `last_max_age_` for every line
   (`http_client.cpp:43`), so the line after `Cache-Control`, at the latest the
   empty one, clears it, although the member is documented as "Parsed from
   Cache-Control header" (`http_client.hpp:32`). Only a line delivered last, in
   a trailer, takes effect. This also hides finding 1 in practice.
3. **Some Entra ID scopes are not compared** (`token_scopes`). A configured
   scope without a slash that the token lacks is passed over
   (`jwk.cpp:226-232`), while the README describes `scope=""` as the way to
   disable scope validation (`README.md:102`).
4. **A failed creation keeps the segment's lock** (`attach_kept`).
   `attach_shared` calls `dsa_create` and the like between `LWLockAcquire` and
   `LWLockRelease` (`dshash_wrapper.hpp:160-180`). An ERROR in one becomes an
   exception that releases nothing, `validate_token` logs a WARNING and goes
   on, and logins that come to the lock wait until that session is over.
   `AttachReturnsUnlessKept` shows that this is the only way to wait for ever.
5. **`validate_token` returns out of PG_TRY** (`pg_try_block`). `return false`
   (`pg_oidc_validator.cpp:124`) skips PG_END_TRY, and `PG_exception_stack`
   keeps pointing into the frame that is gone. `pg_utils.hpp:36` states the
   rule: "Catch C++ exceptions and rethrow later to ensure PG_END_TRY() is
   called".

6. **Error codes that stay or are not set** (`openssl_error_code`). `raw2bn`
   does not clear the error code when it succeeds (`jwt.h:847-856`), against
   "error_code for error_detection (gets cleared if no error occurs)"
   (`jwt.h:844`); its callers in the library have cleared it. `ecdsa::verify`
   reports two of the results with which `EVP_DigestVerifyFinal` may fail
   (`jwt.h:1669-1676`), against "Filled with details on error" (`jwt.h:1641`).
   `FirstErrorReported` says nothing of these two cases and holds in all others.
7. **Checks that differ from their comments** (`verifier_docs`).
   `expires_at_leeway` and the like demand an integer date, the default check
   neither demands a date nor an integer (`jwt.h:3466`: "This is identical to
   how the "exp" check works."); `with_type` compares without regard to case
   (`jwt.h:3699`: "Check is case sensitive."); the empty audience is refused for
   a string and accepted for an array (`jwt.h:3500`: "If the token value is a
   string it is treated as a set with a single element."); a claim that has to
   be null is refused although it is (`jwt.h:3774`: "equality (both type &
   value)"). `Disputed` collects the cases; `LastSettingsDecide` says nothing of
   a setting in one of them and holds for all others.
8. **A lookup ends the process** (`key_set_lookup`). `find_by_kid` is
   `noexcept`, but a `kid` that is no string throws in it (`jwt.h:4126`), where
   `has_jwk` promises "true if jwk was present, false otherwise"
   (`jwt.h:4103`) and `get_jwk` a `std::runtime_error` (`jwt.h:4112`). The
   validator does not use these functions.

Findings 6 to 8 are about the vendored library and do not affect how the module
uses it. Other behaviour of the library that may surprise, and that no comment
contradicts:

* `h = h.get()` of a key handle with the only reference frees the key
  (`jwt.h:475-479`); `OnlyOwnKeyFreed` proves that no other operation does such
  a thing. The library never assigns a handle its own key;
* a date claim beyond the range of 64-bit nanoseconds wraps round
  (`jwt.h:2664`): a wrapped `exp` may count as expired, a wrapped `nbf` or `iat`
  lets the token in early. `ValidAtOneInstant` exempts such dates;
* `get<double>() const` turns an integer into a number in place
  (`picojson.h:387`), and `as_integer` throws from then on;
* the depth limit of the parser counts arrays only (`picojson.h:1013`).

## 5. Proofs

Every theorem holds for all values of the constants that satisfy the named
assumptions of the modules: any number of backends, documents, frames, handles,
values, settings and tokens, and any bounds. TLC evaluates the assumptions in
every run that uses the module.

| Module | Theorems | Property |
|---|---|---|
| `HttpCacheProofs` | `TypeCorrect`, `EntriesWhole`, `LocksReleased`, `CheckedEntriesStable`, `ImplementsMap`, `Inductive` | `CacheTypeOK`, `ReadableEntriesWhole`, `NoLockOutlivesCall`, `CheckedEntryStable` (an action property), `ImplementsExpiringMap` (refinement), the invariant |
| `HttpClientProofs` | `ClientTypes`, `ServedDocuments`, `CacheServed`, `DeclaredAges` | `ClientTypeOK`, `DocumentWasServed`, `CacheHoldsServedDocuments`, `StoredForDeclaredAge` |
| `OidcValidatorProofs` | `PublishedKeysAuthorize`, `SupportedTokens` | `AuthorizedByPublishedKeys`, `SupportedTokenAccepted` |
| `TokenDecisionProofs` | `VerifiedWhenAuthorized`, `GoodTokens`, `OrderOfKeys` | `AuthorizedMeansVerified`, `GoodTokenAccepted`, `KeyOrderIrrelevant` |
| `ServerProofs` | `PublishedLives`, `TableShared`, `HandlesForGood`; `LocksReleasedOnce`; `InnermostHandles`, `ErrorsFlushed`; `ServerTypes` | `PublishedAreaLives`, `OneTable`, `PublishedForGood` (an action property); `LockReleasedOnce`; `HandlerInnermost`, `NoErrorRemains`; `ServerTypeOK` |
| `OpenSslProofs` | `ReferencesCounted`, `NoFreedKeyHeld`, `OnlyOwnKeyFreed`; `EverythingFreedOnce`, `FirstFailureReported` | `OwnersCounted`; a handle holds no freed key, but for `h = h.get()`, which alone does that; `FreedOnce`, `FirstErrorReported` |
| `JwtDataProofs` | `CellsOwnedOnce`, `ValuesBehave`; `EscapesBecomeUtf8`; `DecodesExactly`, `DecodingUndoesEncoding`; `LookupAnswersFromDocument` | `OwnedOnce`, `ValueSemantics`; `EscapesAreUtf8`; `DecodeExact`, `RoundTrip`; `LookupIsFirstListed` |
| `JwtTokenProofs` | `KeysDecide`, `OneInstant`, `SettingsDecide`; `SignedIsRecognized`, `LifetimeKept` | `SignedWithAllowedKey`, `ValidAtOneInstant`, `LastSettingsDecide`; `SignedTokenIsRecognized`, `GoodForItsLifetime` |

**Cache** (`CacheAssumption`, `NoneAssumption`). The safety properties are not
inductive. The invariant `IInv` adds: the arguments of a call in progress
passed its guards (`ArgsChecked`); a reader holds its partition in shared mode
and a writer in exclusive mode, and their entry exists (`LocksHeld`); nobody
holds another lock, except after an exception (`LocksOwned`); an exclusive
holder is alone (`MutualExclusion`); a field of an entry is sound unless a
`put` on that key has yet to write it (`EntriesSound`). `OnlyInsertLocks`
records finding 1 as a fact: the eraser's half of `LockExclusive` is never
taken, because the eraser is among the shared holders. The stability of a
checked entry follows from `LocksHeld` and `MutualExclusion`: the three steps
that write the table belong to a backend that holds, or finds free, the
exclusive lock of the partition.

`ImplementsMap` goes action by action: the map changes when `put` writes the
expiration, a lookup takes effect at its expiry check, and everything else
changes nothing there. A hit copies its text after it took effect, which is
sound because of the stability above; `put` needs in addition that its text is
still in the entry when it writes the expiration (`TextWritten`).

**Client** (`ClientAssumption` as well). `CInv` is `IInv` and, for each place
where a text waits between two steps, that it was served under the URL of the
frame: in the response, in the arguments and the result of the cache's call, in
the table, and in the document that is returned (`CallsWork`,
`EntriesServed`). The age of an entry is that of a line of its own response,
because `last_max_age_` is reset before each transfer.

**Validator** (`ValidatorAssumption` as well). `VInv` ties the request that a
session waits for to the session's own settings (`Waiting`) and its result to a
published key set that `Decide` was applied to at an instant of the past
(`Justified`). Published documents and passed instants stay such (`Later`),
therefore no step of another backend or of the provider takes a justification
away.

**Decision** (`DecisionAssumption`). The specification takes one step; the work
is in what `Decide` computes. `StopKey` is the key at which the loop of
`configure_verifier_with_jwks` stops; it exists because a set of positions has
a least element, and it is the only one. From there the families of algorithms
are compared with the reference. For `OrderOfKeys` the same key is found in the
permuted set, since well-formed keys with different ids stop the loop for one
id each.

**Server** (`AttachAssumption`, `RefAssumption`, `TryAssumption`). A creator of the table holds
the lock and has found the handle unset after it got it; readers are only where
it is set (`CreatorsWork`, `ReadersWork`). So creators are alone, and what
readers see never changes. For the error bridge the invariant says of every
frame, not only of the innermost, that what it saved is the frame below it
(`FramesNest`), since each may be reinstated; `pg_try_block` shows what happens
if one is not. `NoErrorRemains` is about frames of `pg_try`; the PG_CATCH of
`validate_token` itself (`pg_oidc_validator.cpp:128-132`) does not call
`FlushErrorState`, and the property does not cover it. For references the
property is inductive with its types.

**Key handles** (`HandleAssumption`). The invariant is the property with the
types; a handle that `h = h.get()` left dangling counts as no owner. The lemmas
count: by how much the number of owners of any key changes
when a handle is made, changed or destroyed, also where an assignment changes
the owners of two keys at once.

**Calls** (`LibraryAssumption`: every function's table keeps the conventions in
`FunctionOK`. What is given away is owned and released before anything can fail;
a raw pointer is taken over by the step after the one that fills it; an error
code that is not tested is thrown at once, or is the function's own result; a
public function clears the code first, or keeps the code it was given and calls
nothing that might test it, as `raw2bn` does; what a failing call leaves in a raw
pointer is freed on its error path. TLC evaluates this on the tables of
`OpenSslCalls`, so the theorems hold for jwt-cpp's functions and for any others
written like them). `Level` reads off the table how many owners an object has
before a step. `CallInv` says that every activation owns what its table says and
waits for the one above it (`StackOK`), that the running one has as many owners
as its level says, and one each while an exception unwinds the stack
(`OwnersOK`), that a function which returns an object does so unless it failed
(`HandedOK`), and that `ec` or `thrown` is the first failure, after which the
next step returns or throws (`ErrorOK`). The last is claimed where the code
keeps to its comments: finding 6 has the exceptions.

**Values** (`ValueAssumption`). Ownership and meaning need each other: a write
to one value is invisible to the others because no cell has two owners, and
`clear` may free a cell because of the same. `VInv` has both, and that no
allocated cell is without owner. A copy or a move hands on what was meant with
the value, so that an integer is rounded once, wherever it has got to.

**Verifier** (`VerifierAssumption`: a second has ticks, leeways are natural
numbers, the numbers of a token are whole halves or seconds). `SetUpInv` says
that `algs`, `claims` and `default_leeway` hold what the last call about each
name gave, and the constructor's checks where there was none. `CallOK` says
what a call of `verify` has established where it stands: the token's signature,
a time read during the call, and that the checks which are no longer left have
passed at that time. `OneInstant` and `SettingsDecide` then rest on arithmetic
modulo the clock's range: a sum that wraps round never
lets a token through that the true sum would not, and wrapping twice is
wrapping once. `SettingsDecide` compares with `Meets`, which says what the
comments say, for settings that are not `Disputed` (finding 7).

**Builder** (`BuilderAssumption`: dates, lifetimes and the numbers of claims are
integers, and the clock that runs does not reach the range at which it wraps).
`BuilderInv` is the verifier's invariant, that the builder holds for each name
what was asked last (`BuilderOK`), and that every issued token has what had
been asked and was made before the verification under way (`IssuedOK`).
`LifetimeKept` then rests on the rounding of the clock to seconds when the claim
is set and on the verifier's arithmetic above.

**Key sets** (`KeySetAssumption`: a list of keys that parses is a sequence, and
no member is called "value", which stands for `get_x5c_key_value`). `KeySetInv`
adds to the property that `keys` are those of the document (`KeysParsed`). The
first key with an id exists because a set of positions has a least element.

**Escapes** (`EscapesAssumption`: texts are bytes). The property is inductive
with the type of the text. The work is arithmetic: the digits of a code unit,
the pairing of surrogates and the bytes of UTF-8 with each range of code points
as a case of its own.

**Base64 and signatures** (`EncodingsAssumption`: binaries and texts are bytes,
numbers have no leading zero). No induction is needed: every group of three
bytes and four characters is computed from its own place in the text, so the
proof compares one group with its 24 bits, and the ends of the text with the
one or two bytes that are left. The fills at the end are counted as the least
number that is not there; they are separable from the text because no character
of an alphabet begins its fill. `CodeInv` says that the reply is the one the
functions give for the query.

Only model-checked:

* liveness, which needs fairness: `CallsReturnUntilExpiry`, `ValidationEnds`,
  `AttachReturnsUnlessKept`;
* `AcceptsGrammar` and `ReadsMeaning` (`PicoJson`): the parser and the grammar
  are recursive, and facts about every text would need induction over texts;
* that the tables of `OpenSslCalls` satisfy `LibraryAssumption`: it is a fact
  about finite tables, which TLC evaluates completely.

## 6. Not modelled

* Cryptography itself: a signature is the algorithm, the key and the data.
* Text formatting, JSON indentation, the ranges and output forms of numbers, the
  locale.
* `picojson::value::set` when `new` fails, and from a reference into the value
  itself, which `clear` frees first: the module assigns whole values.
* That a token's parts are serialized by `sign` and parsed by `verify`: here a
  part stands for its text. Comparison of claims serializes one level.
* A `dshash` that is moved while references into it live.
* The failure of `EVP_PKEY_up_ref` in a key handle: it fails only for a key
  without references.
* Checks given to the verifier as functions; the traits for other JSON
  libraries, with which the module is not built.
* The server's memory contexts, apart from which one is current.
* `oauth_conn_test.cpp`, a test client; build files, packaging, examples.
* Changes of settings in mid-call: settings are reread between commands, and a
  validation is one call.

## 7. Plan

1. Done: cache, its abstract specification, client, decision, validator; the
   cache's safety theorems.
2. Done: `SharedAttach`, `PgTry` and the token library.
3. Done: proofs for the cache's refinement, the client, the validator, the
   decision, `SharedAttach`, `PgTry`, `KeyHandle`, `PicoValue` and
   `JwtVerifier`.
4. Done: proofs for `JwtBuilder`, `JwtKeySet`, `ErrorCodeCalls`, `PicoEscape`
   and `Encodings`.

What is left, induction over JSON texts and liveness, is out of the prover's
reach and stays with TLC.
