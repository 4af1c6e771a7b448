---------------------------- MODULE CryptoCalls ----------------------------
(***************************************************************************)
(* What the calls of the native core that handle secrets own: AES-GCM      *)
(* decryption (crypto/aes_gcm.cpp), the unwrapping of keys                 *)
(* (crypto/rsa_oaep.cpp), locked and wiped memory (crypto/secure_memory)   *)
(* and encrypted templates (template/template_parser.cpp).                 *)
(*                                                                         *)
(* A plaintext is its block, the lock on its pages and the secret in it.   *)
(* An empty one is a block only: no byte is locked or wiped.               *)
(***************************************************************************)
EXTENDS CallSteps

CONSTANT MaxSections    \* bound: sections of a template, at most 2

Block(i) == <<"plain", "plain 1", "plain 2">>[i + 1]
Lock(i) == <<"lock", "lock 1", "lock 2">>[i + 1]
Secret(i) == <<"secret", "secret 1", "secret 2">>[i + 1]
Empty(i) == <<"empty", "empty 1", "empty 2">>[i + 1]
Plain(i, kind) == IF kind = "empty" THEN {Empty(i)} ELSE {Block(i), Lock(i), Secret(i)}

\* lock_memory(): mlock() may refuse.  It locks nothing of an empty block.
lock_memory(i, kind) ==
    IF kind = "empty" THEN Check({Empty(i)}) ELSE Get(Lock(i), {Block(i)})

\* The EVP calls: each failure frees the context; so does the last, first.
decrypt_openssl(aad) ==
    LET check == Check({"cipher"})
    IN  <<Get("cipher", {}), check, check, check>>
        \o (IF aad THEN <<check>> ELSE <<>>)
        \o <<check, check, Free({"cipher"}), Check({})>>

\* Without OpenSSL in the build there is no decryption.
decrypt_impl(aads) == {decrypt_openssl(a) : a \in aads} \cup {<<Refuse({})>>}

\* AesGcmDecryptor::decrypt() into slot i: the error path wipes, unlocks and
\* frees what the caller will not get.
decrypt(i, kind, aads) ==
    LET alloc == IF kind = "empty" THEN <<Get(Empty(i), {}), lock_memory(i, kind)>>
                 ELSE <<Get(Block(i), {}), lock_memory(i, kind), Take(Secret(i))>>
    IN  {<<Check({})>> \o alloc \o Within(w, Plain(i, kind)) : w \in decrypt_impl(aads)}

\* AesGcmDecryptor::secure_free() returns at once when the length is 0: an
\* empty plaintext is never freed.
secure_free(plains) == plains \ {Empty(0), Empty(1), Empty(2), "empty key"}

gopost_crypto_create == <<Check({}), Get("crypto", {})>>
gopost_crypto_destroy == <<Check({}), Free({"crypto"})>>
gopost_crypto_secure_free(plains) == <<Check({}), Free(secure_free(plains))>>

-----------------------------------------------------------------------------
\* rsa_oaep_unwrap_impl().  An unwrapped key may be empty as well.
Key(kind) == IF kind = "empty" THEN {"empty key"} ELSE {"key", "key lock", "key secret"}

Unwrapping ==
    LET both == {"pkey ctx", "pkey"}
    IN  <<Check({}), Get("bio", {}), Get("pkey", {"bio"}), Free({"bio"}),
          Get("pkey ctx", {"pkey"}), Check(both), Check(both), Check(both)>>

rsa_oaep_unwrap(kind) ==
    LET both == {"pkey ctx", "pkey"}
        buf == IF kind = "empty" THEN "empty key" ELSE "key"
    IN  Unwrapping \o <<Get(buf, both), Free(both), Check({buf})>>
        \o (IF kind = "empty" THEN <<Check({buf})>>
            ELSE <<Take("key secret"), Get("key lock", {"key", "key secret"})>>)

-----------------------------------------------------------------------------
\* Templates.  parse_sections() decrypts one section after another and returns
\* well when the data ends early; kinds says what each section there is holds.
SectionsBefore(kinds, i) == UNION {Plain(j, kinds[j]) : j \in 1 .. i - 1}

SectionWays(kinds, i) ==
    LET undo == secure_free(SectionsBefore(kinds, i)) \cup {"parser crypto", "template"}
    IN  {Within(<<Check({})>> \o w, undo) : w \in decrypt(i, kinds[i], {FALSE})}

parse_sections(kinds) ==
    CASE Len(kinds) = 0 -> {<<>>}
      [] Len(kinds) = 1 -> SectionWays(kinds, 1)
      [] Len(kinds) = 2 -> {a \o b : a \in SectionWays(kinds, 1), b \in SectionWays(kinds, 2)}

SectionKinds == UNION {[1 .. n -> {"text", "empty"}] : n \in 0 .. MaxSections}

\* The checksum of the file is compared and kept, and refuses nothing.
validate_magic == <<Check({})>>
parse_encryption_header == <<Check({"template"})>>
ParseStart ==
    <<Check({})>> \o validate_magic \o <<Get("template", {})>>
    \o parse_encryption_header \o <<Get("parser crypto", {"template"})>>

gopost_template_parse ==
    UNION {OneOf(ParseStart, parse_sections(k), <<Free({"parser crypto"})>>)
              : k \in SectionKinds}

\* The session key and the context are released whatever parsing returned.
gopost_template_parse_with_wrapped_key ==
    LET Undo(kind) == secure_free(Key(kind)) \cup {"key crypto"}
    IN  UNION {OneOf(<<Check({}), Get("key crypto", {})>>
                         \o Within(rsa_oaep_unwrap(kind), {"key crypto"}),
                     {Within(p, Undo(kind)) : p \in gopost_template_parse},
                     <<Free(Undo(kind))>>) : kind \in {"text", "empty"}}

\* Unloading frees the sections through a context of its own; without one it
\* uses the parser's secure_free(), which frees empty sections too.
Sections == UNION {Plain(i, k) : i \in 1 .. 2, k \in {"text", "empty"}}
gopost_template_unload ==
    {<<Check({}), Take("parser crypto"), FreeIfThere(secure_free(Sections)),
       Free({"parser crypto"}), Free({"template"})>>,
     <<Check({}), FreeIfThere(Sections), Free({"template"})>>}

-----------------------------------------------------------------------------
\* What the app can call, with what it hands in, and what it may own.
CryptoLibrary ==
    [gopost_crypto_create |-> Call({}, {"crypto"}, {gopost_crypto_create}),
     gopost_crypto_destroy |-> Call({"crypto"}, {}, {gopost_crypto_destroy}),
     decrypt |-> Call({"crypto"}, {"plain"},
                      decrypt(0, "text", BOOLEAN) \cup decrypt(0, "empty", BOOLEAN)),
     free_plain |->
        Call({"crypto", "plain"}, {}, {gopost_crypto_secure_free(Plain(0, "text"))}),
     free_empty |->
        Call({"crypto", "empty"}, {}, {gopost_crypto_secure_free(Plain(0, "empty"))}),
     free_key |-> Call({"crypto", "key"}, {}, {gopost_crypto_secure_free(Key("text"))}),
     rsa_oaep_unwrap |->
        Call({"crypto"}, {"key"}, {rsa_oaep_unwrap("text"), rsa_oaep_unwrap("empty")})]
CryptoObjects ==
    {AllOrNothing({"crypto"}), AllOrNothing(Plain(0, "text")), AllOrNothing(Key("text"))}

TemplateLibrary ==
    [gopost_template_parse |-> Call({}, {"template"}, gopost_template_parse),
     gopost_template_parse_with_wrapped_key |->
        Call({}, {"template"}, gopost_template_parse_with_wrapped_key),
     gopost_template_unload |-> Call({"template"}, {}, gopost_template_unload)]
TemplateObjects ==
    LET Loaded(n) == {"template"} \cup UNION {Plain(i, "text") : i \in n}
    IN  {Object(Loaded({1, 2}), {{}} \cup {Loaded(n) : n \in SUBSET {1, 2}})}

\* Empty plaintexts and keys: secure_free() does not free them.
CryptoLeaks == {Empty(0), Empty(1), Empty(2), "empty key"}
=============================================================================
