------------------------- MODULE ItemDocumentProofs -------------------------
(***************************************************************************)
(* Proofs about ItemDocument.                                              *)
(***************************************************************************)
EXTENDS ItemDocument, TLAPS

-----------------------------------------------------------------------------
(* Functions given by their pairs.                                         *)

\* The domain and the values of two functions put together.
LEMMA Merged ==
  ASSUME NEW a, NEW b
  PROVE  /\ DOMAIN (a @@ b) = DOMAIN a \cup DOMAIN b
         /\ \A x \in DOMAIN a : (a @@ b)[x] = a[x]
         /\ \A x \in DOMAIN b : x \notin DOMAIN a => (a @@ b)[x] = b[x]
<1>1. DOMAIN (a @@ b) = DOMAIN a \cup DOMAIN b
  BY DEF @@
<1>2. ASSUME NEW x \in DOMAIN a PROVE (a @@ b)[x] = a[x]
  BY DEF @@
<1>3. ASSUME NEW x \in DOMAIN b, x \notin DOMAIN a PROVE (a @@ b)[x] = b[x]
  BY <1>3 DEF @@
<1> QED BY <1>1, <1>2, <1>3

IsFunction(j) == j = [f \in DOMAIN j |-> j[f]]

\* Two functions put together are one.
LEMMA MergedFunction ==
  ASSUME NEW a, NEW b
  PROVE  IsFunction(a @@ b)
BY DEF @@, IsFunction

\* The one pair of a function.
LEMMA Single ==
  ASSUME NEW k, NEW v
  PROVE  DOMAIN (k :> v) = {k} /\ (k :> v)[k] = v
BY DEF :>

-----------------------------------------------------------------------------
(* The tables of structs.                                                  *)

\* Each field of a struct is of one sort, and a required one is always written.
StructOK(s) ==
  /\ \A f \in s.skip : f \notin s.option \cup s.list \cup s.full \cup s.doc
  /\ \A f \in s.option : f \notin s.list \cup s.full \cup s.doc
  /\ \A f \in s.list \cup s.full : f \notin s.doc
  /\ \A f \in s.required : f \notin s.skip \cup s.option \cup s.list

\* The fields with structs inside.
NestedNames ==
  {"custom_fields", "sections", "emails", "phones", "government_ids", "urls",
   "password_history", "fido2_credentials", "totp", "generator_recipe", "rotation",
   "billing_address", "address", "addresses"}

\* A content has neither the tag's name nor a later version's, its structs are in
\* lists or options, it has custom fields, and its only enum, if any, is the kind
\* of a credential.
ContentOK(s) ==
  /\ StructOK(s)
  /\ "kind" \notin Fields(s) /\ "later_field" \notin Fields(s)
  /\ \A f \in NestedNames : f \in Fields(s) => f \in s.option \cup s.list \cup s.full
  /\ "custom_fields" \in s.full
  /\ s.required = {} /\ Enums(s) \subseteq {"credential_kind"}
  /\ "credential_kind" \notin s.option \cup s.list \cup s.full \cup s.doc

KindNames ==
  {"login", "secure_note", "api_credential", "card", "identity", "document", "ssh_key", "server", "database", "bank_account", "passport", "driver_license", "crypto_wallet"}

\* Where a content keeps its document and its text.
ProseOf(s, doc, text) == s.doc = {doc} /\ text \in s.skip

\* Every content is sound.
LEMMA ContentsOK ==
  /\ ContentOK(LoginContent)
  /\ ContentOK(SecureNoteContent)
  /\ ContentOK(ApiCredentialContent)
  /\ ContentOK(CardContent)
  /\ ContentOK(IdentityContent)
  /\ ContentOK(DocumentContent)
  /\ ContentOK(SshKeyContent)
  /\ ContentOK(ServerContent)
  /\ ContentOK(DatabaseContent)
  /\ ContentOK(BankAccountContent)
  /\ ContentOK(PassportContent)
  /\ ContentOK(DriverLicenseContent)
  /\ ContentOK(CryptoWalletContent)
<1>1. ContentOK(LoginContent)
  BY DEF ContentOK, StructOK, NestedNames, Fields, Enums, EnumFields, LoginContent, Content
<1>2. ContentOK(SecureNoteContent)
  BY DEF ContentOK, StructOK, NestedNames, Fields, Enums, EnumFields, SecureNoteContent, Content
<1>3. ContentOK(ApiCredentialContent)
  BY DEF ContentOK, StructOK, NestedNames, Fields, Enums, EnumFields, ApiCredentialContent, Content
<1>4. ContentOK(CardContent)
  BY DEF ContentOK, StructOK, NestedNames, Fields, Enums, EnumFields, CardContent, Content
<1>5. ContentOK(IdentityContent)
  BY DEF ContentOK, StructOK, NestedNames, Fields, Enums, EnumFields, IdentityContent, Content
<1>6. ContentOK(DocumentContent)
  BY DEF ContentOK, StructOK, NestedNames, Fields, Enums, EnumFields, DocumentContent, Content
<1>7. ContentOK(SshKeyContent)
  BY DEF ContentOK, StructOK, NestedNames, Fields, Enums, EnumFields, SshKeyContent, Content
<1>8. ContentOK(ServerContent)
  BY DEF ContentOK, StructOK, NestedNames, Fields, Enums, EnumFields, ServerContent, Content
<1>9. ContentOK(DatabaseContent)
  BY DEF ContentOK, StructOK, NestedNames, Fields, Enums, EnumFields, DatabaseContent, Content
<1>10. ContentOK(BankAccountContent)
  BY DEF ContentOK, StructOK, NestedNames, Fields, Enums, EnumFields, BankAccountContent, Content
<1>11. ContentOK(PassportContent)
  BY DEF ContentOK, StructOK, NestedNames, Fields, Enums, EnumFields, PassportContent, Content
<1>12. ContentOK(DriverLicenseContent)
  BY DEF ContentOK, StructOK, NestedNames, Fields, Enums, EnumFields, DriverLicenseContent, Content
<1>13. ContentOK(CryptoWalletContent)
  BY DEF ContentOK, StructOK, NestedNames, Fields, Enums, EnumFields, CryptoWalletContent, Content
<1> QED BY <1>1, <1>2, <1>3, <1>4, <1>5, <1>6, <1>7, <1>8, <1>9, <1>10, <1>11, <1>12, <1>13

\* Every content but a secure note keeps notes.
LEMMA ContentsProse ==
  /\ ProseOf(LoginContent, "notes", "notes_text")
  /\ ProseOf(SecureNoteContent, "body", "body_text")
  /\ ProseOf(ApiCredentialContent, "notes", "notes_text")
  /\ ProseOf(CardContent, "notes", "notes_text")
  /\ ProseOf(IdentityContent, "notes", "notes_text")
  /\ ProseOf(DocumentContent, "notes", "notes_text")
  /\ ProseOf(SshKeyContent, "notes", "notes_text")
  /\ ProseOf(ServerContent, "notes", "notes_text")
  /\ ProseOf(DatabaseContent, "notes", "notes_text")
  /\ ProseOf(BankAccountContent, "notes", "notes_text")
  /\ ProseOf(PassportContent, "notes", "notes_text")
  /\ ProseOf(DriverLicenseContent, "notes", "notes_text")
  /\ ProseOf(CryptoWalletContent, "notes", "notes_text")
BY DEF ProseOf, Content, LoginContent, SecureNoteContent, ApiCredentialContent, CardContent, IdentityContent, DocumentContent, SshKeyContent, ServerContent, DatabaseContent, BankAccountContent, PassportContent, DriverLicenseContent, CryptoWalletContent

\* The kinds are those of the JSON tag, and each has a sound content.
LEMMA KindTable ==
  /\ DOMAIN ItemContent = KindNames
  /\ \A k \in KindNames : ContentOK(ItemContent[k])
<1>1. DOMAIN ItemContent = KindNames
  BY DEF ItemContent, KindNames
<1>2. ASSUME NEW k \in KindNames PROVE ContentOK(ItemContent[k])
  BY ContentsOK DEF ItemContent, KindNames
<1> QED BY <1>1, <1>2

\* The structs inside a content have texts and options only.
EntryOK(s) == StructOK(s) /\ s.list = {} /\ s.full = {} /\ s.doc = {}

\* Every struct inside a content is one of those.
LEMMA EntriesOK ==
  /\ EntryOK(Section)
  /\ EntryOK(EmailEntry)
  /\ EntryOK(PhoneEntry)
  /\ EntryOK(GeneratorRecipe)
  /\ EntryOK(Fido2Credential)
  /\ EntryOK(PasswordHistoryEntry)
  /\ EntryOK(LoginUrl)
  /\ EntryOK(PostalAddress)
  /\ EntryOK(GovernmentId)
  /\ EntryOK(WalletAddress)
  /\ EntryOK(RotationPolicy)
  /\ EntryOK(TotpConfig)
  /\ EntryOK(CustomField)
BY DEF EntryOK, StructOK, Entry, Section, EmailEntry, PhoneEntry, GeneratorRecipe, Fido2Credential, PasswordHistoryEntry, LoginUrl, PostalAddress, GovernmentId, WalletAddress, RotationPolicy, TotpConfig, CustomField

\* Every content finds the structs of its nested fields.
LEMMA NestedTable ==
  ASSUME NEW k \in KindNames
  PROVE  /\ DOMAIN Nested[k] = NestedNames
         /\ \A f \in NestedNames : EntryOK(Nested[k][f])
<1>1. DOMAIN ItemContent = KindNames
  BY KindTable
<1> DEFINE w == IF k = "crypto_wallet" THEN WalletAddress ELSE PostalAddress
<1>2. Nested[k] = ("addresses" :> w) @@ NestedTypes
  BY <1>1 DEF Nested
<1>3. EntryOK(w)
  BY EntriesOK
<1> HIDE DEF w
<1>4. DOMAIN NestedTypes = NestedNames \ {"addresses"} /\ "addresses" \in NestedNames
  BY DEF NestedTypes, NestedNames
<1> DEFINE t == "addresses" :> w
<1>5. DOMAIN t = {"addresses"} /\ t["addresses"] = w
  BY Single
<1> HIDE DEF t
<1>6. ASSUME NEW f \in NestedNames \ {"addresses"} PROVE EntryOK(NestedTypes[f])
  BY EntriesOK DEF NestedTypes, NestedNames
<1>7. /\ DOMAIN (t @@ NestedTypes) = NestedNames
      /\ (t @@ NestedTypes)["addresses"] = w
      /\ \A f \in NestedNames \ {"addresses"} : (t @@ NestedTypes)[f] = NestedTypes[f]
  <2>1. /\ DOMAIN (t @@ NestedTypes) = DOMAIN t \cup DOMAIN NestedTypes
        /\ \A x \in DOMAIN t : (t @@ NestedTypes)[x] = t[x]
        /\ \A x \in DOMAIN NestedTypes : x \notin DOMAIN t => (t @@ NestedTypes)[x] = NestedTypes[x]
    BY Merged
  <2> QED BY <1>4, <1>5, <2>1
<1>8. Nested[k] = t @@ NestedTypes
  BY <1>2 DEF t
<1>9. ASSUME NEW f \in NestedNames PROVE EntryOK(Nested[k][f])
  BY <1>3, <1>6, <1>7, <1>8
<1> QED BY <1>7, <1>8, <1>9

\* The notes of every kind are a document with its text.
LEMMA ProseTable ==
  ASSUME NEW k \in KindNames
  PROVE  /\ ItemContent[k].doc = {Prose(k).doc}
         /\ Prose(k).text \in ItemContent[k].skip
         /\ Prose(k).doc # Prose(k).text
<1>1. ProseOf(ItemContent[k], Prose(k).doc, Prose(k).text)
  BY ContentsProse DEF Prose, ItemContent, KindNames
<1>2. Prose(k).doc # Prose(k).text
  BY DEF Prose
<1> QED BY <1>1, <1>2 DEF ProseOf

-----------------------------------------------------------------------------
(* Serialization.                                                          *)

\* What is not written is the default that decoding fills in.
LEMMA OmittedIsDefault ==
  ASSUME NEW s, StructOK(s), NEW f \in Fields(s), NEW v, Omitted(s, f, v)
  PROVE  v = Default(s, f)
BY DEF StructOK, Omitted, Default

\* A struct inside a content survives encoding and decoding, and its required
\* fields and enums are there to be decoded.
LEMMA StructRoundTrip ==
  ASSUME NEW s, EntryOK(s), NEW e, ValidStruct(s, e)
  PROVE  /\ from_object(s, to_object(s, e)) = e
         /\ well_formed(s, to_object(s, e))
<1> DEFINE o == to_object(s, e)
<1>0. StructOK(s) /\ s.doc = {}
  BY DEF EntryOK
<1>1. /\ DOMAIN e = Fields(s) /\ e = [f \in DOMAIN e |-> e[f]]
      /\ \A f \in Enums(s) : e[f] \in EnumFields[f] \/ (f \in s.option /\ e[f] = None)
  BY DEF ValidStruct
<1>2. /\ DOMAIN o = {g \in Fields(s) : ~Omitted(s, g, e[g])}
      /\ \A f \in DOMAIN o : o[f] = e[f]
  BY DEF to_object
<1> HIDE DEF o
<1>3. ASSUME NEW f \in Fields(s) PROVE from_object(s, o)[f] = e[f]
  <2>1. f \notin DOMAIN o => e[f] = Default(s, f)
    BY <1>0, <1>2, OmittedIsDefault
  <2> QED BY <1>0, <1>2, <2>1 DEF from_object
<1>4. from_object(s, o) = [f \in Fields(s) |-> from_object(s, o)[f]]
  BY DEF from_object
<1>5. from_object(s, o) = e
  BY <1>1, <1>3, <1>4
<1>6. s.required \subseteq DOMAIN o
  BY <1>0, <1>2 DEF StructOK, Omitted, Fields
<1>7. ASSUME NEW f \in DOMAIN o \cap Enums(s) PROVE o[f] \in EnumFields[f]
  BY <1>1, <1>2 DEF Omitted
<1> QED BY <1>5, <1>6, <1>7 DEF well_formed, o

\* A content with a value of the right type in every field.
ValidContent(k, c) ==
  /\ DOMAIN c = Fields(ItemContent[k]) /\ c = [f \in DOMAIN c |-> c[f]]
  /\ \A f \in Fields(ItemContent[k]) : ValidValue(k, f, c[f])

\* The values of a field that is written, and of one that is read.
Packed(k, f, v) == Inside(k, f, v, to_object)
Unpacked(k, f, v) == Inside(k, f, v, from_object)

\* A field read from a document.
ReadField(k, j, f) ==
  IF f \notin DOMAIN j THEN Default(ItemContent[k], f)
  ELSE IF f \in ItemContent[k].doc THEN from_value_lossy(Unpacked(k, f, j[f]))
  ELSE Unpacked(k, f, j[f])

\* The fields of a content that are written.
Written(k, c) == {f \in Fields(ItemContent[k]) : ~Omitted(ItemContent[k], f, c[f])}

\* The keys and values of an encoded content.
LEMMA Encoded ==
  ASSUME NEW k \in KindNames, NEW c
  PROVE  /\ DOMAIN encode(k, c) = Written(k, c) \cup {"kind"}
         /\ \A f \in Written(k, c) : encode(k, c)[f] = Packed(k, f, c[f])
         /\ encode(k, c)["kind"] = k
         /\ IsFunction(encode(k, c))
<1> DEFINE s == ItemContent[k]
           W == Written(k, c)
           p == [f \in W |-> Packed(k, f, c[f])]
           t == "kind" :> k
<1>1. "kind" \notin W
  BY KindTable DEF ContentOK, Written
<1>2. encode(k, c) = p @@ t
  <2>1. DOMAIN to_object(s, c) = W /\ \A f \in W : to_object(s, c)[f] = c[f]
    BY DEF to_object, Written
  <2>2. [f \in DOMAIN to_object(s, c) |-> Packed(k, f, to_object(s, c)[f])] = p
    BY <2>1
  <2> QED BY <2>2 DEF encode, Packed
<1>3. DOMAIN t = {"kind"} /\ t["kind"] = k
  BY Single
<1>4. /\ DOMAIN (p @@ t) = DOMAIN p \cup DOMAIN t
      /\ \A x \in DOMAIN p : (p @@ t)[x] = p[x]
      /\ \A x \in DOMAIN t : x \notin DOMAIN p => (p @@ t)[x] = t[x]
  BY Merged
<1>5. IsFunction(p @@ t)
  BY MergedFunction
<1> HIDE DEF t
<1>6. DOMAIN (p @@ t) = W \cup {"kind"} /\ (p @@ t)["kind"] = k
  BY <1>1, <1>3, <1>4
<1>7. \A f \in W : (p @@ t)[f] = Packed(k, f, c[f])
  BY <1>4
<1> QED BY <1>2, <1>5, <1>6, <1>7

\* An encoded content is a document with the tag of its kind.
Tagged(j, k) == "kind" \in DOMAIN j /\ j["kind"] = k /\ IsFunction(j)

\* Encoding gives such a document.
LEMMA EncodedTagged ==
  ASSUME NEW k \in KindNames, NEW c
  PROVE  Tagged(encode(k, c), k)
<1>1. /\ DOMAIN encode(k, c) = Written(k, c) \cup {"kind"}
      /\ encode(k, c)["kind"] = k /\ IsFunction(encode(k, c))
  BY Encoded
<1> QED BY <1>1 DEF Tagged

\* Decoding reads every field of the content.
LEMMA Decoded ==
  ASSUME NEW j, Decodable(j)
  PROVE  decode(j) = [f \in Fields(ItemContent[j.kind]) |-> ReadField(j.kind, j, f)]
<1> DEFINE u == [f \in DOMAIN j |-> Unpacked(j.kind, f, j[f])]
<1>1. decode(j) = from_object(ItemContent[j.kind], u)
  BY DEF decode, Unpacked
<1>2. \A f \in Fields(ItemContent[j.kind]) :
        from_object(ItemContent[j.kind], u)[f] = ReadField(j.kind, j, f)
  BY DEF from_object, ReadField
<1>3. from_object(ItemContent[j.kind], u)
        = [f \in Fields(ItemContent[j.kind]) |-> from_object(ItemContent[j.kind], u)[f]]
  BY DEF from_object
<1> QED BY <1>1, <1>2, <1>3

\* The structs inside a field survive as the field's value does.
LEMMA FieldRoundTrip ==
  ASSUME NEW k \in KindNames, NEW f \in Fields(ItemContent[k]), NEW v, ValidValue(k, f, v),
         ~Omitted(ItemContent[k], f, v)
  PROVE  /\ Unpacked(k, f, Packed(k, f, v)) = v
         /\ f \in DOMAIN Nested[k] =>
              IF f \in ItemContent[k].option THEN well_formed(Nested[k][f], Packed(k, f, v))
              ELSE \A i \in DOMAIN Packed(k, f, v) : well_formed(Nested[k][f], Packed(k, f, v)[i])
<1> DEFINE n == Nested[k][f]
<1>1. CASE f \notin DOMAIN Nested[k]
  BY <1>1 DEF Packed, Unpacked, Inside
<1>2. CASE f \in DOMAIN Nested[k] /\ f \in ItemContent[k].option
  <2>1. EntryOK(n)
    BY <1>2, NestedTable
  <2>2. v # None
    BY <1>2 DEF Omitted
  <2>3. ValidStruct(n, v)
    BY <1>2, <2>2 DEF ValidValue
  <2>4. Packed(k, f, v) = to_object(n, v)
    BY <1>2 DEF Packed, Inside
  <2>5. from_object(n, to_object(n, v)) = v /\ well_formed(n, to_object(n, v))
    BY <2>1, <2>3, StructRoundTrip
  <2>6. Unpacked(k, f, to_object(n, v)) = from_object(n, to_object(n, v))
    BY <1>2 DEF Unpacked, Inside
  <2> QED BY <1>2, <2>4, <2>5, <2>6
<1>3. CASE f \in DOMAIN Nested[k] /\ f \notin ItemContent[k].option
  <2>1. EntryOK(n)
    BY <1>3, NestedTable
  <2>2. v = [i \in DOMAIN v |-> v[i]] /\ \A i \in DOMAIN v : ValidStruct(n, v[i])
    BY <1>3 DEF ValidValue
  <2> DEFINE p == [i \in DOMAIN v |-> to_object(n, v[i])]
  <2>3. Packed(k, f, v) = p
    BY <1>3 DEF Packed, Inside
  <2>4. \A i \in DOMAIN v : from_object(n, to_object(n, v[i])) = v[i] /\ well_formed(n, to_object(n, v[i]))
    BY <2>1, <2>2, StructRoundTrip
  <2>5. Unpacked(k, f, p) = [i \in DOMAIN p |-> from_object(n, p[i])]
    BY <1>3 DEF Unpacked, Inside
  <2>6. [i \in DOMAIN p |-> from_object(n, p[i])] = v
    BY <2>2, <2>4
  <2>7. \A i \in DOMAIN p : well_formed(n, p[i])
    BY <2>4
  <2> HIDE DEF p
  <2> QED BY <1>3, <2>3, <2>5, <2>6, <2>7
<1> QED BY <1>1, <1>2, <1>3

\* An encoded content decodes to itself: fields that are left out come back as
\* their defaults, and nothing is lost, added or refused.
LEMMA RoundTrip ==
  ASSUME NEW k \in KindNames, NEW c, ValidContent(k, c)
  PROVE  /\ Decodable(encode(k, c))
         /\ encode(k, c).kind = k
         /\ decode(encode(k, c)) = c
<1> DEFINE s == ItemContent[k]
           j == encode(k, c)
           W == Written(k, c)
<1>1. /\ DOMAIN j = W \cup {"kind"}
      /\ \A f \in W : j[f] = Packed(k, f, c[f])
      /\ j.kind = k
  BY Encoded
<1>2. /\ DOMAIN c = Fields(s) /\ c = [f \in DOMAIN c |-> c[f]]
      /\ \A f \in Fields(s) : ValidValue(k, f, c[f])
  BY DEF ValidContent
<1>3. /\ ContentOK(s) /\ DOMAIN ItemContent = KindNames /\ DOMAIN Nested[k] = NestedNames
      /\ "kind" \notin NestedNames
  BY KindTable, NestedTable DEF NestedNames
<1>4. StructOK(s) /\ "kind" \notin Fields(s)
      /\ s.required = {} /\ Enums(s) \subseteq {"credential_kind"}
      /\ \A f \in NestedNames : f \in Fields(s) => f \in s.option \cup s.list \cup s.full
  BY <1>3 DEF ContentOK
<1>5. \A f \in W : Unpacked(k, f, Packed(k, f, c[f])) = c[f]
  BY <1>2, FieldRoundTrip DEF Written
<1>6. \A f \in W : f \in DOMAIN Nested[k] =>
              IF f \in ItemContent[k].option THEN well_formed(Nested[k][f], Packed(k, f, c[f]))
              ELSE \A i \in DOMAIN Packed(k, f, c[f]) : well_formed(Nested[k][f], Packed(k, f, c[f])[i])
  BY <1>2, FieldRoundTrip DEF Written
<1> HIDE DEF j
<1>7. Decodable(j)
  <2>1. j.kind \in DOMAIN ItemContent
    BY <1>1, <1>3
  <2>2. ASSUME NEW f \in DOMAIN j \cap DOMAIN Nested[k]
        PROVE  IF f \in ItemContent[k].option THEN well_formed(Nested[k][f], j[f])
               ELSE \A i \in DOMAIN j[f] : well_formed(Nested[k][f], j[f][i])
    <3>1. f \in W
      BY <1>1, <1>3
    <3>2. j[f] = Packed(k, f, c[f])
      BY <1>1, <3>1
    <3> QED BY <1>6, <3>1, <3>2
  <2>3. ASSUME NEW f \in DOMAIN j \cap Enums(s) PROVE j[f] \in EnumFields[f]
    <3>1. f = "credential_kind" /\ f \in Fields(s) /\ f \in W /\ f \notin NestedNames
      BY <1>1, <1>4 DEF Enums, NestedNames
    <3>2. j[f] = c[f]
      BY <1>1, <1>3, <3>1 DEF Packed, Inside
    <3>3. c[f] \in ApiCredentialKind
      BY <1>2, <3>1 DEF ValidValue
    <3> QED BY <3>1, <3>2, <3>3 DEF EnumFields
  <2>4. well_formed(s, j)
    BY <1>4, <2>3 DEF well_formed
  <2> QED BY <1>1, <2>1, <2>2, <2>4 DEF Decodable
<1>8. ASSUME NEW f \in Fields(s) PROVE ReadField(k, j, f) = c[f]
  <2>1. CASE f \in W
    <3>1. f \in DOMAIN j /\ Unpacked(k, f, j[f]) = c[f]
      BY <1>1, <1>5, <2>1
    <3>2. f \in s.doc => from_value_lossy(c[f]) = c[f]
      BY <1>2 DEF ValidValue, from_value_lossy
    <3> QED BY <3>1, <3>2 DEF ReadField
  <2>2. CASE f \notin W
    <3>1. f \notin DOMAIN j /\ Omitted(s, f, c[f])
      BY <1>1, <1>4, <2>2 DEF Written
    <3>2. c[f] = Default(s, f)
      BY <1>4, <3>1, OmittedIsDefault
    <3> QED BY <3>1, <3>2 DEF ReadField
  <2> QED BY <2>1, <2>2
<1>9. decode(j) = [f \in Fields(s) |-> ReadField(k, j, f)]
  BY <1>1, <1>7, Decoded
<1>10. decode(j) = c
  BY <1>2, <1>8, <1>9
<1> QED BY <1>1, <1>7, <1>10 DEF j

\* A new content is valid.
LEMMA NewContent ==
  ASSUME NEW k \in KindNames
  PROVE  ValidContent(k, new_content(k))
<1> DEFINE s == ItemContent[k]
<1>1. ContentOK(s) /\ DOMAIN Nested[k] = NestedNames
  BY KindTable, NestedTable
<1>2. /\ StructOK(s) /\ "credential_kind" \notin s.option \cup s.list \cup s.full \cup s.doc
      /\ \A f \in NestedNames : f \in Fields(s) => f \in s.option \cup s.list \cup s.full
  BY <1>1 DEF ContentOK
<1>3. ASSUME NEW f \in Fields(s) PROVE ValidValue(k, f, Default(s, f))
  <2>1. f \in s.doc => is_doc_shape(Default(s, f))
    BY <1>2 DEF StructOK, Default, is_doc_shape, empty_doc
  <2>2. f \in s.option => Default(s, f) = None
    BY <1>2 DEF StructOK, Default
  <2>3. f \in s.list \cup s.full => Default(s, f) = <<>>
    BY <1>2 DEF StructOK, Default
  <2>4. <<>> = [i \in DOMAIN <<>> |-> <<>>[i]] /\ DOMAIN <<>> = {}
    OBVIOUS
  <2>5. f = "credential_kind" => Default(s, f) \in ApiCredentialKind
    BY <1>2 DEF Default, ApiCredentialKind
  <2> QED BY <1>1, <1>2, <2>1, <2>2, <2>3, <2>4, <2>5 DEF ValidValue
<1>4. /\ DOMAIN new_content(k) = Fields(s)
      /\ new_content(k) = [f \in DOMAIN new_content(k) |-> new_content(k)[f]]
      /\ \A f \in Fields(s) : new_content(k)[f] = Default(s, f)
  BY DEF new_content
<1> QED BY <1>3, <1>4 DEF ValidContent

-----------------------------------------------------------------------------
(* Types.                                                                  *)

DocTypes ==
  /\ TypeOK
  /\ copy = [a \in Apps |-> copy[a]]
  /\ "kind" \in DOMAIN stored /\ IsFunction(stored)

\* The constants a proof about the actions needs.
LEMMA Constants ==
  /\ MaxSaves \in Nat
  /\ \A k \in Kinds : k \in KindNames
  /\ \A w \in ForeignSaves : w \in {"new_field", "raw_notes", "new_purpose"}
BY DocumentAssumption, KindTable

\* Where the keys a foreign save writes are.
LEMMA ForeignKeys ==
  ASSUME NEW k \in KindNames
  PROVE  /\ Prose(k).doc \in Fields(ItemContent[k]) /\ Prose(k).doc # "kind"
         /\ Prose(k).text \in Fields(ItemContent[k])
         /\ "kind" \notin Fields(ItemContent[k]) /\ "later_field" \notin Fields(ItemContent[k])
<1>1. ContentOK(ItemContent[k])
  BY KindTable
<1>2. "kind" \notin Fields(ItemContent[k]) /\ "later_field" \notin Fields(ItemContent[k])
  BY <1>1 DEF ContentOK
<1>3. Prose(k).doc \in ItemContent[k].doc /\ Prose(k).text \in ItemContent[k].skip
  BY ProseTable
<1>4. Prose(k).doc \in Fields(ItemContent[k]) /\ Prose(k).text \in Fields(ItemContent[k])
  BY <1>3 DEF Fields
<1> QED BY <1>2, <1>4

raw_notes == [type |-> "string", content |-> "absent", text |-> "r"]

\* What another version of the software leaves behind.
LEMMA ForeignEffect ==
  ASSUME DocTypes, NEW w \in ForeignSaves, ForeignSave(w)
  PROVE  /\ rev < MaxSaves /\ rev' = rev + 1 /\ kind' = kind /\ copy' = copy
         /\ "kind" \in DOMAIN stored' /\ stored'["kind"] = kind
         /\ IsFunction(stored')
         /\ w = "new_field" =>
              /\ DOMAIN stored' = DOMAIN stored \cup {"later_field"}
              /\ \A f \in DOMAIN stored \ {"later_field"} : stored'[f] = stored[f]
         /\ w = "raw_notes" =>
              /\ DOMAIN stored' = DOMAIN stored \cup {Prose(kind).doc}
              /\ \A f \in DOMAIN stored \ {Prose(kind).doc} : stored'[f] = stored[f]
              /\ stored'[Prose(kind).doc] = raw_notes
<1>1. /\ rev < MaxSaves /\ rev' = rev + 1 /\ kind' = kind /\ copy' = copy
  BY DEF ForeignSave
<1>2. /\ "kind" \in DOMAIN stored /\ stored["kind"] = kind
      /\ IsFunction(stored) /\ kind \in KindNames
  BY Constants DEF DocTypes, TypeOK
<1>3. Prose(kind).doc # "kind"
  BY <1>2, ForeignKeys
<1>4. CASE w = "new_field"
  <2> DEFINE a == "later_field" :> "z"
  <2>1. stored' = a @@ stored
    BY <1>4 DEF ForeignSave
  <2>2. DOMAIN a = {"later_field"}
    BY Single
  <2> HIDE DEF a
  <2>3. /\ DOMAIN (a @@ stored) = DOMAIN a \cup DOMAIN stored
        /\ \A f \in DOMAIN stored : f \notin DOMAIN a => (a @@ stored)[f] = stored[f]
    BY Merged
  <2>4. IsFunction(a @@ stored)
    BY MergedFunction
  <2> QED BY <1>1, <1>2, <1>4, <2>1, <2>2, <2>3, <2>4
<1>5. CASE w = "raw_notes"
  <2> DEFINE a == [f \in {Prose(kind).doc} |-> raw_notes]
  <2>1. stored' = a @@ stored
    BY <1>5 DEF ForeignSave, raw_notes
  <2>2. DOMAIN a = {Prose(kind).doc} /\ a[Prose(kind).doc] = raw_notes
    OBVIOUS
  <2> HIDE DEF a
  <2>3. /\ DOMAIN (a @@ stored) = DOMAIN a \cup DOMAIN stored
        /\ \A f \in DOMAIN a : (a @@ stored)[f] = a[f]
        /\ \A f \in DOMAIN stored : f \notin DOMAIN a => (a @@ stored)[f] = stored[f]
    BY Merged
  <2>4. IsFunction(a @@ stored)
    BY MergedFunction
  <2> QED BY <1>1, <1>2, <1>3, <1>5, <2>1, <2>2, <2>3, <2>4
<1>6. CASE w = "new_purpose"
  <2>1. \E v : stored' = [stored EXCEPT !.custom_fields = v]
    BY <1>6 DEF ForeignSave
  <2> QED BY <1>1, <1>2, <1>6, <2>1 DEF IsFunction
<1> QED BY <1>4, <1>5, <1>6, Constants

\* The types are kept.
LEMMA DocTypesInvariant ==
  ASSUME DocTypes, [Next]_vars
  PROVE  DocTypes'
<1> USE DEF DocTypes
<1>0. /\ kind \in KindNames /\ rev \in Nat /\ MaxSaves \in Nat /\ stored.kind = kind
      /\ rev \in 0..MaxSaves
  BY Constants DEF TypeOK
<1>1. ASSUME NEW a \in Apps, Open(a) PROVE DocTypes'
  <2>1. Decodable(stored) => DOMAIN decode(stored) = Fields(ItemContent[kind])
    BY <1>0, Decoded
  <2>2. /\ kind' = kind /\ rev' = rev /\ stored' = stored
        /\ copy' = [copy EXCEPT ![a] =
             IF Decodable(stored) THEN [rev |-> rev, content |-> decode(stored)] ELSE None]
    BY <1>1 DEF Open
  <2> QED BY <1>0, <2>1, <2>2 DEF TypeOK
<1>2. ASSUME NEW a \in Apps, NEW c, Save(a, c) PROVE DocTypes'
  <2>1. /\ kind' = kind /\ copy' = [copy EXCEPT ![a] = None] /\ rev < MaxSaves
        /\ \/ stored' = encode(kind, c) /\ rev' = rev + 1
           \/ stored' = stored /\ rev' = rev
    BY <1>2 DEF Save
  <2>2. Tagged(encode(kind, c), kind)
    BY <1>0, EncodedTagged
  <2> QED BY <1>0, <2>1, <2>2 DEF TypeOK, Tagged
<1>3. ASSUME NEW w \in ForeignSaves, ForeignSave(w) PROVE DocTypes'
  <2>1. /\ rev < MaxSaves /\ rev' = rev + 1 /\ kind' = kind /\ copy' = copy
        /\ "kind" \in DOMAIN stored' /\ stored'["kind"] = kind
        /\ IsFunction(stored')
    BY <1>3, ForeignEffect
  <2> QED BY <1>0, <2>1 DEF TypeOK
<1>4. ASSUME UNCHANGED vars PROVE DocTypes'
  BY <1>4 DEF vars, TypeOK
<1>5. ASSUME NEW a \in Apps, EditField(a) PROVE DocTypes'
  BY <1>2, <1>5 DEF EditField
<1>6. ASSUME NEW a \in Apps, EditNotes(a) PROVE DocTypes'
  BY <1>2, <1>6 DEF EditNotes
<1> QED BY <1>1, <1>3, <1>4, <1>5, <1>6 DEF Next

\* The initial state has the types.
LEMMA DocTypesInit == Init => DocTypes
<1> SUFFICES ASSUME Init PROVE DocTypes
  OBVIOUS
<1>1. kind \in Kinds /\ kind \in KindNames /\ MaxSaves \in Nat
  BY Constants DEF Init
<1>2. Tagged(encode(kind, new_content(kind)), kind)
  BY <1>1, EncodedTagged
<1> QED BY <1>1, <1>2 DEF Init, DocTypes, TypeOK, Tagged

\* Every copy has exactly the fields of the item's kind, and the stored document
\* names that kind, whatever other versions wrote.
THEOREM DocumentTypes == Spec => []TypeOK
<1>1. Spec => []DocTypes
  BY DocTypesInit, DocTypesInvariant, PTL DEF Spec
<1> QED BY <1>1, PTL DEF DocTypes

-----------------------------------------------------------------------------
(* Extraction.                                                             *)

\* Fields whose entries the user names.
Named == {"custom_fields", "headers"}

\* A path starts at a field of the content that is not one of those.
PathOK(s, p) ==
  /\ p[1] \in Fields(s) /\ p[1] \notin Named
  /\ (Len(p) = 3 /\ p[2] = "middle_name") =>
       "first_name" \in Fields(s) /\ "middle_name" \in Fields(s) /\ "last_name" \in Fields(s)

ArmsOK(s, arms) == \A arm \in arms : PathOK(s, arm[2])
TableOK(s, t) == \A x \in DOMAIN t : PathOK(s, t[x])

\* A match gives what one of its arms stands for.
LEMMA MatchOK ==
  ASSUME NEW s, NEW arms, ArmsOK(s, arms)
  PROVE  TableOK(s, Match(arms))
<1> SUFFICES ASSUME NEW x \in DOMAIN Match(arms)
             PROVE  PathOK(s, Match(arms)[x])
  BY DEF TableOK
<1>1. \E arm \in arms : x \in arm[1]
  BY DEF Match
<1>2. \E arm \in arms : Match(arms)[x] = arm[2]
  BY <1>1 DEF Match
<1> QED BY <1>2 DEF ArmsOK

\* Every built-in name of every kind is a path into the content.
LEMMA BuiltinTables ==
  /\ TableOK(LoginContent, extract_login_field)
  /\ TableOK(SecureNoteContent, extract_secure_note_field)
  /\ TableOK(ApiCredentialContent, extract_api_credential_field)
  /\ TableOK(CardContent, extract_card_field)
  /\ TableOK(IdentityContent, extract_identity_field)
  /\ TableOK(DocumentContent, extract_document_field)
  /\ TableOK(SshKeyContent, extract_ssh_key_field)
  /\ TableOK(ServerContent, extract_server_field)
  /\ TableOK(DatabaseContent, extract_database_field)
  /\ TableOK(BankAccountContent, extract_bank_account_field)
  /\ TableOK(PassportContent, extract_passport_field)
  /\ TableOK(DriverLicenseContent, extract_driver_license_field)
  /\ TableOK(CryptoWalletContent, extract_crypto_wallet_field)
<1>1. TableOK(LoginContent, extract_login_field)
  BY MatchOK DEF extract_login_field, ArmsOK, PathOK, Named, Names, NotesNames, Fields, Content, LoginContent
<1>2. TableOK(SecureNoteContent, extract_secure_note_field)
  <2> DEFINE arms == {Names({"body", "note", "notes"}, <<"body">>)}
  <2>1. PathOK(SecureNoteContent, <<"body">>)
    BY DEF PathOK, Named, Fields, Content, SecureNoteContent
  <2>2. ArmsOK(SecureNoteContent, arms)
    BY <2>1 DEF ArmsOK, Names
  <2> HIDE DEF arms
  <2>3. TableOK(SecureNoteContent, Match(arms))
    BY <2>2, MatchOK
  <2> QED BY <2>3 DEF extract_secure_note_field, arms
<1>3. TableOK(ApiCredentialContent, extract_api_credential_field)
  BY MatchOK DEF extract_api_credential_field, ArmsOK, PathOK, Named, Names, NotesNames, Fields, Content, ApiCredentialContent
<1>4. TableOK(CardContent, extract_card_field)
  BY MatchOK DEF extract_card_field, ArmsOK, PathOK, Named, Names, NotesNames, Fields, Content, CardContent
<1>5. TableOK(IdentityContent, extract_identity_field)
  BY MatchOK DEF extract_identity_field, ArmsOK, PathOK, Named, Names, NotesNames, Fields, Content, IdentityContent
<1>6. TableOK(DocumentContent, extract_document_field)
  BY MatchOK DEF extract_document_field, ArmsOK, PathOK, Named, Names, NotesNames, Fields, Content, DocumentContent
<1>7. TableOK(SshKeyContent, extract_ssh_key_field)
  BY MatchOK DEF extract_ssh_key_field, ArmsOK, PathOK, Named, Names, NotesNames, Fields, Content, SshKeyContent
<1>8. TableOK(ServerContent, extract_server_field)
  BY MatchOK DEF extract_server_field, ArmsOK, PathOK, Named, Names, NotesNames, Fields, Content, ServerContent
<1>9. TableOK(DatabaseContent, extract_database_field)
  BY MatchOK DEF extract_database_field, ArmsOK, PathOK, Named, Names, NotesNames, Fields, Content, DatabaseContent
<1>10. TableOK(BankAccountContent, extract_bank_account_field)
  BY MatchOK DEF extract_bank_account_field, ArmsOK, PathOK, Named, Names, NotesNames, Fields, Content, BankAccountContent
<1>11. TableOK(PassportContent, extract_passport_field)
  BY MatchOK DEF extract_passport_field, ArmsOK, PathOK, Named, Names, NotesNames, DateNames, Fields, Content, PassportContent
<1>12. TableOK(DriverLicenseContent, extract_driver_license_field)
  BY MatchOK DEF extract_driver_license_field, ArmsOK, PathOK, Named, Names, NotesNames, DateNames, Fields, Content, DriverLicenseContent
<1>13. TableOK(CryptoWalletContent, extract_crypto_wallet_field)
  BY MatchOK DEF extract_crypto_wallet_field, ArmsOK, PathOK, Named, Names, NotesNames, Fields, Content, CryptoWalletContent
<1> QED BY <1>1, <1>2, <1>3, <1>4, <1>5, <1>6, <1>7, <1>8, <1>9, <1>10, <1>11, <1>12, <1>13

\* The built-in names of each kind are paths into its content.
LEMMA BuiltinPaths ==
  ASSUME NEW k \in KindNames, NEW x \in DOMAIN BuiltinNames[k]
  PROVE  PathOK(ItemContent[k], BuiltinNames[k][x])
<1>1. TableOK(ItemContent[k], BuiltinNames[k])
  BY BuiltinTables DEF BuiltinNames, ItemContent, KindNames
<1> QED BY <1>1 DEF TableOK

\* Contents with the same fields, up to those whose entries the user names.
Agree(k, c, d) == \A f \in Fields(ItemContent[k]) : f \notin Named => c[f] = d[f]

\* A match arm reads no field the user names.
LEMMA BuiltinAgrees ==
  ASSUME NEW k \in KindNames, NEW c, NEW d, Agree(k, c, d), NEW p, PathOK(ItemContent[k], p)
  PROVE  builtin_value(k, c, p) = builtin_value(k, d, p)
<1>1. c[p[1]] = d[p[1]]
  BY DEF Agree, PathOK
<1>2. c[Prose(k).text] = d[Prose(k).text]
  BY ForeignKeys DEF Agree, Prose, Named
<1>3. (Len(p) = 3 /\ p[2] = "middle_name") => join_full_name(c) = join_full_name(d)
  BY DEF Agree, PathOK, Named, join_full_name
<1> QED BY <1>1, <1>2, <1>3 DEF builtin_value

\* The arrays of an identity are fields of it.
LEMMA IdentityArrays ==
  LET s == ItemContent["identity"]
  IN  "emails" \in Fields(s) /\ "phones" \in Fields(s) /\ "addresses" \in Fields(s)
      /\ "government_ids" \in Fields(s)
BY DEF ItemContent, IdentityContent, Content, Fields

\* Extraction of a built-in field or by a selector reads no field the user names.
LEMMA ExtractAgrees ==
  ASSUME NEW k \in KindNames, NEW c, NEW d, Agree(k, c, d), NEW r,
         r.text \in DOMAIN BuiltinNames[k]
  PROVE  extract_field(k, c, r) = extract_field(k, d, r)
<1>1. CASE k = "identity" /\ split_array_prefix(r)
  <2>1. /\ c.emails = d.emails /\ c.phones = d.phones /\ c.addresses = d.addresses
        /\ c.government_ids = d.government_ids
    BY <1>1, IdentityArrays DEF Agree, Named
  <2>2. try_extract_identity_multi(c, r) = try_extract_identity_multi(d, r)
    BY <2>1 DEF try_extract_identity_multi
  <2> QED BY <1>1, <2>2 DEF extract_field
<1>2. CASE ~(k = "identity" /\ split_array_prefix(r))
  <2>1. builtin_value(k, c, BuiltinNames[k][r.text]) = builtin_value(k, d, BuiltinNames[k][r.text])
    BY BuiltinPaths, BuiltinAgrees
  <2> QED BY <1>2, <2>1 DEF extract_field
<1> QED BY <1>1, <1>2

\* The answer for a built-in name does not depend on custom fields and headers.
LEMMA NotShadowed == DocTypes => BuiltinsNotShadowed
<1> SUFFICES ASSUME DocTypes, NEW r \in References(kind), Decodable(stored),
                    r.text \in DOMAIN BuiltinNames[kind]
             PROVE  LET c == decode(stored)
                    IN  resolve(r) = extract_field(kind,
                          [f \in DOMAIN c |-> IF f \in {"custom_fields", "headers"} THEN <<>> ELSE c[f]], r)
  BY DEF BuiltinsNotShadowed
<1>1. kind \in KindNames /\ stored.kind = kind
  BY Constants DEF DocTypes, TypeOK
<1> DEFINE c == decode(stored)
           d == [f \in DOMAIN c |-> IF f \in {"custom_fields", "headers"} THEN <<>> ELSE c[f]]
<1>2. DOMAIN c = Fields(ItemContent[kind])
  BY <1>1, Decoded
<1>3. resolve(r) = extract_field(kind, c, r)
  BY DEF resolve
<1> HIDE DEF c
<1>4. Agree(kind, c, d)
  BY <1>2 DEF Agree, Named
<1> HIDE DEF d
<1>5. extract_field(kind, c, r) = extract_field(kind, d, r)
  BY <1>1, <1>4, ExtractAgrees
<1> QED BY <1>3, <1>5 DEF c, d

\* A reference to a built-in field gives the same answer whatever custom fields
\* and headers the item has.
THEOREM BuiltinsAreNotShadowed == Spec => []BuiltinsNotShadowed
<1>1. Spec => []DocTypes
  BY DocTypesInit, DocTypesInvariant, PTL DEF Spec
<1> QED BY <1>1, NotShadowed, PTL

\* A selector reads its array only.
LEMMA FailClosed == DocTypes => SelectorsFailClosed
<1> SUFFICES ASSUME DocTypes, NEW r \in References(kind), Decodable(stored),
                    kind = "identity", r.base # ""
             PROVE  resolve(r) = extract_field(kind,
                      [new_content(kind) EXCEPT ![r.base] = decode(stored)[r.base]], r)
  BY DEF SelectorsFailClosed
<1> DEFINE c == decode(stored)
           d == [new_content(kind) EXCEPT ![r.base] = c[r.base]]
<1>1. r.base \in {"emails", "phones", "addresses", "government_ids"}
  BY DocumentAssumption DEF DocTypes, TypeOK
<1>2. resolve(r) = extract_field(kind, c, r)
  BY DEF resolve
<1>3. DOMAIN new_content(kind) = Fields(ItemContent[kind])
  BY DEF new_content
<1>4. r.base \in DOMAIN new_content(kind)
  BY <1>1, <1>3, IdentityArrays
<1> HIDE DEF c
<1>5. d[r.base] = c[r.base]
  BY <1>4
<1> HIDE DEF d
<1>6. try_extract_identity_multi(c, r) = try_extract_identity_multi(d, r)
  <2>1. CASE r.base = "emails"
    BY <1>5, <2>1 DEF try_extract_identity_multi
  <2>2. CASE r.base = "phones"
    BY <1>5, <2>2 DEF try_extract_identity_multi
  <2>3. CASE r.base = "addresses"
    BY <1>5, <2>3 DEF try_extract_identity_multi
  <2>4. CASE r.base = "government_ids"
    BY <1>5, <2>4 DEF try_extract_identity_multi
  <2> QED BY <1>1, <2>1, <2>2, <2>3, <2>4
<1>7. extract_field(kind, c, r) = extract_field(kind, d, r)
  BY <1>1, <1>6 DEF extract_field, split_array_prefix
<1> QED BY <1>2, <1>7 DEF c, d

\* Selectors of the arrays of an identity fail closed.
THEOREM SelectorsAlwaysFailClosed == Spec => []SelectorsFailClosed
<1>1. Spec => []DocTypes
  BY DocTypesInit, DocTypesInvariant, PTL DEF Spec
<1> QED BY <1>1, FailClosed, PTL

-----------------------------------------------------------------------------
(* The fields of an item as registers.                                     *)

\* The stored document decodes to a valid content, and a copy of the current
\* revision is what it decodes to.
DocInv ==
  /\ DocTypes
  /\ Decodable(stored) /\ ValidContent(kind, decode(stored))
  /\ \A a \in Apps : (copy[a] # None /\ copy[a].rev = rev) => copy[a].content = decode(stored)

\* Contents that differ in one register at most.
OneField(k, c, d) ==
  \E f \in Fields(ItemContent[k]) \ {Prose(k).text} :
    \A g \in Fields(ItemContent[k]) \ {f} :
      d[g] = c[g] \/ (f = Prose(k).doc /\ g = Prose(k).text)

\* Every value an edit stores has the type of its field.
LEMMA SampleValid ==
  ASSUME NEW k \in Kinds, NEW f \in Fields(ItemContent[k]), NEW v \in Samples(k, f)
  PROVE  ValidValue(k, f, v)
BY DocumentAssumption

\* Setting one field keeps a content valid.
LEMMA FieldSet ==
  ASSUME NEW k \in KindNames, NEW c, ValidContent(k, c), NEW f \in Fields(ItemContent[k]), NEW v,
         ValidValue(k, f, v)
  PROVE  /\ ValidContent(k, [c EXCEPT ![f] = v])
         /\ OneField(k, c, [c EXCEPT ![f] = v])
<1> DEFINE d == [c EXCEPT ![f] = v]
<1>1. /\ DOMAIN d = Fields(ItemContent[k]) /\ d = [g \in DOMAIN d |-> d[g]]
      /\ d[f] = v /\ \A g \in Fields(ItemContent[k]) \ {f} : d[g] = c[g]
  BY DEF ValidContent
<1> HIDE DEF d
<1>2. ValidContent(k, d)
  BY <1>1 DEF ValidContent
<1>3. OneField(k, c, d)
  <2>1. Prose(k).doc \in Fields(ItemContent[k]) \ {Prose(k).text}
    BY ForeignKeys, ProseTable
  <2>2. CASE f = Prose(k).text
    BY <1>1, <2>1, <2>2 DEF OneField
  <2>3. CASE f # Prose(k).text
    BY <1>1, <2>3 DEF OneField
  <2> QED BY <2>2, <2>3
<1> QED BY <1>2, <1>3 DEF d

\* Replacing the notes keeps a content valid.
LEMMA NotesSet ==
  ASSUME NEW k \in KindNames, NEW c, ValidContent(k, c), NEW t, ValidValue(k, Prose(k).text, t)
  PROVE  LET d == [c EXCEPT ![Prose(k).doc] = from_plaintext(t)[1],
                            ![Prose(k).text] = from_plaintext(t)[2]]
         IN  ValidContent(k, d) /\ OneField(k, c, d)
<1> DEFINE doc == Prose(k).doc
           text == Prose(k).text
           d == [c EXCEPT ![Prose(k).doc] = from_plaintext(t)[1],
                          ![Prose(k).text] = from_plaintext(t)[2]]
<1>1. /\ doc \in Fields(ItemContent[k]) /\ text \in Fields(ItemContent[k]) /\ doc # text
      /\ doc \in ItemContent[k].doc
  BY ForeignKeys, ProseTable
<1>2. ValidValue(k, doc, from_plaintext(t)[1]) /\ from_plaintext(t)[2] = t
  <2>1. is_doc_shape(from_plaintext(t)[1])
    BY DEF from_plaintext, is_doc_shape, empty_doc
  <2>2. doc \notin NestedNames
    BY DEF Prose, NestedNames
  <2>3. from_plaintext(t)[2] = t
    BY DEF from_plaintext
  <2>4. doc # "credential_kind"
    BY DEF Prose
  <2> QED BY <2>1, <2>2, <2>3, <2>4, NestedTable DEF ValidValue
<1>3. /\ DOMAIN d = Fields(ItemContent[k]) /\ d = [g \in DOMAIN d |-> d[g]]
      /\ d[doc] = from_plaintext(t)[1] /\ d[text] = from_plaintext(t)[2]
      /\ \A g \in Fields(ItemContent[k]) \ {doc, text} : d[g] = c[g]
  BY <1>1 DEF ValidContent
<1> HIDE DEF d
<1>4. ValidContent(k, d)
  BY <1>2, <1>3 DEF ValidContent
<1>5. OneField(k, c, d)
  BY <1>1, <1>3 DEF OneField
<1> QED BY <1>4, <1>5 DEF d

\* Keys of later versions and malformed notes disturb at most the notes.
LEMMA ForeignDecoded ==
  ASSUME DocInv, NEW w \in ForeignSaves, w # "new_purpose", ForeignSave(w)
  PROVE  /\ Decodable(stored') /\ ValidContent(kind, decode(stored'))
         /\ OneField(kind, decode(stored), decode(stored'))
<1> DEFINE k == kind
           s == ItemContent[k]
           c == decode(stored)
           x == IF w = "new_field" THEN "later_field" ELSE Prose(k).doc
<1>1. DocTypes /\ Decodable(stored) /\ ValidContent(k, c)
  BY DEF DocInv
<1>2. k \in KindNames /\ stored.kind = k /\ w \in {"new_field", "raw_notes"}
  BY <1>1, Constants DEF DocTypes, TypeOK
<1>3. /\ stored'["kind"] = k
      /\ w = "new_field" =>
           /\ DOMAIN stored' = DOMAIN stored \cup {"later_field"}
           /\ \A f \in DOMAIN stored \ {"later_field"} : stored'[f] = stored[f]
      /\ w = "raw_notes" =>
           /\ DOMAIN stored' = DOMAIN stored \cup {Prose(k).doc}
           /\ \A f \in DOMAIN stored \ {Prose(k).doc} : stored'[f] = stored[f]
           /\ stored'[Prose(k).doc] = raw_notes
  BY <1>1, ForeignEffect
<1>4. /\ DOMAIN stored' = DOMAIN stored \cup {x}
      /\ \A f \in DOMAIN stored \ {x} : stored'[f] = stored[f]
  BY <1>2, <1>3
<1>5. x \notin NestedNames /\ DOMAIN Nested[k] = NestedNames
  BY <1>2, NestedTable DEF Prose, NestedNames
<1>6. Decodable(stored')
  <2>1. x \notin Enums(s)
    BY DEF Prose, Enums, EnumFields
  <2>2. well_formed(s, stored) => well_formed(s, stored')
    BY <1>4, <2>1 DEF well_formed
  <2> QED BY <1>1, <1>2, <1>3, <1>4, <1>5, <2>2 DEF Decodable
<1>7. /\ c = [f \in Fields(s) |-> ReadField(k, stored, f)]
      /\ decode(stored') = [f \in Fields(s) |-> ReadField(k, stored', f)]
  BY <1>1, <1>2, <1>3, <1>6, Decoded
<1>8. \A f \in Fields(s) \ {x} : ReadField(k, stored', f) = ReadField(k, stored, f)
  BY <1>4 DEF ReadField
<1>9. /\ Prose(k).doc \in Fields(s) /\ Prose(k).doc \in s.doc /\ Prose(k).doc # Prose(k).text
      /\ "later_field" \notin Fields(s)
  BY <1>2, ForeignKeys, ProseTable
<1>10. w = "raw_notes" => ReadField(k, stored', Prose(k).doc) = empty_doc
  <2>1. ~is_doc_shape(raw_notes)
    BY DEF is_doc_shape, raw_notes
  <2>2. w = "raw_notes" => Unpacked(k, Prose(k).doc, stored'[Prose(k).doc]) = raw_notes
    BY <1>3, <1>5 DEF Unpacked, Inside
  <2> QED BY <1>3, <1>9, <2>1, <2>2 DEF ReadField, from_value_lossy
<1>11. ValidValue(k, Prose(k).doc, empty_doc)
  <2>1. Prose(k).doc \notin NestedNames
    BY DEF Prose, NestedNames
  <2>2. Prose(k).doc # "credential_kind"
    BY DEF Prose
  <2> QED BY <1>5, <2>1, <2>2 DEF ValidValue, is_doc_shape, empty_doc
<1>12. \A f \in Fields(s) \ {Prose(k).doc} : decode(stored')[f] = c[f]
  BY <1>7, <1>8, <1>9
<1>13. decode(stored')[Prose(k).doc] \in {c[Prose(k).doc], empty_doc}
  BY <1>2, <1>7, <1>8, <1>9, <1>10
<1>14. ValidContent(k, decode(stored'))
  BY <1>1, <1>7, <1>11, <1>12, <1>13 DEF ValidContent
<1>15. OneField(k, c, decode(stored'))
  BY <1>9, <1>12 DEF OneField
<1> QED BY <1>6, <1>14, <1>15

\* An edit of a valid content.
Edited(k, c, d) == ValidContent(k, d) /\ OneField(k, c, d)

\* Every edit is one: an edit by an application changes one register.
LEMMA EditsValid ==
  ASSUME DocInv, NEW a \in Apps, EditField(a) \/ EditNotes(a)
  PROVE  \E d : /\ Save(a, d)
                /\ copy[a].rev = rev => Edited(kind, decode(stored), d)
<1> DEFINE c == copy[a].content
<1>1. copy[a] # None
  BY DEF EditField, EditNotes
<1>2. kind \in Kinds /\ kind \in KindNames
  BY Constants DEF DocInv, DocTypes, TypeOK
<1>3. copy[a].rev = rev => c = decode(stored) /\ ValidContent(kind, c)
  BY <1>1 DEF DocInv
<1>4. ASSUME EditField(a)
      PROVE  \E d : /\ Save(a, d)
                    /\ copy[a].rev = rev => Edited(kind, decode(stored), d)
  <2>1. PICK f \in Fields(ItemContent[kind]) : \E v \in Samples(kind, f) \ {c[f]} :
          Save(a, [c EXCEPT ![f] = v])
    BY <1>4 DEF EditField
  <2>2. PICK v \in Samples(kind, f) : Save(a, [c EXCEPT ![f] = v])
    BY <2>1
  <2>3. ValidValue(kind, f, v)
    BY <1>2, SampleValid
  <2> HIDE DEF c
  <2>4. copy[a].rev = rev => Edited(kind, decode(stored), [c EXCEPT ![f] = v])
    BY <1>2, <1>3, <2>3, FieldSet DEF Edited
  <2> QED BY <2>2, <2>4
<1>5. ASSUME EditNotes(a)
      PROVE  \E d : /\ Save(a, d)
                    /\ copy[a].rev = rev => Edited(kind, decode(stored), d)
  <2>1. PICK t \in Samples(kind, Prose(kind).text) :
          Save(a, [c EXCEPT ![Prose(kind).doc] = from_plaintext(t)[1],
                            ![Prose(kind).text] = from_plaintext(t)[2]])
    BY <1>5 DEF EditNotes
  <2> DEFINE d == [c EXCEPT ![Prose(kind).doc] = from_plaintext(t)[1],
                            ![Prose(kind).text] = from_plaintext(t)[2]]
  <2>2. ValidValue(kind, Prose(kind).text, t)
    BY <1>2, SampleValid, ForeignKeys
  <2> HIDE DEF c
  <2>3. ValidContent(kind, c) => ValidContent(kind, d) /\ OneField(kind, c, d)
    BY <1>2, <2>2, NotesSet
  <2>4. Save(a, d)
    BY <2>1
  <2> HIDE DEF d
  <2>5. copy[a].rev = rev => Edited(kind, decode(stored), d)
    BY <1>3, <2>3 DEF Edited
  <2> QED BY <2>4, <2>5
<1> QED BY <1>4, <1>5

\* One step changes at most one register, and leaves a document that decodes.
Steps ==
  /\ kind' = kind
  /\ \/ stored' = stored /\ rev' = rev
     \/ /\ rev' = rev + 1
        /\ Decodable(stored') /\ Edited(kind, decode(stored), decode(stored'))

\* Every step is such a step, unless another version writes new purposes.
LEMMA EveryStep ==
  ASSUME DocInv, [Next]_vars, "new_purpose" \notin ForeignSaves
  PROVE  Steps
<1>0. kind \in KindNames
  BY Constants DEF DocInv, DocTypes, TypeOK
<1>1. ASSUME NEW a \in Apps, Open(a) PROVE Steps
  BY <1>1 DEF Open, Steps
<1>2. ASSUME NEW a \in Apps, EditField(a) \/ EditNotes(a) PROVE Steps
  <2>1. PICK d : /\ Save(a, d)
                 /\ copy[a].rev = rev => Edited(kind, decode(stored), d)
    BY <1>2, EditsValid
  <2>2. /\ kind' = kind
        /\ \/ copy[a].rev = rev /\ stored' = encode(kind, d) /\ rev' = rev + 1
           \/ stored' = stored /\ rev' = rev
    BY <2>1 DEF Save
  <2>3. ValidContent(kind, d) => Decodable(encode(kind, d)) /\ decode(encode(kind, d)) = d
    BY <1>0, RoundTrip
  <2> QED BY <2>1, <2>2, <2>3 DEF Steps, Edited
<1>3. ASSUME NEW w \in ForeignSaves, ForeignSave(w) PROVE Steps
  <2>1. /\ Decodable(stored') /\ ValidContent(kind, decode(stored'))
        /\ OneField(kind, decode(stored), decode(stored'))
    BY <1>3, ForeignDecoded
  <2>2. kind' = kind /\ rev' = rev + 1
    BY <1>3 DEF ForeignSave
  <2> QED BY <2>1, <2>2 DEF Steps, Edited
<1>4. ASSUME UNCHANGED vars PROVE Steps
  BY <1>4 DEF vars, Steps
<1> QED BY <1>1, <1>2, <1>3, <1>4 DEF Next

\* What a step does to the copies.
LEMMA CopiesStep ==
  ASSUME DocInv, [Next]_vars
  PROVE  \A b \in Apps : copy'[b] # None =>
           \/ copy'[b] = copy[b]
           \/ rev' = rev /\ stored' = stored /\ copy'[b].content = decode(stored)
<1>0. copy = [b \in Apps |-> copy[b]]
  BY DEF DocInv, DocTypes
<1> DEFINE Goal == \A b \in Apps : copy'[b] # None =>
           \/ copy'[b] = copy[b]
           \/ rev' = rev /\ stored' = stored /\ copy'[b].content = decode(stored)
<1>1. ASSUME NEW a \in Apps, Open(a) PROVE Goal
  BY <1>0, <1>1 DEF Open
<1>2. ASSUME NEW a \in Apps, NEW d, Save(a, d) PROVE Goal
  <2>1. copy' = [copy EXCEPT ![a] = None]
    BY <1>2 DEF Save
  <2> QED BY <1>0, <2>1
<1>3. ASSUME NEW a \in Apps, EditField(a) PROVE Goal
  BY <1>2, <1>3 DEF EditField
<1>4. ASSUME NEW a \in Apps, EditNotes(a) PROVE Goal
  BY <1>2, <1>4 DEF EditNotes
<1>5. ASSUME NEW w \in ForeignSaves, ForeignSave(w) PROVE Goal
  BY <1>5 DEF ForeignSave
<1>6. ASSUME UNCHANGED vars PROVE Goal
  BY <1>6 DEF vars
<1> QED BY <1>1, <1>3, <1>4, <1>5, <1>6 DEF Next

\* The invariant is kept.
LEMMA DocInvariant ==
  ASSUME DocInv, [Next]_vars, "new_purpose" \notin ForeignSaves
  PROVE  DocInv'
<1>1. DocTypes'
  BY DocTypesInvariant DEF DocInv
<1>2. Steps
  BY EveryStep
<1>3. Decodable(stored)' /\ ValidContent(kind, decode(stored))'
  BY <1>2 DEF Steps, Edited, DocInv
<1>4. /\ rev \in Nat /\ \A b \in Apps : copy[b] # None => copy[b].rev \in 0..rev
      /\ \A b \in Apps : (copy[b] # None /\ copy[b].rev = rev) => copy[b].content = decode(stored)
  BY Constants DEF DocInv, DocTypes, TypeOK
<1>5. ASSUME NEW b \in Apps, copy'[b] # None, copy'[b].rev = rev'
      PROVE  copy'[b].content = decode(stored')
  <2>1. CASE rev' = rev /\ stored' = stored
    BY <1>4, <1>5, <2>1, CopiesStep
  <2>2. CASE rev' = rev + 1
    <3>1. copy'[b] = copy[b]
      BY <1>4, <1>5, <2>2, CopiesStep
    <3> QED BY <1>4, <1>5, <2>2, <3>1
  <2> QED BY <1>2, <2>1, <2>2 DEF Steps
<1> QED BY <1>1, <1>3, <1>5 DEF DocInv

\* The initial document is the encoding of an empty content.
LEMMA DocInit ==
  ASSUME Init
  PROVE  DocInv /\ decode(stored) = new_content(kind)
<1>1. kind \in KindNames /\ DocTypes
  BY Constants, DocTypesInit DEF Init
<1>2. /\ Decodable(encode(kind, new_content(kind)))
      /\ decode(encode(kind, new_content(kind))) = new_content(kind)
  BY <1>1, RoundTrip, NewContent
<1>3. ValidContent(kind, new_content(kind))
  BY <1>1, NewContent
<1>4. stored = encode(kind, new_content(kind)) /\ \A a \in Apps : copy[a] = None
  BY DEF Init
<1> QED BY <1>1, <1>2, <1>3, <1>4 DEF DocInv

\* A change of one register is a write of the abstract item.
LEMMA OneRegister ==
  ASSUME NEW k \in KindNames, NEW c, NEW d, OneField(k, c, d)
  PROVE  LET R == Registers(k, c)
             S == Registers(k, d)
         IN  /\ DOMAIN S = DOMAIN R
             /\ \E f \in DOMAIN R : \A g \in DOMAIN R \ {f} : S[g] = R[g]
<1> DEFINE F == Fields(ItemContent[k])
           text == Prose(k).text
           doc == Prose(k).doc
           R == Registers(k, c)
           S == Registers(k, d)
<1>1. DOMAIN R = F \ {text} /\ DOMAIN S = F \ {text}
  BY DEF Registers
<1>2. text \in F /\ doc # text
  BY ForeignKeys, ProseTable
<1>3. PICK f \in F \ {text} : \A g \in F \ {f} : d[g] = c[g] \/ (f = doc /\ g = text)
  BY DEF OneField
<1>4. ASSUME NEW g \in (F \ {text}) \ {f} PROVE S[g] = R[g]
  <2>1. d[g] = c[g]
    BY <1>3
  <2>2. g = doc => d[text] = c[text]
    BY <1>2, <1>3
  <2> QED BY <2>1, <2>2 DEF Registers
<1> QED BY <1>1, <1>3, <1>4

\* Unless another version writes purposes that this one cannot decode, the item
\* is a set of independent registers: decoding, editing and encoding by several
\* applications, whose saves are refused when the item changed, and the keys and
\* malformed notes of other versions, change one field at a time.
THEOREM EditsChangeOneField ==
  ASSUME "new_purpose" \notin ForeignSaves
  PROVE  Spec => EditsOneField
<1>1. Init => DocInv /\ Register!Init
  <2> SUFFICES ASSUME Init PROVE DocInv /\ Register!Init
    OBVIOUS
  <2>1. DocInv /\ decode(stored) = new_content(kind) /\ kind \in Kinds
    BY DocInit DEF Init
  <2> QED BY <2>1 DEF Register!Init
<1>2. ASSUME DocInv, [Next]_vars
      PROVE  DocInv' /\ [Register!Write]_(Registers(kind, decode(stored)))
  <2>1. DocInv' /\ Steps
    BY <1>2, DocInvariant, EveryStep
  <2>2. kind \in KindNames
    BY <1>2, Constants DEF DocInv, DocTypes, TypeOK
  <2>3. CASE stored' = stored
    BY <2>1, <2>3 DEF Steps
  <2>4. CASE OneField(kind, decode(stored), decode(stored'))
    <3>1. Register!Write
      BY <2>1, <2>2, <2>4, OneRegister DEF Register!Write, Steps
    <3> QED BY <2>1, <3>1
  <2> QED BY <2>1, <2>3, <2>4 DEF Steps, Edited
<1> QED BY <1>1, <1>2, PTL DEF Spec, EditsOneField, Register!Spec

=============================================================================
