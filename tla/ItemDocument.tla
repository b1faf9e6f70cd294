---------------------------- MODULE ItemDocument ----------------------------
(***************************************************************************)
(* The plaintext of an item body: thirteen kinds of content, the JSON they *)
(* are stored as, and the fields a seren-secrets:// reference reads out of *)
(* them (protocol/item.rs, prose.rs and the extract_* functions of         *)
(* seren_secrets.rs).                                                      *)
(*                                                                         *)
(* A text is a string and "" is the empty text, or the default of a field  *)
(* whose default is another value (a number, a Boolean, an enum).  A list  *)
(* is a sequence of entries, an absent Option is None.  A stored document  *)
(* is a JSON object: a function from the keys that were written.           *)
(***************************************************************************)
EXTENDS Naturals, Sequences

CONSTANTS
  Apps,          \* applications that open, edit and save the item
  Kinds,         \* the kinds of item content to consider
  References(_), \* References(kind): the field parts of references resolved
  Samples(_, _), \* Samples(kind, field): the values edits may store
  Words(_),      \* Words(label): the alphanumeric words of a stored label
  Contains(_, _),\* Contains(label, term): the term occurs in the label
  ForeignSaves,  \* the writes of other versions of the software
  MaxSaves,      \* bound on saves
  None           \* an absent Option, an error instead of a value

VARIABLES
  kind,    \* the kind of the item's content
  stored,  \* the JSON document in the body of the item
  rev,     \* the revision of the item
  copy     \* what each application decoded, or None

vars == <<kind, stored, rev, copy>>

-----------------------------------------------------------------------------
\* Functions given by their pairs; the left one has precedence.
k :> v == [x \in {k} |-> v]

f @@ g == [x \in DOMAIN f \cup DOMAIN g |-> IF x \in DOMAIN f THEN f[x] ELSE g[x]]

-----------------------------------------------------------------------------
(* Struct definitions: the fields by what serde does with them.            *)
(*   required  no default: a document without the key does not decode      *)
(*   always    decodes to its default when absent, always written          *)
(*   skip      the same, but not written when it is the empty text         *)
(*   option    None when absent, not written when None                     *)
(*   list      empty when absent, not written when empty                   *)
(*   full      empty when absent, always written                           *)
(*   doc       a ProseMirror document                                      *)

Entry(required, always, skip, option) ==
  [required |-> required, always |-> always, skip |-> skip, option |-> option,
   list |-> {}, full |-> {}, doc |-> {}]

\* Every kind of content ends with notes, custom fields, sections and the
\* fields of an importer.
Content(always, skip, option, list) ==
  [required |-> {}, always |-> always \cup {"raw_import"},
   skip |-> skip \cup {"notes_text"}, option |-> option,
   list |-> list \cup {"sections"}, full |-> {"custom_fields"}, doc |-> {"notes"}]

Section == Entry({"id"}, {}, {"title"}, {})
EmailEntry == Entry({}, {"value"}, {"label"}, {})
PhoneEntry == Entry({}, {"value"}, {"label"}, {})
GeneratorRecipe ==
  Entry({}, {"length", "include_letters", "include_numbers", "include_symbols",
             "words_mode"}, {"excluded_characters", "word_delimiter"}, {})
Fido2Credential ==
  Entry({"credential_id", "rp_id", "private_key"}, {"counter", "discoverable"},
        {"user_handle", "rp_name", "user_name", "user_display_name", "algorithm",
         "created_at"}, {})
PasswordHistoryEntry == Entry({"password", "changed_at"}, {}, {}, {})
LoginUrl == Entry({"url"}, {}, {}, {"match_type", "label", "primary"})
PostalAddress ==
  Entry({}, {}, {"street", "city", "region", "postal_code", "country"}, {})
GovernmentId == Entry({"label", "number"}, {}, {"issuer"}, {"issued_on", "expires_on"})
WalletAddress == Entry({}, {"address"}, {"label"}, {})
RotationPolicy == Entry({"policy"}, {}, {}, {"next_rotation_at"})
TotpConfig == Entry({"secret_base32"}, {"algorithm", "digits", "period_seconds"}, {}, {})
CustomField == Entry({"name", "kind", "value"}, {}, {}, {"purpose", "section_id"})
FieldPurpose ==
  {"username", "password", "notes", "otp", "private_key", "public_key",
   "card_number", "cvv", "pin"}

LoginContent ==
  [Content({"username", "password"}, {},
           {"totp", "generator_recipe", "autofill_on_page_load"},
           {"password_history", "fido2_credentials"})
     EXCEPT !.full = @ \cup {"urls"}]
SecureNoteContent ==
  [Content({}, {}, {}, {}) EXCEPT !.doc = {"body"}, !.skip = {"body_text"}]
\* Mutant: the kind of the credential under the name of the enum's tag.
UnrenamedKind ==
  [Content({"kind", "primary_value", "secondary_value"}, {}, {"rotation"}, {})
     EXCEPT !.full = @ \cup {"headers"}]

ApiCredentialContent ==
  [Content({"credential_kind", "primary_value", "secondary_value"}, {}, {"rotation"}, {})
     EXCEPT !.full = @ \cup {"headers"}]
IdentityContent ==
  [Content({}, {"first_name", "middle_name", "last_name", "username", "company",
                "job_title", "gender"}, {"date_of_birth"},
           {"emails", "phones", "addresses"})
     EXCEPT !.full = @ \cup {"government_ids"}]
CardContent ==
  Content({}, {"cardholder_name", "number", "brand", "expiry", "cvv", "pin"},
          {"billing_address"}, {})
SshKeyContent ==
  Content({}, {"private_key", "public_key", "passphrase", "fingerprint", "key_type"}, {}, {})
DocumentContent ==
  Content({}, {"filename", "content_type", "alt_text", "attachment_uri"},
          {"size_bytes"}, {})
BankAccountContent ==
  Content({}, {"bank_name", "account_holder", "account_number", "routing_number",
               "account_type", "iban", "swift", "branch", "pin"}, {}, {})
PassportContent ==
  Content({}, {"number", "passport_type", "full_name", "surname", "given_names",
               "nationality", "place_of_birth", "gender", "issuing_country",
               "issuing_authority"}, {"date_of_birth", "issued_on", "expires_on"}, {})
DriverLicenseContent ==
  Content({}, {"number", "full_name", "gender", "country", "state", "license_class",
               "conditions"}, {"date_of_birth", "address", "issued_on", "expires_on"}, {})
CryptoWalletContent ==
  Content({}, {"wallet_name", "network", "seed_phrase", "private_key", "password",
               "derivation_path"}, {}, {"addresses"})
ServerContent ==
  Content({}, {"hostname", "protocol", "username", "password", "ssh_key_reference",
               "admin_console_url"}, {"port"}, {})
DatabaseContent ==
  Content({}, {"database_type", "server", "database_name", "username", "password",
               "sid", "schema"}, {"port"}, {})

\* The variants of the enum, under the names of the JSON tag.
ItemContent ==
  [login |-> LoginContent, secure_note |-> SecureNoteContent,
   api_credential |-> ApiCredentialContent, card |-> CardContent,
   identity |-> IdentityContent, document |-> DocumentContent,
   ssh_key |-> SshKeyContent, server |-> ServerContent, database |-> DatabaseContent,
   bank_account |-> BankAccountContent, passport |-> PassportContent,
   driver_license |-> DriverLicenseContent, crypto_wallet |-> CryptoWalletContent]

\* The type of the entries of a list or of an optional struct.
NestedTypes ==
  [custom_fields |-> CustomField, sections |-> Section, emails |-> EmailEntry,
   phones |-> PhoneEntry, government_ids |-> GovernmentId, urls |-> LoginUrl,
   password_history |-> PasswordHistoryEntry, fido2_credentials |-> Fido2Credential,
   totp |-> TotpConfig, generator_recipe |-> GeneratorRecipe,
   rotation |-> RotationPolicy, billing_address |-> PostalAddress,
   address |-> PostalAddress]

Nested ==
  [k \in DOMAIN ItemContent |->
     ("addresses" :> IF k = "crypto_wallet" THEN WalletAddress ELSE PostalAddress)
     @@ NestedTypes]

Fields(s) ==
  s.required \cup s.always \cup s.skip \cup s.option \cup s.list \cup s.full \cup s.doc

-----------------------------------------------------------------------------
(* Rich text.  Of a ProseMirror value only its outer shape and its text    *)
(* matter; the text of a document is extracted by a library.               *)

\* Where a kind keeps its document and the text beside it.
Prose(k) == IF k = "secure_note" THEN [doc |-> "body", text |-> "body_text"]
                                 ELSE [doc |-> "notes", text |-> "notes_text"]

empty_doc == [type |-> "doc", content |-> "array", text |-> ""]

is_doc_shape(v) == v.type = "doc" /\ v.content \in {"absent", "array"}

from_value_lossy(v) == IF is_doc_shape(v) THEN v ELSE empty_doc

plain_text(doc) == doc.text

\* The document for a text, and the text kept beside it.
from_plaintext(t) == <<[empty_doc EXCEPT !.text = t], t>>

-----------------------------------------------------------------------------
(* Serialization.                                                          *)

UrlMatchType == {"exact", "starts_with", "host", "never", "regex"}
CustomFieldKind == {"string", "concealed", "url", "email", "date"}
RotationPolicyKind == {"manual", "scheduled"}
\* "" is SHA1, the default.
TotpAlgorithm == {"", "SHA256", "SHA512"}
\* "" is api_key, the default.
ApiCredentialKind ==
  {"", "oauth2_token", "basic", "mtls", "aws_sig_v4", "gcp_service_account"}

\* Enums have no catch-all variant: another value is a decoding error.
EnumFields ==
  [purpose |-> FieldPurpose, match_type |-> UrlMatchType, kind |-> CustomFieldKind,
   policy |-> RotationPolicyKind, algorithm |-> TotpAlgorithm,
   credential_kind |-> ApiCredentialKind]

\* No enum is in skip; the algorithm of a Fido2Credential, a text, is.
Enums(s) == (Fields(s) \ s.skip) \cap DOMAIN EnumFields

Default(s, f) ==
  CASE f \in s.option          -> None
    [] f \in s.list \cup s.full -> <<>>
    [] f \in s.doc             -> empty_doc
    [] OTHER                   -> ""

Omitted(s, f, v) ==
  \/ f \in s.skip /\ v = ""
  \/ f \in s.option /\ v = None
  \/ f \in s.list /\ v = <<>>

to_object(s, c) == [f \in {g \in Fields(s) : ~Omitted(s, g, c[g])} |-> c[f]]

from_object(s, o) ==
  [f \in Fields(s) |->
     IF f \notin DOMAIN o THEN Default(s, f)
     ELSE IF f \in s.doc THEN from_value_lossy(o[f]) ELSE o[f]]

well_formed(s, o) ==
  /\ s.required \subseteq DOMAIN o
  /\ \A f \in DOMAIN o \cap Enums(s) : o[f] \in EnumFields[f]

\* The values a field of a struct or of a content can have in the program.
ValidStruct(s, e) ==
  /\ DOMAIN e = Fields(s) /\ e = [f \in DOMAIN e |-> e[f]]
  /\ \A f \in Enums(s) : e[f] \in EnumFields[f] \/ (f \in s.option /\ e[f] = None)

ValidValue(k, f, v) ==
  /\ f \in ItemContent[k].doc => is_doc_shape(v)
  /\ f = "credential_kind" => v \in ApiCredentialKind
  /\ f \in DOMAIN Nested[k] =>
       IF f \in ItemContent[k].option THEN v = None \/ ValidStruct(Nested[k][f], v)
       ELSE /\ v = [i \in DOMAIN v |-> v[i]]
            /\ \A i \in DOMAIN v : ValidStruct(Nested[k][f], v[i])

ASSUME DocumentAssumption ==
  /\ MaxSaves \in Nat
  /\ Kinds \subseteq DOMAIN ItemContent
  /\ ForeignSaves \subseteq {"new_field", "raw_notes", "new_purpose"}
  /\ \A k \in Kinds : \A f \in Fields(ItemContent[k]) :
       \A v \in Samples(k, f) : ValidValue(k, f, v)
  /\ \A k \in Kinds : \A r \in References(k) :
       r.base \in {"", "emails", "phones", "addresses", "government_ids"}

\* Op applied to every struct inside the value of a field that is present.
Inside(k, f, v, Op(_, _)) ==
  IF f \notin DOMAIN Nested[k] THEN v
  ELSE IF f \in ItemContent[k].option THEN Op(Nested[k][f], v)
  ELSE [i \in DOMAIN v |-> Op(Nested[k][f], v[i])]

\* A content field called "kind" would overwrite the tag.
encode(k, c) ==
  LET o == to_object(ItemContent[k], c)
  IN  [f \in DOMAIN o |-> Inside(k, f, o[f], to_object)] @@ ("kind" :> k)

Decodable(j) ==
  /\ j.kind \in DOMAIN ItemContent
  /\ well_formed(ItemContent[j.kind], j)
  /\ \A f \in DOMAIN j \cap DOMAIN Nested[j.kind] :
       IF f \in ItemContent[j.kind].option
         THEN well_formed(Nested[j.kind][f], j[f])
         ELSE \A i \in DOMAIN j[f] : well_formed(Nested[j.kind][f], j[f][i])

decode(j) ==
  IF ~Decodable(j) THEN None
  ELSE from_object(ItemContent[j.kind],
                   [f \in DOMAIN j |-> Inside(j.kind, f, j[f], from_object)])

-----------------------------------------------------------------------------
(* Field extraction.  A result is the sequence of the texts it joins, so   *)
(* <<>> is the empty text.  A reference is a record: its text (in lower    *)
(* case, as every comparison ignores case) and how its selector reads,     *)
(*   base   the array it names, or "" for a plain name                     *)
(*   open   "[" or "."                                                     *)
(*   at     the index or the label; None when it is not one                *)
(*   sub    the subfield, None when there is none                          *)

Joined(texts) == SelectSeq(texts, LAMBDA t : t # "")

unwrap_or_default(v) == IF v = None THEN "" ELSE v

\* The first entry that satisfies P, or None.
First(entries, P(_)) ==
  LET hits == {i \in DOMAIN entries : P(entries[i])}
  IN  IF hits = {} THEN None ELSE entries[CHOOSE i \in hits : \A j \in hits : i <= j]

first(entries) == IF entries = <<>> THEN None ELSE entries[1]

Part(entry, f) == IF entry = None THEN "" ELSE unwrap_or_default(entry[f])

format_address(a) ==
  IF a = None THEN <<>>
  ELSE Joined(<<a.street, a.city, a.region, a.postal_code, a.country>>)

join_full_name(c) == Joined(<<c.first_name, c.middle_name, c.last_name>>)

projected_text(cached, doc) == IF cached # "" THEN cached ELSE plain_text(doc)

extract_government_id_number(ids, terms) ==
  Part(First(ids, LAMBDA g : \A t \in terms : Contains(g.label, t)), "number")

\* A match on a name, by its arms: the names of an arm and what it stands for.
Names(aliases, target) == <<aliases, target>>

Match(arms) ==
  [a \in UNION {arm[1] : arm \in arms} |-> (CHOOSE arm \in arms : a \in arm[1])[2]]

PurposeNames ==
  Match({Names({"username", "user"}, "username"), Names({"password", "pass"}, "password"),
         Names({"notes", "note"}, "notes"), Names({"otp", "totp", "totp_secret"}, "otp"),
         Names({"private_key", "private"}, "private_key"),
         Names({"public_key", "public"}, "public_key"),
         Names({"card_number", "pan"}, "card_number"),
         Names({"cvv", "cvc", "cvv2", "security_code"}, "cvv"), Names({"pin"}, "pin")})

\* None: the item has no such field.
extract_custom_field(fields, name) ==
  LET named == First(fields, LAMBDA f : f.name = name)
      meant == IF name \notin DOMAIN PurposeNames THEN None
               ELSE First(fields, LAMBDA f : f.purpose = PurposeNames[name])
  IN  IF named # None THEN Joined(<<named.value>>)
      ELSE IF meant # None THEN Joined(<<meant.value>>) ELSE None

\* The built-in names of each kind, and the field each of them reads; a second
\* component is a field of the optional struct or of the first list entry, "*"
\* all of them.
NotesNames == Names({"notes", "note"}, <<"notes">>)

extract_login_field ==
  Match({Names({"username", "user"}, <<"username">>),
         Names({"password", "pass"}, <<"password">>), NotesNames,
         Names({"url", "urls"}, <<"urls", "url">>),
         Names({"totp", "otp", "totp_secret", "secret_base32"}, <<"totp", "secret_base32">>)})

extract_secure_note_field ==
  Match({Names({"body", "note", "notes"}, <<"body">>)})

extract_api_credential_field ==
  Match({Names({"primary", "primary_value", "value", "key"}, <<"primary_value">>),
         Names({"secondary", "secondary_value", "secret"}, <<"secondary_value">>), NotesNames})

extract_card_field ==
  Match({Names({"number", "card_number", "pan", "account_number"}, <<"number">>),
         Names({"cardholder", "cardholder_name", "name_on_card", "name"}, <<"cardholder_name">>),
         Names({"brand", "network", "card_brand"}, <<"brand">>),
         Names({"expiry", "expires", "exp", "expiration", "expiration_date"}, <<"expiry">>),
         Names({"cvv", "cvc", "cvv2", "security_code"}, <<"cvv">>), Names({"pin"}, <<"pin">>),
         Names({"billing_address"}, <<"billing_address", "*">>),
         Names({"billing_street"}, <<"billing_address", "street">>),
         Names({"billing_city"}, <<"billing_address", "city">>),
         Names({"billing_region", "billing_state", "billing_province"},
               <<"billing_address", "region">>),
         Names({"billing_postal_code", "billing_zip", "billing_zip_code"},
               <<"billing_address", "postal_code">>),
         Names({"billing_country"}, <<"billing_address", "country">>), NotesNames})

extract_ssh_key_field ==
  Match({Names({"private_key", "private", "private_key_pem", "key"}, <<"private_key">>),
         Names({"public_key", "public", "authorized_key"}, <<"public_key">>),
         Names({"passphrase", "password"}, <<"passphrase">>),
         Names({"fingerprint"}, <<"fingerprint">>),
         Names({"key_type", "type", "algorithm"}, <<"key_type">>), NotesNames})

extract_document_field ==
  Match({Names({"filename", "file_name", "name"}, <<"filename">>),
         Names({"content_type", "mime", "mime_type", "media_type"}, <<"content_type">>),
         Names({"size", "size_bytes", "byte_size"}, <<"size_bytes">>),
         Names({"alt_text", "alt", "description"}, <<"alt_text">>),
         Names({"attachment_uri", "attachment", "uri", "url"}, <<"attachment_uri">>), NotesNames})

extract_server_field ==
  Match({Names({"hostname", "host", "server"}, <<"hostname">>), Names({"port"}, <<"port">>),
         Names({"protocol", "scheme"}, <<"protocol">>),
         Names({"username", "user"}, <<"username">>), Names({"password"}, <<"password">>),
         Names({"ssh_key_reference", "key_reference", "ssh_key"}, <<"ssh_key_reference">>),
         Names({"admin_console_url", "admin_url", "console"}, <<"admin_console_url">>),
         NotesNames})

extract_database_field ==
  Match({Names({"database_type", "type", "engine"}, <<"database_type">>),
         Names({"server", "host", "hostname"}, <<"server">>), Names({"port"}, <<"port">>),
         Names({"database_name", "database", "db"}, <<"database_name">>),
         Names({"username", "user"}, <<"username">>), Names({"password"}, <<"password">>),
         Names({"sid"}, <<"sid">>), Names({"schema"}, <<"schema">>), NotesNames})

extract_bank_account_field ==
  Match({Names({"bank_name", "bank"}, <<"bank_name">>),
         Names({"account_holder", "name"}, <<"account_holder">>),
         Names({"account_number", "account"}, <<"account_number">>),
         Names({"routing_number", "routing", "aba", "rtn"}, <<"routing_number">>),
         Names({"account_type", "type"}, <<"account_type">>), Names({"iban"}, <<"iban">>),
         Names({"swift", "bic", "swift_code"}, <<"swift">>), Names({"branch"}, <<"branch">>),
         Names({"pin"}, <<"pin">>), NotesNames})

DateNames ==
  {Names({"date_of_birth", "dob", "birthday", "birthdate"}, <<"date_of_birth">>),
   Names({"issued_on", "issue_date", "issued"}, <<"issued_on">>),
   Names({"expires_on", "expiry", "expiration", "expires"}, <<"expires_on">>)}

extract_passport_field ==
  Match({Names({"number", "passport_number"}, <<"number">>),
         Names({"passport_type", "type"}, <<"passport_type">>),
         Names({"full_name", "name"}, <<"full_name">>),
         Names({"surname", "family_name", "last_name"}, <<"surname">>),
         Names({"given_names", "first_name", "given_name"}, <<"given_names">>),
         Names({"nationality"}, <<"nationality">>),
         Names({"place_of_birth"}, <<"place_of_birth">>),
         Names({"gender", "sex"}, <<"gender">>),
         Names({"issuing_country", "country"}, <<"issuing_country">>),
         Names({"issuing_authority", "authority"}, <<"issuing_authority">>), NotesNames}
        \cup DateNames)

extract_driver_license_field ==
  Match({Names({"number", "license_number"}, <<"number">>),
         Names({"full_name", "name"}, <<"full_name">>), Names({"gender", "sex"}, <<"gender">>),
         Names({"address", "full_address"}, <<"address", "*">>),
         Names({"city"}, <<"address", "city">>),
         Names({"region", "state", "province"}, <<"address", "region">>),
         Names({"postal_code", "zip", "postcode"}, <<"address", "postal_code">>),
         Names({"country"}, <<"country">>), Names({"state_jurisdiction"}, <<"state">>),
         Names({"license_class", "class"}, <<"license_class">>),
         Names({"conditions", "restrictions", "endorsements"}, <<"conditions">>), NotesNames}
        \cup DateNames)

extract_crypto_wallet_field ==
  Match({Names({"wallet_name", "name"}, <<"wallet_name">>),
         Names({"network", "chain"}, <<"network">>),
         Names({"seed_phrase", "mnemonic", "recovery_phrase"}, <<"seed_phrase">>),
         Names({"private_key", "secret_key"}, <<"private_key">>),
         Names({"password", "passphrase"}, <<"password">>),
         Names({"derivation_path", "path"}, <<"derivation_path">>),
         Names({"address"}, <<"addresses", "address">>), NotesNames})

extract_identity_field ==
  Match({Names({"first_name", "given_name"}, <<"first_name">>),
         Names({"middle_name"}, <<"middle_name">>),
         Names({"last_name", "family_name", "surname"}, <<"last_name">>),
         Names({"full_name", "name"}, <<"first_name", "middle_name", "last_name">>),
         Names({"username", "handle"}, <<"username">>),
         Names({"company", "employer", "organization"}, <<"company">>),
         Names({"job_title", "title"}, <<"job_title">>), Names({"gender", "sex"}, <<"gender">>),
         Names({"email"}, <<"emails", "value">>),
         Names({"phone", "phone_number", "telephone"}, <<"phones", "value">>),
         Names({"date_of_birth", "dob", "birthday", "birthdate"}, <<"date_of_birth">>),
         Names({"address", "full_address"}, <<"addresses", "*">>),
         Names({"street", "street_address", "address_line"}, <<"addresses", "street">>),
         Names({"city", "locality"}, <<"addresses", "city">>),
         Names({"region", "state", "province"}, <<"addresses", "region">>),
         Names({"postal_code", "zip", "zip_code", "postcode"}, <<"addresses", "postal_code">>),
         Names({"country"}, <<"addresses", "country">>),
         Names({"government_id", "government_id_number", "id_number"},
               <<"government_ids", "number">>),
         Names({"passport", "passport_number"}, <<"government_ids", "labelled", {"passport"}>>),
         Names({"driver_license", "drivers_license", "driver_license_number",
                "drivers_license_number", "license_number"},
               <<"government_ids", "labelled", {"driver", "license"}>>),
         NotesNames})

-----------------------------------------------------------------------------
(* The arrays of an identity, by index or by label.                        *)

label_matches(label, requested) == label = requested \/ requested \in Words(label)

Selected(entries, r) ==
  IF r.open = "."
    THEN First(entries, LAMBDA e : label_matches(e.label, r.at))
    ELSE IF r.at < Len(entries) THEN entries[r.at + 1] ELSE None

Subfield(r, default) == IF r.sub = None THEN default ELSE r.sub

\* Reads a subfield of an entry by a table of names; other names are empty.
Read(entry, table, sub) ==
  CASE sub \notin DOMAIN table -> <<>>
    [] table[sub] = "*"       -> format_address(entry)
    [] OTHER                  -> Joined(<<Part(entry, table[sub])>>)

resolve_email(entries, r) ==
  Read(Selected(entries, r),
       Match({Names({"value", "email", "address"}, "value"), Names({"label", "tag"}, "label")}),
       Subfield(r, "value"))

resolve_phone(entries, r) ==
  Read(Selected(entries, r),
       Match({Names({"value", "number", "phone"}, "value"), Names({"label", "tag"}, "label")}),
       Subfield(r, "value"))

\* Addresses have no label to select by.
resolve_address(entries, r) ==
  Read(IF r.open = "." THEN None ELSE Selected(entries, r),
       Match({Names({"", "full", "full_address", "formatted"}, "*"),
              Names({"street", "street_address", "address_line"}, "street"),
              Names({"city", "locality"}, "city"),
              Names({"region", "state", "province"}, "region"),
              Names({"postal_code", "zip", "zip_code", "postcode"}, "postal_code"),
              Names({"country"}, "country")}),
       Subfield(r, ""))

resolve_government_id(entries, r) ==
  Read(Selected(entries, r),
       Match({Names({"number", "value", "id"}, "number"),
              Names({"label", "kind", "type"}, "label"), Names({"issuer"}, "issuer"),
              Names({"issued_on", "issued"}, "issued_on"),
              Names({"expires_on", "expires", "expiration"}, "expires_on")}),
       Subfield(r, "number"))

\* Mutant: what does not read as a selector is taken for a plain name.
WellFormedPrefix(r) ==
  r.base \in {"emails", "phones", "addresses", "government_ids"} /\ r.at # None

\* A name of an array followed by "[" or "." is always taken for a selector,
\* also when the rest of it does not read as one.
split_array_prefix(r) == r.base \in {"emails", "phones", "addresses", "government_ids"}

parse_selector(r) == r.at # None

try_extract_identity_multi(c, r) ==
  CASE ~parse_selector(r)        -> <<>>
    [] r.base = "emails"         -> resolve_email(c.emails, r)
    [] r.base = "phones"         -> resolve_phone(c.phones, r)
    [] r.base = "addresses"      -> resolve_address(c.addresses, r)
    [] r.base = "government_ids" -> resolve_government_id(c.government_ids, r)

-----------------------------------------------------------------------------
BuiltinNames ==
  [login |-> extract_login_field, secure_note |-> extract_secure_note_field,
   api_credential |-> extract_api_credential_field, card |-> extract_card_field,
   identity |-> extract_identity_field, document |-> extract_document_field,
   ssh_key |-> extract_ssh_key_field, server |-> extract_server_field,
   database |-> extract_database_field, bank_account |-> extract_bank_account_field,
   passport |-> extract_passport_field, driver_license |-> extract_driver_license_field,
   crypto_wallet |-> extract_crypto_wallet_field]

\* What the match arm of a built-in name computes.
builtin_value(k, c, path) ==
  LET v == c[path[1]]
      s == ItemContent[k]
      entry == IF path[1] \in s.option THEN v ELSE first(v)
  IN  CASE Len(path) = 3 /\ path[2] = "labelled" ->
             Joined(<<extract_government_id_number(v, path[3])>>)
        [] Len(path) = 3 /\ path[2] = "middle_name" -> join_full_name(c)
        [] path[1] \in s.doc -> Joined(<<projected_text(c[Prose(k).text], v)>>)
        [] Len(path) = 1     -> Joined(<<unwrap_or_default(v)>>)
        [] OTHER             -> IF path[2] = "*" THEN format_address(entry)
                                ELSE Joined(<<Part(entry, path[2])>>)

\* The header of an API credential with this name, None when there is none.
api_header(k, c, name) ==
  IF k # "api_credential" THEN None ELSE First(c.headers, LAMBDA h : h.name = name)

\* The named header, or the custom field, of a name that is not built in.
other_field(k, c, name) ==
  LET header == api_header(k, c, name)
      custom == extract_custom_field(c.custom_fields, name)
  IN  IF header # None THEN Joined(<<header.value>>)
      ELSE IF custom # None THEN custom ELSE <<>>

\* Mutant: the custom fields and headers first.
CustomFirst(k, c, r) ==
  IF k = "identity" /\ split_array_prefix(r) THEN try_extract_identity_multi(c, r)
  ELSE IF other_field(k, c, r.text) # <<>> THEN other_field(k, c, r.text)
  ELSE IF r.text \in DOMAIN BuiltinNames[k] THEN builtin_value(k, c, BuiltinNames[k][r.text])
  ELSE <<>>

\* <<>> is the error UnknownField.
extract_field(k, c, r) ==
  IF k = "identity" /\ split_array_prefix(r) THEN try_extract_identity_multi(c, r)
  ELSE IF r.text \in DOMAIN BuiltinNames[k] THEN builtin_value(k, c, BuiltinNames[k][r.text])
  ELSE other_field(k, c, r.text)

-----------------------------------------------------------------------------
\* What the resolver answers now: it decrypts the body and extracts one field.
\* None is the error for a body that does not decode.
resolve(r) ==
  IF Decodable(stored) THEN extract_field(kind, decode(stored), r) ELSE None

new_content(k) == [f \in Fields(ItemContent[k]) |-> Default(ItemContent[k], f)]

Init ==
  /\ kind \in Kinds
  /\ stored = encode(kind, new_content(kind))
  /\ rev = 0
  /\ copy = [a \in Apps |-> None]

\* An application reads the item and decodes its body; a body that does not
\* decode is an error and leaves it without a copy.
Open(a) ==
  /\ rev < MaxSaves
  /\ copy[a] = None
  /\ copy' = [copy EXCEPT ![a] =
       IF Decodable(stored) THEN [rev |-> rev, content |-> decode(stored)] ELSE None]
  /\ UNCHANGED <<kind, stored, rev>>

\* Mutant: the body is stored whatever the revision is.
SaveAnyway(a, content) ==
  /\ copy[a] # None
  /\ rev < MaxSaves
  /\ stored' = encode(kind, content) /\ rev' = rev + 1
  /\ copy' = [copy EXCEPT ![a] = None]
  /\ UNCHANGED kind

\* The edited body replaces the stored one unless the item changed since the
\* application read it.  Either way the copy is used up.
Save(a, content) ==
  /\ copy[a] # None
  /\ rev < MaxSaves
  /\ IF copy[a].rev = rev
       THEN stored' = encode(kind, content) /\ rev' = rev + 1
       ELSE UNCHANGED <<stored, rev>>
  /\ copy' = [copy EXCEPT ![a] = None]
  /\ UNCHANGED kind

EditField(a) ==
  /\ copy[a] # None
  /\ \E f \in Fields(ItemContent[kind]) : \E v \in Samples(kind, f) \ {copy[a].content[f]} :
       Save(a, [copy[a].content EXCEPT ![f] = v])

\* Replaces the notes by a text, with the document made from it.
EditNotes(a) ==
  /\ copy[a] # None
  /\ \E t \in Samples(kind, Prose(kind).text) :
       Save(a, [copy[a].content EXCEPT ![Prose(kind).doc] = from_plaintext(t)[1],
                                       ![Prose(kind).text] = from_plaintext(t)[2]])

\* A save by another version of the software, which may know other fields
\* and other purposes, and may have stored notes that are not a document.
ForeignSave(w) ==
  /\ rev < MaxSaves
  /\ stored' =
       CASE w = "new_field"   -> ("later_field" :> "z") @@ stored
         [] w = "raw_notes"   -> [f \in {Prose(kind).doc} |->
                                    [type |-> "string", content |-> "absent", text |-> "r"]]
                                 @@ stored
         [] w = "new_purpose" -> [stored EXCEPT !.custom_fields =
                                    Append(@, [name |-> "n", kind |-> "string",
                                               value |-> "z", purpose |-> "later"])]
  /\ rev' = rev + 1
  /\ UNCHANGED <<kind, copy>>

Next ==
  \/ \E a \in Apps : Open(a) \/ EditField(a) \/ EditNotes(a)
  \/ \E w \in ForeignSaves : ForeignSave(w)

Spec == Init /\ [][Next]_vars

-----------------------------------------------------------------------------
(* Properties.                                                             *)

\* The stored document says which kind it is, and every copy has exactly the
\* fields of that kind, those the document left out included.
TypeOK ==
  /\ kind \in Kinds /\ rev \in 0..MaxSaves
  /\ stored["kind"] = kind
  /\ \A a \in Apps : copy[a] # None =>
       /\ copy[a].rev \in 0..rev
       /\ DOMAIN copy[a].content = Fields(ItemContent[kind])

\* A reference to a built-in field gives the same answer whatever custom
\* fields and headers the item has, also when the built-in field is empty: a
\* user cannot name a custom field so that it stands in for a built-in one
\* (the order of the match arms in the extract functions).
BuiltinsNotShadowed ==
  \A r \in References(kind) :
    (Decodable(stored) /\ r.text \in DOMAIN BuiltinNames[kind]) =>
      LET c == decode(stored)
      IN  resolve(r) = extract_field(kind,
            [f \in DOMAIN c |-> IF f \in {"custom_fields", "headers"} THEN <<>> ELSE c[f]], r)

\* A selector of an identity array reads that array only: one that selects no
\* entry, or does not read as a selector, is UnknownField even when a custom
\* field has its text as a name ("missing selectors fail closed").
SelectorsFailClosed ==
  \A r \in References(kind) :
    (Decodable(stored) /\ kind = "identity" /\ r.base # "") =>
      resolve(r) = extract_field(kind,
        [new_content(kind) EXCEPT ![r.base] = decode(stored)[r.base]], r)

\* The fields of the content as independent registers; notes and their text
\* are one.
Registers(k, c) ==
  [f \in Fields(ItemContent[k]) \ {Prose(k).text} |->
     IF f = Prose(k).doc THEN <<c[f], c[Prose(k).text]>> ELSE c[f]]

Register == INSTANCE ItemRegister
  WITH contents <- Registers(kind, decode(stored)),
       Initial <- {Registers(k, new_content(k)) : k \in Kinds}

\* Decoding, editing and encoding by several applications, with defaults
\* filled in and empty fields left out, writes one field and no other one;
\* keys of later versions and malformed notes disturb no other field.
EditsOneField == Register!Spec

\* "The resolver's alias dispatch ignores unrecognized purposes": an item with
\* a custom field of a later version's purpose still resolves its other fields.
UnknownPurposeIgnored == \A r \in References(kind) : resolve(r) # None
=============================================================================
