--------------------------- MODULE MCItemDocument ---------------------------
(* Bounded instances of ItemDocument.                                      *)
EXTENDS ItemDocument

CONSTANTS a1, a2

AllKinds == DOMAIN ItemContent

Custom(name, value, purpose) ==
  [name |-> name, kind |-> "concealed", value |-> value, purpose |-> purpose,
   section_id |-> None]

\* A few entries for each list and each optional struct: several with the
\* same name, label or purpose where the code takes the first one.
Entries ==
  [custom_fields |-> {<<Custom("password", "c1", None), Custom("pin", "c2", "pin")>>,
                      <<Custom("n", "c3", "pin"), Custom("emails[x]", "c4", None)>>},
   headers |-> {<<[name |-> "notes", value |-> "h1"], [name |-> "pin", value |-> "h2"]>>},
   sections |-> {<<[id |-> "s", title |-> ""]>>},
   emails |-> {<<[label |-> "", value |-> "e1"], [label |-> "work email", value |-> "e2"]>>},
   phones |-> {<<[label |-> "home", value |-> "p1"]>>},
   government_ids |->
     {<<[label |-> "drivers license", number |-> "g1", issuer |-> "", issued_on |-> None,
         expires_on |-> ""],
        [label |-> "us passport", number |-> "g2", issuer |-> "i", issued_on |-> "d",
         expires_on |-> None]>>},
   urls |-> {<<[url |-> "u", match_type |-> "host", label |-> "", primary |-> None]>>},
   password_history |-> {<<[password |-> "old", changed_at |-> "d"]>>},
   fido2_credentials |->
     {<<[f \in Fields(Fido2Credential) |-> IF f \in Fido2Credential.skip THEN "" ELSE "k"]>>}]

Address == [street |-> "1", city |-> "", region |-> "3", postal_code |-> "", country |-> "5"]

Options ==
  [totp |-> {[secret_base32 |-> "t", algorithm |-> "SHA256", digits |-> "8", period_seconds |-> ""]},
   generator_recipe |-> {[f \in Fields(GeneratorRecipe) |-> IF f = "length" THEN "9" ELSE ""]},
   rotation |-> {[policy |-> "scheduled", next_rotation_at |-> None]},
   billing_address |-> {Address}, address |-> {Address}]

MCSamples(k, f) ==
  CASE f = "addresses" -> {<<IF k = "identity" THEN Address
                             ELSE [label |-> "", address |-> "w"]>>, <<>>}
    [] f \in DOMAIN Entries -> Entries[f] \cup {<<>>}
    [] f \in DOMAIN Options -> Options[f] \cup {None}
    [] f \in ItemContent[k].option -> {None, "", "x"}
    [] f \in ItemContent[k].doc ->
         {[type |-> "doc", content |-> "array", text |-> "d"],
          [type |-> "doc", content |-> "absent", text |-> ""]}
    [] f = "credential_kind" -> {"basic"}
    [] f \in {"username", "private_key", "number", "notes_text"} -> {"", "x"}
    [] OTHER -> {"x"}

MCWords(label) ==
  CASE label = "work email" -> {"work", "email"}
    [] label = "drivers license" -> {"drivers", "license"}
    [] label = "us passport" -> {"us", "passport"}
    [] OTHER -> {label}

MCContains(label, term) ==
  \/ term \in MCWords(label)
  \/ label = "drivers license" /\ term = "driver"

Name(t) == [text |-> t, base |-> "", open |-> "", at |-> None, sub |-> None]
Array(t, base, open, at, sub) == [text |-> t, base |-> base, open |-> open, at |-> at, sub |-> sub]

MCReferences(k) ==
  {Name(t) : t \in {"password", "notes", "pin", "name", "state"}}
  \cup {Array("emails[x]", "emails", "[", None, None)}
  \cup IF k # "identity" THEN {} ELSE
       {Array("emails[1]", "emails", "[", 1, None),
        Array("emails.work.label", "emails", ".", "work", "label"),
        Array("addresses[0].state", "addresses", "[", 0, "state"),
        Array("addresses.home", "addresses", ".", "home", None),
        Array("phones.home", "phones", ".", "home", None),
        Array("government_ids.passport.issued", "government_ids", ".", "passport", "issued"),
        Array("government_ids[2]", "government_ids", "[", 2, None)}
=============================================================================
