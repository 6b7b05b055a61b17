----------------------------- MODULE MCCertData -----------------------------
(* Texts for CertData.                                                     *)
EXTENDS CertData, FiniteSets

\* "b/c" and "b c" have one file name.
MCFileName(label) == IF label = "b/c" THEN "b_c" ELSE
                     IF label = "b c" THEN "b_c" ELSE label

Line(kind) == [kind |-> kind]
Attr(f, v) == [kind |-> "attribute", field |-> f, value |-> v]
Octal(v) == [kind |-> "octal", value |-> v]

\* An object as certdata.txt has it: the serial number on two lines,
\* here with a comment between them.
Object(class, label, serial, more) ==
  <<Attr("CKA_CLASS", class), Attr("CKA_LABEL", label),
    [kind |-> "multiline", field |-> "CKA_SERIAL_NUMBER"], Octal(<<2>>),
    Line("comment"), Octal(<<serial>>), Line("END")>> \o more

\* The list of the roots, with which the file begins.
Root == <<Attr("CKA_CLASS", "CKO_NSS_BUILTIN_ROOT_LIST"), Attr("CKA_LABEL", "roots")>>

Cert(label, serial) == Object("CKO_CERTIFICATE", label, serial, <<>>)

\* Attributes that are "" are left out.
Some(f, v) == IF v = "" THEN <<>> ELSE <<Attr(f, v)>>
TrustOf(label, serial, server, email, code) ==
  Object("CKO_NSS_TRUST", label, serial,
         Some("CKA_TRUST_SERVER_AUTH", server)
           \o Some("CKA_TRUST_EMAIL_PROTECTION", email)
           \o Some("CKA_TRUST_CODE_SIGNING", code))
LegacyOf(label, serial, legacy_server, server) ==
  Object("CKO_NSS_TRUST", label, serial,
         Some("LEGACY_CKA_TRUST_SERVER_AUTH", legacy_server)
           \o Some("CKA_TRUST_SERVER_AUTH", server))

Marks == {Trusted, NotTrusted, "CKT_NSS_MUST_VERIFY_TRUST", ""}
AllTrust == {TrustOf("a", 1, x, y, z) : x, y, z \in Marks}
AllLegacy == {LegacyOf("a", 1, x, y) : x \in {Trusted, NotTrusted}, y \in {Trusted, ""}}

\* Two of three for which order, serial numbers and file names matter.
Mixed == {Cert("a", 1), Cert("b/c", 1), Cert("b c", 1),
          TrustOf("a", 1, Trusted, "", ""), TrustOf("a", 2, Trusted, "", ""),
          TrustOf("b/c", 1, NotTrusted, "", Trusted),
          TrustOf("b c", 1, Trusted, Trusted, "")}

Contents == {<<Cert("a", 1), t>> : t \in AllTrust \cup AllLegacy}
              \cup {<<t, Cert("a", 1)>> : t \in AllTrust \cup AllLegacy}
              \cup {<<x, y, z>> : x, y, z \in Mixed}

\* The header, the objects with comments and empty lines between them, and
\* an end of the file with or without an empty line.
Gap(style) == IF style = 1 THEN <<Line("empty")>>
              ELSE <<Line("empty"), Line("comment"), Line("empty")>>
Joined(c, style) ==
  LET from[i \in 1 .. Len(c)] ==
        c[i] \o (IF i < Len(c) THEN Gap(style) \o from[i + 1]
                 ELSE IF style = 1 THEN <<>> ELSE <<Line("empty")>>)
  IN <<Line("comment"), Line("BEGINDATA"), Line("empty")>> \o from[1]

MCTexts == {Joined(c, 1) : c \in Contents}
             \cup {Joined(<<Root, Cert("a", 1), t, Cert("b/c", 1)>>, 2) : t \in AllTrust}
MCBlacklists == {{}, {"a"}}
=============================================================================
