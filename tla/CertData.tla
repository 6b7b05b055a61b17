------------------------------ MODULE CertData ------------------------------
(***************************************************************************)
(* ca-certificates/certdata2pem.py: the line parser for Mozilla's          *)
(* certdata.txt, and the files of trust it writes for p11-kit and for      *)
(* legacy bundles.                                                         *)
(*                                                                         *)
(* A text is a sequence of lines (CertText).  Of the attributes there are  *)
(* the class, the label, the serial number and those for the three         *)
(* purposes that decide about trust; of a file, what it says of trust.     *)
(***************************************************************************)
EXTENDS CertText

CONSTANTS
  Texts,      \* certdata.txt, as sequences of lines
  Blacklists, \* labels in blacklist.txt
  FileName(_) \* obj_to_filename: of a label; not one-to-one

ASSUME TextsAssumption == \A t \in Texts : WellFormed(t)

\* The purposes that decide, and their attributes, old and new.
TrustAttr == [server |-> "CKA_TRUST_SERVER_AUTH",
              email |-> "CKA_TRUST_EMAIL_PROTECTION",
              code |-> "CKA_TRUST_CODE_SIGNING"]
LegacyAttr == [server |-> "LEGACY_CKA_TRUST_SERVER_AUTH",
               email |-> "LEGACY_CKA_TRUST_EMAIL_PROTECTION",
               code |-> "LEGACY_CKA_TRUST_CODE_SIGNING"]
Purposes == DOMAIN TrustAttr
Trusted == "CKT_NSS_TRUSTED_DELEGATOR"
NotTrusted == "CKT_NSS_NOT_TRUSTED"

VARIABLES
  text, blacklist,
  stage,      \* "parse", "trust", "done", or "raised"
  at,         \* the line or object whose turn it is
  in_data, in_multiline, in_obj, field, binval, obj, objects,
  p11, legacy \* files written: name -> what it says

parserVars == <<in_data, in_multiline, in_obj, field, binval, obj, objects>>
vars == <<text, blacklist, stage, at, in_data, in_multiline, in_obj, field,
          binval, obj, objects, p11, legacy>>

Nothing == [f \in {} |-> ""]
Put(f, k, v) == [x \in DOMAIN f \cup {k} |-> IF x = k THEN v ELSE f[x]]

Init ==
  /\ text \in Texts /\ blacklist \in Blacklists
  /\ stage = "parse" /\ at = 1
  /\ in_data = FALSE /\ in_multiline = FALSE /\ in_obj = FALSE
  /\ field = "" /\ binval = <<>> /\ obj = Nothing /\ objects = <<>>
  /\ p11 = Nothing /\ legacy = Nothing

-----------------------------------------------------------------------------
(* The parser, a line at a time.                                           *)

line == text[at]
OnLine(kinds) == stage = "parse" /\ at <= Len(text) /\ line.kind \in kinds
NextLine == at' = at + 1 /\ UNCHANGED <<text, blacklist, stage, p11, legacy>>

\* The header, to the line after which the data begins; comments; empty
\* lines outside of an object.
SkipLine ==
  /\ stage = "parse" /\ at <= Len(text)
  /\ \/ ~in_data
     \/ line.kind = "comment"
     \/ line.kind = "empty" /\ ~in_obj
  /\ in_data' = (in_data \/ line.kind = "BEGINDATA")
  /\ NextLine
  /\ UNCHANGED <<in_multiline, in_obj, field, binval, obj, objects>>

\* An empty line ends the object.
EndObject ==
  /\ OnLine({"empty"}) /\ in_data /\ in_obj
  /\ objects' = Append(objects, obj) /\ obj' = Nothing /\ in_obj' = FALSE
  /\ NextLine
  /\ UNCHANGED <<in_data, in_multiline, field, binval>>

\* A line of octal digits adds to the value.
OctalLine ==
  /\ OnLine({"octal"}) /\ in_data /\ in_multiline
  /\ binval' = binval \o line.value
  /\ obj' = Put(obj, field, binval')
  /\ NextLine
  /\ UNCHANGED <<in_data, in_multiline, in_obj, field, objects>>

EndMultiline ==
  /\ OnLine({"END"}) /\ in_data /\ in_multiline
  /\ in_multiline' = FALSE
  /\ NextLine
  /\ UNCHANGED <<in_data, in_obj, field, binval, obj, objects>>

\* Mistake: the bytes of the last value are kept.
MultilineOn ==
  /\ OnLine({"multiline"}) /\ in_data /\ ~in_multiline
  /\ field' = line.field /\ in_multiline' = TRUE
  /\ NextLine
  /\ UNCHANGED <<in_data, in_obj, binval, obj, objects>>

\* <field> MULTILINE_OCTAL: the value is in the lines to come.
Multiline ==
  /\ OnLine({"multiline"}) /\ in_data /\ ~in_multiline
  /\ field' = line.field /\ in_multiline' = TRUE /\ binval' = <<>>
  /\ NextLine
  /\ UNCHANGED <<in_data, in_obj, obj, objects>>

\* Mistake: an object is not entered with its class.
AttributeOutside ==
  /\ OnLine({"attribute"}) /\ in_data /\ ~in_multiline
  /\ field' = line.field
  /\ obj' = Put(obj, line.field, line.value)
  /\ NextLine
  /\ UNCHANGED <<in_data, in_obj, in_multiline, binval, objects>>

\* <field> <type> <value>
Attribute ==
  /\ OnLine({"attribute"}) /\ in_data /\ ~in_multiline
  /\ field' = line.field
  /\ obj' = Put(obj, line.field, line.value)
  /\ in_obj' = (in_obj \/ line.field = "CKA_CLASS")
  /\ NextLine
  /\ UNCHANGED <<in_data, in_multiline, binval, objects>>

\* The last object may end with the file.
EndOfFile ==
  /\ stage = "parse" /\ at > Len(text)
  /\ objects' = IF DOMAIN obj = {} THEN objects ELSE Append(objects, obj)
  /\ stage' = "trust" /\ at' = 1
  /\ UNCHANGED <<text, blacklist, in_data, in_multiline, in_obj, field, binval,
                 obj, p11, legacy>>

Parse == \/ SkipLine \/ EndObject \/ OctalLine \/ EndMultiline \/ Multiline
         \/ Attribute \/ EndOfFile

-----------------------------------------------------------------------------
(* The maps.                                                               *)

Key(o) == <<o["CKA_LABEL"], o["CKA_SERIAL_NUMBER"]>>
IsCert(o) == o["CKA_CLASS"] = "CKO_CERTIFICATE"
IsTrust(o) == o["CKA_CLASS"] = "CKO_NSS_TRUST"

\* Mistake: certificates are kept by their labels.
certmapByLabel(o) ==
  \E i \in 1 .. Len(objects) :
    /\ IsCert(objects[i]) /\ objects[i]["CKA_LABEL"] \notin blacklist
    /\ objects[i]["CKA_LABEL"] = o["CKA_LABEL"]

\* Mistake: blacklist.txt is not looked at.
certmapAll(o) ==
  \E i \in 1 .. Len(objects) : IsCert(objects[i]) /\ Key(objects[i]) = Key(o)

\* certmap has a certificate for the trust object.  trustmap, which the
\* blacklist keeps objects out of as well, is never used.
certmap(o) ==
  \E i \in 1 .. Len(objects) :
    /\ IsCert(objects[i]) /\ objects[i]["CKA_LABEL"] \notin blacklist
    /\ Key(objects[i]) = Key(o)

-----------------------------------------------------------------------------
(* The files, a trust object at a time.                                    *)

tobj == objects[at]
Says(o, p, what) == TrustAttr[p] \in DOMAIN o /\ o[TrustAttr[p]] = what
Legacy(o) == {p \in Purposes : LegacyAttr[p] \in DOMAIN o}
LegacyDistrust(o) == \E p \in Legacy(o) : o[LegacyAttr[p]] = NotTrusted
fname == <<FileName(tobj["CKA_LABEL"]), tobj["CKA_SERIAL_NUMBER"]>>

OnTrust == stage = "trust" /\ at <= Len(objects) /\ IsTrust(tobj)
NextObject == at' = at + 1 /\ UNCHANGED <<text, blacklist, stage, parserVars>>
RaiseError == /\ stage' = "raised"
              /\ UNCHANGED <<text, blacklist, at, parserVars, p11>>

NoTrust ==
  /\ stage = "trust" /\ at <= Len(objects) /\ ~IsTrust(tobj)
  /\ NextObject /\ UNCHANGED <<p11, legacy>>

\* NotImplementedError: distrust by a legacy attribute, or legacy trust of a
\* certificate there is none of, or that is blacklisted.
LegacyFails ==
  /\ OnTrust /\ Legacy(tobj) # {}
  /\ LegacyDistrust(tobj) \/ ~certmap(tobj)
  /\ RaiseError /\ UNCHANGED legacy

\* legacy-default/, and nothing for p11-kit.
LegacyDefault ==
  /\ OnTrust /\ Legacy(tobj) # {} /\ ~LegacyDistrust(tobj) /\ certmap(tobj)
  /\ legacy' = Put(legacy, fname,
                   {p \in Legacy(tobj) : tobj[LegacyAttr[p]] = Trusted})
  /\ IF \E p \in Purposes : TrustAttr[p] \in DOMAIN tobj
       \* legacy-disable/: textwrap.wrap of bytes raises a TypeError.
       THEN RaiseError
       ELSE NextObject /\ UNCHANGED p11

\* Mistake: a purpose that is trusted outweighs one that is distrusted.
DistrustedUnlessTrusted(o) ==
  /\ \E p \in Purposes : Says(o, p, NotTrusted)
  /\ ~\E p \in Purposes : Says(o, p, Trusted)

Distrusted(o) == \E p \in Purposes : Says(o, p, NotTrusted)
TrustedFor(o) == {p \in Purposes : Says(o, p, Trusted)}

\* With the certificate: what it is trusted for, or a distrust that holds for
\* every purpose.  A neutral one names no purposes at all.
WithCertificate ==
  /\ OnTrust /\ Legacy(tobj) = {} /\ certmap(tobj)
  /\ p11' = Put(p11, fname,
       [cert |-> TRUE,
        trust |-> IF Distrusted(tobj) THEN "x-distrusted"
                  ELSE IF TrustedFor(tobj) # {} THEN "trusted" ELSE "neutral",
        purposes |-> TrustedFor(tobj)])
  /\ NextObject /\ UNCHANGED legacy

\* The attributes are looked up one after the other until one distrusts; one
\* that is not there is a KeyError.
LookUp == <<"server", "email", "code">>
LookUpFails(o) ==
  \E i \in 1 .. 3 :
    /\ TrustAttr[LookUp[i]] \notin DOMAIN o
    /\ \A j \in 1 .. (i - 1) : ~Says(o, LookUp[j], NotTrusted)

\* Without: issuer and serial number only, and whether it is distrusted.
WithoutCertificate ==
  /\ OnTrust /\ Legacy(tobj) = {} /\ ~certmap(tobj) /\ ~LookUpFails(tobj)
  /\ p11' = Put(p11, fname,
       [cert |-> FALSE,
        trust |-> IF Distrusted(tobj) THEN "x-distrusted" ELSE "neutral",
        purposes |-> {}])
  /\ NextObject /\ UNCHANGED legacy

WithoutFails ==
  /\ OnTrust /\ Legacy(tobj) = {} /\ ~certmap(tobj) /\ LookUpFails(tobj)
  /\ RaiseError /\ UNCHANGED legacy

EndOfObjects ==
  /\ stage = "trust" /\ at > Len(objects)
  /\ stage' = "done"
  /\ UNCHANGED <<text, blacklist, at, parserVars, p11, legacy>>

Trust == \/ NoTrust \/ LegacyFails \/ LegacyDefault \/ WithCertificate
         \/ WithoutCertificate \/ WithoutFails \/ EndOfObjects

Ended == stage \in {"done", "raised"} /\ UNCHANGED vars

Next == Parse \/ Trust \/ Ended
Spec == Init /\ [][Next]_vars
-----------------------------------------------------------------------------
(* What the text says.                                                     *)

Written == ObjectsOf(text)
Stated == {o \in Written : IsTrust(o)}
FileOf(o) == <<FileName(o["CKA_LABEL"]), o["CKA_SERIAL_NUMBER"]>>

\* Different trust objects are written to different files.
FilesDiffer == \A o, q \in Stated : FileOf(o) = FileOf(q) => o = q

\* Every variable holds a value of its type; a multi-line value is collected only
\* within an object of the data and while parsing.
TypeOK ==
  /\ stage \in {"parse", "trust", "done", "raised"} /\ at \in Nat \ {0}
  /\ in_data \in BOOLEAN /\ in_multiline \in BOOLEAN /\ in_obj \in BOOLEAN
  /\ in_multiline => in_data /\ in_obj
  /\ stage # "parse" => ~in_multiline
  /\ \A f \in DOMAIN p11 : /\ p11[f].trust \in {"x-distrusted", "trusted", "neutral"}
                           /\ p11[f].purposes \subseteq Purposes
  /\ \A f \in DOMAIN legacy : legacy[f] \subseteq Purposes

\* The parser finds the objects that are written, with all of their bytes and
\* none of another's, wherever comments and empty lines stand.
ObjectsAsWritten ==
  stage # "parse" => {objects[i] : i \in 1 .. Len(objects)} = Written

\* A certificate is marked as trusted only if it is in the text under the
\* label and serial number of a trust object that trusts it, for what that
\* object says, that distrusts it for nothing.
TrustedOnlyAsSaid ==
  \A f \in DOMAIN p11 : p11[f].trust = "trusted" =>
    \E o \in Stated, c \in Written :
      /\ FileOf(o) = f /\ IsCert(c) /\ Key(c) = Key(o)
      /\ p11[f].purposes = {p \in Purposes : Says(o, p, Trusted)}
      /\ p11[f].purposes # {} /\ \A p \in Purposes : ~Says(o, p, NotTrusted)

\* What the text distrusts is marked as distrusted in the end, whatever else
\* it says, as long as no other object's file takes the place.
DistrustHolds ==
  stage = "done" /\ FilesDiffer =>
    \A o \in Stated : Legacy(o) = {} /\ (\E p \in Purposes : Says(o, p, NotTrusted))
      => FileOf(o) \in DOMAIN p11 /\ p11[FileOf(o)].trust = "x-distrusted"

\* "Certificate %s blacklisted, ignoring.": although its trust object is not
\* ignored, a blacklisted certificate is in no file.
BlacklistHolds ==
  stage = "done" /\ FilesDiffer =>
    \A o \in Stated : o["CKA_LABEL"] \in blacklist =>
      /\ FileOf(o) \notin DOMAIN legacy
      /\ FileOf(o) \in DOMAIN p11 => ~p11[FileOf(o)].cert
=============================================================================
