------------------------------ MODULE CertText ------------------------------
(***************************************************************************)
(* A text of certdata.txt, read as a whole and not a line at a time: where *)
(* its data begins, which lines are one object, and what an object says.   *)
(* A line is what certdata2pem.py tells it to be:                          *)
(*   "BEGINDATA", "comment", "empty", "END";                               *)
(*   "attribute": <field> <type> <value>;                                  *)
(*   "multiline": <field> MULTILINE_OCTAL, with the value in the lines of  *)
(*   "octal" digits to come, up to "END".                                  *)
(***************************************************************************)
EXTENDS Naturals, Sequences

FirstData(t) == CHOOSE k \in 1 .. Len(t) : t[k].kind = "BEGINDATA"
Data(t) == FirstData(t) + 1 .. Len(t)
DataLines(t) == {k \in Data(t) : t[k].kind \in {"attribute", "multiline"}}

\* No line from i to before j is of a kind.
NoneOf(t, kind, i, j) == \A l \in i .. j - 1 : t[l].kind # kind

\* Lines k and l belong to one object: no empty line is between them.
Together(t, k, l) == NoneOf(t, "empty", k, l) /\ NoneOf(t, "empty", l, k)

\* Line k, or the end of the text, is reached within the value of line m.
Within(t, m, k) ==
  m \in Data(t) /\ t[m].kind = "multiline" /\ m < k /\ NoneOf(t, "END", m, k)
InValue(t, k) == \E m \in DataLines(t) : Within(t, m, k)

\* The bytes of the value of line m that are given up to line l.
Bytes(t, m) ==
  LET upto[l \in m .. Len(t)] ==
        IF l = m THEN <<>>
        ELSE IF t[l].kind = "octal" /\ Within(t, m, l) THEN upto[l - 1] \o t[l].value
        ELSE upto[l - 1]
  IN upto

\* The value of line k, and the object it belongs to, as given before line e.
ValueBy(t, k, e) ==
  IF t[k].kind = "attribute" THEN t[k].value ELSE Bytes(t, k)[e - 1]
Own(t, k) == {l \in DataLines(t) : Together(t, k, l)}
ObjectBy(t, k, e) ==
  [f \in {t[l].field : l \in Own(t, k)} |->
     ValueBy(t, CHOOSE l \in Own(t, k) : t[l].field = f, e)]

\* The objects of the text.
ObjectsOf(t) == {ObjectBy(t, k, Len(t) + 1) : k \in DataLines(t)}

-----------------------------------------------------------------------------
(* The texts that certdata2pem.py takes for granted: none of it is tested  *)
(* for, and what is not so ends in an exception or in other objects.       *)

Begins(t) == \E k \in 1 .. Len(t) :
  /\ t[k].kind = "BEGINDATA"
  /\ \A l \in 1 .. Len(t) : t[l].kind = "BEGINDATA" => l = k

\* Digits and END within a value, everything but comments outside of one, and
\* no value without a line or without an end.
ValuesEnd(t) ==
  /\ \A k \in Data(t) :
       /\ t[k].kind \in {"comment", "empty", "attribute", "multiline", "octal", "END"}
       /\ t[k].kind \in {"octal", "END"} => InValue(t, k)
       /\ t[k].kind \in {"empty", "attribute", "multiline"} => ~InValue(t, k)
       /\ t[k].kind = "multiline" =>
            \E l \in Data(t) : t[l].kind = "octal" /\ Within(t, k, l)
  /\ ~InValue(t, Len(t) + 1)

\* An object begins with its class, and has no field twice.
ClassFirst(t) == \A k \in DataLines(t) : \E l \in Own(t, k) :
  l <= k /\ t[l].kind = "attribute" /\ t[l].field = "CKA_CLASS"
FieldsOnce(t) == \A k, l \in DataLines(t) :
  Together(t, k, l) /\ t[k].field = t[l].field => k = l

\* Certificates and trust have a label and a serial number.
Named(t) == \A o \in ObjectsOf(t) :
  o["CKA_CLASS"] \in {"CKO_CERTIFICATE", "CKO_NSS_TRUST"} =>
    {"CKA_LABEL", "CKA_SERIAL_NUMBER"} \subseteq DOMAIN o

WellFormed(t) ==
  /\ t \in Seq({t[k] : k \in DOMAIN t})
  /\ Begins(t) /\ ValuesEnd(t) /\ ClassFirst(t) /\ FieldsOnce(t) /\ Named(t)
=============================================================================
