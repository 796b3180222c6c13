------------------------ MODULE StreamProcessorProofs ------------------------
(***************************************************************************)
(* Theorems about StreamProcessor, for any ids and bounds: its maps hold   *)
(* what is open, texts are whole, and it implements MessageParts.          *)
(***************************************************************************)
EXTENDS StreamProcessor, SequenceTheorems, WellFoundedInduction, TLAPS

Keys == ReasoningIds \cup CallIds \cup {""}
Part == [kind : {"text", "reasoning", "tool", "step"}, key : Keys, status : Status,
         text : Seq(Delta)]

ProcessorTypes ==
    /\ parts \in Seq(Part)
    /\ currentText \in 0 .. Len(parts)
    /\ textBuilder \in Seq(Delta)
    /\ DOMAIN reasoningMap \subseteq ReasoningIds
    /\ reasoningMap \in [DOMAIN reasoningMap -> 1 .. Len(parts)]
    /\ DOMAIN reasoningBuf \subseteq DOMAIN reasoningMap
    /\ reasoningBuf \in [DOMAIN reasoningBuf -> Seq(Delta)]
    /\ DOMAIN toolCalls \subseteq CallIds
    /\ toolCalls \in [DOMAIN toolCalls -> 1 .. Len(parts)]
    /\ told \in Seq(Seq(Delta)) /\ Len(told) = Len(parts)
    /\ cut \subseteq 1 .. Len(parts)

-----------------------------------------------------------------------------
\* Texts

\* A set of numbers up to n has a greatest element.
LEMMA GreatestOfSet ==
    ASSUME NEW n \in Nat, NEW S \in SUBSET (0 .. n), S # {}
    PROVE  /\ Max(S) \in S
           /\ \A x \in S : x <= Max(S)
<1> DEFINE R == {p \in Nat \X Nat : p[1] < p[2]}
           D == {n - x : x \in S}
<1>1. IsWellFoundedOn(R, Nat)
  BY NatLessThanWellFounded DEF OpToRel
<1>2. D \in SUBSET Nat /\ D # {}
  <2>1. ASSUME NEW x \in S PROVE n - x \in Nat
    <3>1. x \in 0 .. n
      OBVIOUS
    <3>2. QED
      BY <3>1
  <2>2. PICK x : x \in S
    OBVIOUS
  <2>3. n - x \in D
    BY <2>2
  <2>4. QED
    BY <2>1, <2>3
<1>3. PICK d \in D : \A e \in D : <<e, d>> \notin R
  <2> HIDE DEF R, D
  <2> QED
    BY <1>1, <1>2, WFMin
<1>4. PICK x \in S : d = n - x
  BY <1>3
<1>5. ASSUME NEW y \in S PROVE x >= y
  <2>1. /\ n - y \in D /\ n - y \in Nat /\ d \in Nat
        /\ x \in Nat /\ y \in Nat
    BY <1>2, <1>3, <1>4
  <2>2. ~(n - y < n - x)
    BY <1>3, <1>4, <2>1
  <2>3. QED
    BY <2>1, <2>2
<1>6. Max(S) \in S /\ \A y \in S : Max(S) >= y
  BY <1>4, <1>5 DEF Max
<1>7. ASSUME NEW y \in S PROVE y <= Max(S)
  <2>1. Max(S) \in 0 .. n /\ y \in 0 .. n
    BY <1>6
  <2>2. Max(S) >= y
    BY <1>6
  <2>3. QED
    BY <2>1, <2>2
<1>8. QED
  BY <1>6, <1>7

\* The last word of a text, 0 when there is none
LastWord(text) == Max({0} \cup {i \in DOMAIN text : text[i] = "word"})

LEMMA LastWordIsLast ==
    ASSUME NEW text \in Seq(Delta)
    PROVE  /\ LastWord(text) \in 0 .. Len(text)
           /\ LastWord(text) > 0 => text[LastWord(text)] = "word"
           /\ \A i \in 1 .. Len(text) : text[i] = "word" => i <= LastWord(text)
<1> DEFINE S == {0} \cup {i \in DOMAIN text : text[i] = "word"}
<1>1. DOMAIN text = 1 .. Len(text) /\ Len(text) \in Nat
  BY LenProperties
<1>2. S \in SUBSET (0 .. Len(text)) /\ S # {}
  BY <1>1
<1>3. Max(S) \in S /\ \A x \in S : x <= Max(S)
  <2> HIDE DEF S
  <2> QED
    BY <1>1, <1>2, GreatestOfSet
<1>4. LastWord(text) = Max(S)
  BY DEF LastWord
<1>5. LastWord(text) \in S /\ \A x \in S : x <= LastWord(text)
  BY <1>3, <1>4
<1>6. QED
  BY <1>1, <1>2, <1>5

LEMMA Trimmed ==
    ASSUME NEW text \in Seq(Delta)
    PROVE  /\ TrimEnd(text) \in Seq(Delta)
           /\ Len(TrimEnd(text)) = LastWord(text)
           /\ \A i \in 1 .. LastWord(text) : TrimEnd(text)[i] = text[i]
<1> DEFINE n == LastWord(text)
<1>1. n \in 0 .. Len(text) /\ Len(text) \in Nat
  BY LastWordIsLast, LenProperties
<1>2. TrimEnd(text) = SubSeq(text, 1, n)
  BY DEF TrimEnd, LastWord
<1>3. \A i \in 1 .. n : text[i] \in Delta
  BY <1>1, ElementOfSeq
<1> HIDE DEF n
<1>4. /\ SubSeq(text, 1, n) \in Seq(Delta)
      /\ Len(SubSeq(text, 1, n)) = IF 1 <= n THEN n - 1 + 1 ELSE 0
      /\ \A i \in 1 .. n - 1 + 1 : SubSeq(text, 1, n)[i] = text[1 + i - 1]
  BY <1>1, <1>3, SubSeqProperties
<1>5. QED
  BY <1>1, <1>2, <1>4 DEF n

\* s is the end of t
EndOf(s, t) ==
    /\ Len(s) <= Len(t)
    /\ \A i \in 1 .. Len(s) : s[i] = t[Len(t) - Len(s) + i]

LEMMA EndIsSuffix ==
    ASSUME NEW s \in Seq(Delta), NEW t \in Seq(Delta), EndOf(s, t)
    PROVE  IsSuffix(s, t)
<1> DEFINE m == Len(s)
           n == Len(t)
           rs == Reverse(s)
           rt == Reverse(t)
<1>1. m \in Nat /\ n \in Nat /\ m <= n
  BY LenProperties DEF EndOf
<1>2. /\ \A i \in 1 .. m : s[m - i + 1] \in Delta
      /\ \A i \in 1 .. n : t[n - i + 1] \in Delta
  BY <1>1, ElementOfSeq
<1>3. /\ rs \in [1 .. m -> Delta] /\ rt \in [1 .. n -> Delta]
      /\ \A i \in 1 .. m : rs[i] = s[m - i + 1]
      /\ \A i \in 1 .. n : rt[i] = t[n - i + 1]
  BY <1>2 DEF Reverse
<1>4. \A i \in 1 .. m : rs[i] = rt[i]
  <2>1. ASSUME NEW i \in 1 .. m PROVE rs[i] = rt[i]
    <3>1. m - i + 1 \in 1 .. m /\ n - m + (m - i + 1) = n - i + 1 /\ i \in 1 .. n
      BY <1>1
    <3>2. s[m - i + 1] = t[n - m + (m - i + 1)]
      BY <3>1 DEF EndOf
    <3>3. QED
      BY <1>3, <3>1, <3>2
  <2>2. QED
    BY <2>1
<1> HIDE DEF rs, rt
<1> HIDE DEF m, n
<1>5. rs \in Seq(Delta) /\ rt \in Seq(Delta) /\ Len(rs) = m /\ Len(rt) = n
  <2>1. rs \in Seq(Delta) /\ rt \in Seq(Delta)
    BY <1>1, <1>3, SeqDef
  <2>2. DOMAIN rs = 1 .. m /\ DOMAIN rt = 1 .. n
    BY <1>3
  <2>3. QED
    BY <1>1, <2>1, <2>2, LenProperties
<1>6. SubSeq(rs, 1, m) = SubSeq(rt, 1, m)
  <2>1. /\ \A i \in 1 .. m : rs[i] \in Delta
        /\ \A i \in 1 .. m : rt[i] \in Delta
    <3>1. ASSUME NEW i \in 1 .. m PROVE i \in 1 .. n
      BY <1>1
    <3>2. QED
      BY <1>3, <3>1
  <2>2. m \in Int /\ m - 1 + 1 = m /\ (IF 1 <= m THEN m - 1 + 1 ELSE 0) = m
    BY <1>1
  <2>3. /\ SubSeq(rs, 1, m) \in Seq(Delta) /\ Len(SubSeq(rs, 1, m)) = m
        /\ \A i \in 1 .. m : SubSeq(rs, 1, m)[i] = rs[1 + i - 1]
    BY <2>1, <2>2, SubSeqProperties
  <2>4. /\ SubSeq(rt, 1, m) \in Seq(Delta) /\ Len(SubSeq(rt, 1, m)) = m
        /\ \A i \in 1 .. m : SubSeq(rt, 1, m)[i] = rt[1 + i - 1]
    BY <2>1, <2>2, SubSeqProperties
  <2>5. \A i \in 1 .. m : SubSeq(rs, 1, m)[i] = SubSeq(rt, 1, m)[i]
    BY <1>1, <1>4, <2>3, <2>4
  <2>6. QED
    BY <2>3, <2>4, <2>5, SeqEqual
<1>7. QED
  BY <1>1, <1>5, <1>6 DEF IsSuffix, IsPrefix, rs, rt, m, n

\* What is added to a text is added to its end.
LEMMA EndGrows ==
    ASSUME NEW s \in Seq(Delta), NEW t \in Seq(Delta), NEW d \in Delta, EndOf(s, t)
    PROVE  EndOf(Append(s, d), Append(t, d))
<1> DEFINE m == Len(s)
           n == Len(t)
<1>1. m \in Nat /\ n \in Nat /\ m <= n
  BY LenProperties DEF EndOf
<1>2. /\ Len(Append(s, d)) = m + 1 /\ Append(s, d)[m + 1] = d
      /\ \A i \in 1 .. m : Append(s, d)[i] = s[i]
  BY AppendProperties
<1>3. /\ Len(Append(t, d)) = n + 1 /\ Append(t, d)[n + 1] = d
      /\ \A i \in 1 .. n : Append(t, d)[i] = t[i]
  BY AppendProperties
<1>4. ASSUME NEW i \in 1 .. m + 1
      PROVE  Append(s, d)[i] = Append(t, d)[(n + 1) - (m + 1) + i]
  <2>1. CASE i = m + 1
    BY <1>1, <1>2, <1>3, <2>1
  <2>2. CASE i \in 1 .. m
    <3>1. n - m + i \in 1 .. n /\ (n + 1) - (m + 1) + i = n - m + i
      BY <1>1, <2>2
    <3>2. s[i] = t[n - m + i]
      BY <2>2 DEF EndOf
    <3>3. QED
      BY <1>2, <1>3, <2>2, <3>1, <3>2
  <2>3. QED
    BY <1>1, <2>1, <2>2
<1>5. m + 1 <= n + 1
  BY <1>1
<1>6. QED
  BY <1>2, <1>3, <1>4, <1>5 DEF EndOf

\* The end of a text without its white space is the end of the text without its.
LEMMA EndTrimmed ==
    ASSUME NEW s \in Seq(Delta), NEW t \in Seq(Delta), EndOf(s, t)
    PROVE  EndOf(TrimEnd(s), TrimEnd(t))
<1> DEFINE m == Len(s)
           n == Len(t)
           a == LastWord(s)
           b == LastWord(t)
<1>1. m \in Nat /\ n \in Nat /\ m <= n /\ a \in 0 .. m /\ b \in 0 .. n
  BY LenProperties, LastWordIsLast DEF EndOf
<1>2. /\ Len(TrimEnd(s)) = a /\ \A i \in 1 .. a : TrimEnd(s)[i] = s[i]
      /\ Len(TrimEnd(t)) = b /\ \A i \in 1 .. b : TrimEnd(t)[i] = t[i]
  BY Trimmed
<1>3. /\ a > 0 => s[a] = "word"
      /\ \A i \in 1 .. m : s[i] = "word" => i <= a
      /\ b > 0 => t[b] = "word"
      /\ \A i \in 1 .. n : t[i] = "word" => i <= b
  BY LastWordIsLast
<1>4. \A i \in 1 .. m : s[i] = t[n - m + i]
  BY DEF EndOf
<1> HIDE DEF m, n, a, b
<1>5. CASE a = 0
  <2>1. Len(TrimEnd(s)) <= Len(TrimEnd(t))
    BY <1>1, <1>2, <1>5
  <2>2. 1 .. Len(TrimEnd(s)) = {}
    BY <1>2, <1>5
  <2>3. QED
    BY <2>1, <2>2 DEF EndOf
<1>6. CASE a > 0
  <2>1. a \in 1 .. m /\ n - m + a \in 1 .. n
    BY <1>1, <1>6
  <2>2. t[n - m + a] = "word"
    BY <1>3, <1>4, <1>6, <2>1
  <2>3. n - m + a <= b
    BY <1>3, <2>1, <2>2
  <2>4. b <= n - m + a
    <3>1. SUFFICES ASSUME b > n - m + a PROVE FALSE
      BY <1>1
    <3>2. b - (n - m) \in 1 .. m /\ n - m + (b - (n - m)) = b /\ b - (n - m) > a /\ b > 0
      BY <1>1, <3>1
    <3>3. s[b - (n - m)] = "word"
      BY <1>3, <1>4, <3>2
    <3>4. b - (n - m) <= a
      BY <1>3, <3>2, <3>3
    <3>5. QED
      BY <1>1, <3>2, <3>4
  <2>5. b = n - m + a
    BY <1>1, <2>3, <2>4
  <2>6. ASSUME NEW i \in 1 .. a PROVE TrimEnd(s)[i] = TrimEnd(t)[b - a + i]
    <3>1. i \in 1 .. m /\ b - a + i = n - m + i /\ n - m + i \in 1 .. b
      BY <1>1, <2>5
    <3>2. QED
      BY <1>2, <1>4, <3>1
  <2>7. a <= b
    BY <1>1, <2>5
  <2>8. QED
    BY <1>2, <2>6, <2>7 DEF EndOf
<1>7. QED
  BY <1>1, <1>5, <1>6
-----------------------------------------------------------------------------
\* What a step does to the parts

LEMMA Sizes ==
    ASSUME ProcessorTypes
    PROVE  /\ Len(parts) \in Nat /\ Len(told) = Len(parts)
           /\ DOMAIN parts = 1 .. Len(parts) /\ DOMAIN told = 1 .. Len(parts)
           /\ \A i \in 1 .. Len(parts) : parts[i] \in Part /\ told[i] \in Seq(Delta)
<1>1. parts \in Seq(Part) /\ told \in Seq(Seq(Delta)) /\ Len(told) = Len(parts)
  BY DEF ProcessorTypes
<1>2. QED
  BY <1>1, LenProperties, ElementOfSeq

\* One more part at the end
LEMMA Added ==
    ASSUME ProcessorTypes, NEW p \in Part, AddPart(p)
    PROVE  /\ parts' \in Seq(Part) /\ Len(parts') = Len(parts) + 1
           /\ parts'[Len(parts) + 1] = p
           /\ \A i \in 1 .. Len(parts) : parts'[i] = parts[i]
           /\ told' \in Seq(Seq(Delta)) /\ Len(told') = Len(parts) + 1
           /\ told'[Len(parts) + 1] = <<>>
           /\ \A i \in 1 .. Len(parts) : told'[i] = told[i]
<1>1. /\ parts \in Seq(Part) /\ told \in Seq(Seq(Delta)) /\ Len(told) = Len(parts)
      /\ parts' = Append(parts, p) /\ told' = Append(told, <<>>) /\ <<>> \in Seq(Delta)
  BY DEF ProcessorTypes, AddPart
<1>2. QED
  BY <1>1, AppendProperties

\* One part changes
LEMMA PartChanged ==
    ASSUME ProcessorTypes, NEW i \in 1 .. Len(parts), NEW p \in Part, parts' = [parts EXCEPT ![i] = p]
    PROVE  /\ parts' \in Seq(Part) /\ Len(parts') = Len(parts)
           /\ parts'[i] = p
           /\ \A j \in 1 .. Len(parts) : j # i => parts'[j] = parts[j]
<1>1. parts \in Seq(Part) /\ DOMAIN parts = 1 .. Len(parts)
  BY Sizes DEF ProcessorTypes
<1>2. parts' \in Seq(Part) /\ Len(parts') = Len(parts)
  BY <1>1, ExceptSeq
<1>3. QED
  BY <1>1, <1>2

\* One part is told something
LEMMA Told ==
    ASSUME ProcessorTypes, NEW i \in 1 .. Len(parts), NEW d \in Delta,
           told' = [told EXCEPT ![i] = Append(@, d)]
    PROVE  /\ told' \in Seq(Seq(Delta)) /\ Len(told') = Len(parts)
           /\ told'[i] = Append(told[i], d)
           /\ \A j \in 1 .. Len(parts) : j # i => told'[j] = told[j]
<1>1. /\ told \in Seq(Seq(Delta)) /\ DOMAIN told = 1 .. Len(parts)
      /\ Len(told) = Len(parts) /\ told[i] \in Seq(Delta)
  BY Sizes DEF ProcessorTypes
<1>2. Append(told[i], d) \in Seq(Delta)
  BY <1>1, AppendProperties
<1>3. told' = [told EXCEPT ![i] = Append(told[i], d)]
  OBVIOUS
<1>4. told' \in Seq(Seq(Delta)) /\ Len(told') = Len(told)
  BY <1>1, <1>2, <1>3, ExceptSeq
<1>5. QED
  BY <1>1, <1>3, <1>4

\* The parts that begin are parts.
LEMMA StartedIsPart ==
    /\ Started("text", "", "open") \in Part
    /\ \A id \in ReasoningIds : Started("reasoning", id, "open") \in Part
    /\ \A c \in CallIds : Started("tool", c, "pending") \in Part
    /\ Started("step", "", "done") \in Part
<1>1. <<>> \in Seq(Delta)
  OBVIOUS
<1>2. \A kind \in {"text", "reasoning", "tool", "step"}, key \in Keys, status \in Status :
         Started(kind, key, status) \in Part
  BY <1>1 DEF Started, Part
<1>3. /\ "" \in Keys /\ ReasoningIds \subseteq Keys /\ CallIds \subseteq Keys
      /\ "open" \in Status /\ "pending" \in Status /\ "done" \in Status
  BY DEF Keys, Status
<1>4. QED
  BY <1>2, <1>3

LEMMA Extended ==
    ASSUME NEW f, NEW T, f \in [DOMAIN f -> T], NEW x, NEW v \in T
    PROVE  /\ DOMAIN With(f, x, v) = DOMAIN f \cup {x}
           /\ With(f, x, v) \in [DOMAIN With(f, x, v) -> T]
           /\ With(f, x, v)[x] = v
           /\ \A y \in DOMAIN f : y # x => With(f, x, v)[y] = f[y]
BY DEF With

LEMMA Reduced ==
    ASSUME NEW f, NEW T, f \in [DOMAIN f -> T], NEW x
    PROVE  /\ DOMAIN Without(f, x) = DOMAIN f \ {x}
           /\ Without(f, x) \in [DOMAIN Without(f, x) -> T]
           /\ \A y \in DOMAIN f : y # x => Without(f, x)[y] = f[y]
BY DEF Without

\* The part at i with another status and text
Moved(i, status, text) ==
    [kind |-> parts[i].kind, key |-> parts[i].key, status |-> status, text |-> text]

\* A part whose text and status, or status only, are replaced, as the actions write it
Closed(p, status, text) == [p EXCEPT !.text = text, !.status = status]
At(p, status) == [p EXCEPT !.status = status]

LEMMA Replaced ==
    ASSUME NEW p \in Part, NEW status \in Status, NEW text \in Seq(Delta)
    PROVE  /\ At(p, status)
                = [kind |-> p.kind, key |-> p.key, status |-> status, text |-> p.text]
           /\ Closed(p, status, text)
                = [kind |-> p.kind, key |-> p.key, status |-> status, text |-> text]
<1> DEFINE r == [p EXCEPT !.text = text]
<1>1. ASSUME NEW q \in Part
      PROVE  [q EXCEPT !.status = status]
               = [kind |-> q.kind, key |-> q.key, status |-> status, text |-> q.text]
  BY DEF Part
<1>2. r \in Part /\ r.text = text /\ r.kind = p.kind /\ r.key = p.key
  BY DEF Part
<1>3. Closed(p, status, text) = [r EXCEPT !.status = status]
  BY DEF Closed
<1> HIDE DEF r
<1>4. [r EXCEPT !.status = status]
        = [kind |-> p.kind, key |-> p.key, status |-> status, text |-> text]
  BY <1>1, <1>2
<1>5. QED
  BY <1>1, <1>3, <1>4 DEF At

\* What an action that changes one part makes of it
LEMMA Moves ==
    ASSUME ProcessorTypes
    PROVE  /\ TextEnd =>
                /\ currentText \in 1 .. Len(parts) /\ TrimEnd(textBuilder) \in Seq(Delta)
                /\ parts' = [parts EXCEPT ![currentText] =
                               Moved(currentText, "done", TrimEnd(textBuilder))]
           /\ \A id \in ReasoningIds : ReasoningEnd(id) =>
                LET i == reasoningMap[id]
                    text == IF id \in DOMAIN reasoningBuf
                            THEN TrimEnd(reasoningBuf[id]) ELSE parts[i].text
                IN  /\ i \in 1 .. Len(parts) /\ text \in Seq(Delta)
                    /\ parts' = [parts EXCEPT ![i] = Moved(i, "done", text)]
           /\ \A c \in CallIds : \A status \in Status :
                /\ c \in DOMAIN toolCalls
                /\ parts' = [parts EXCEPT ![toolCalls[c]].status = status]
                => LET i == toolCalls[c]
                   IN  /\ i \in 1 .. Len(parts) /\ parts[i].text \in Seq(Delta)
                       /\ parts' = [parts EXCEPT ![i] = Moved(i, status, parts[i].text)]
<1>1. ASSUME NEW i \in 1 .. Len(parts)
      PROVE  parts[i] \in Part /\ parts[i].text \in Seq(Delta) /\ i \in DOMAIN parts
  <2>1. parts[i] \in Part /\ i \in DOMAIN parts
    BY Sizes
  <2>2. QED
    BY <2>1 DEF Part
<1>2. ASSUME TextEnd
      PROVE  /\ currentText \in 1 .. Len(parts) /\ TrimEnd(textBuilder) \in Seq(Delta)
             /\ parts' = [parts EXCEPT ![currentText] =
                            Moved(currentText, "done", TrimEnd(textBuilder))]
  <2>1. currentText \in 1 .. Len(parts) /\ TrimEnd(textBuilder) \in Seq(Delta)
    BY <1>2, Sizes, Trimmed DEF ProcessorTypes, TextEnd
  <2> DEFINE p == parts[currentText]
             text == TrimEnd(textBuilder)
             done == "done"
  <2>2. p \in Part /\ currentText \in DOMAIN parts /\ done \in Status
    BY <1>1, <2>1 DEF Status
  <2>3. parts' = [parts EXCEPT ![currentText] = Closed(p, done, text)]
    BY <1>2, <2>2 DEF TextEnd, Part, Closed
  <2>4. Moved(currentText, done, text)
          = [kind |-> p.kind, key |-> p.key, status |-> done, text |-> text]
    BY DEF Moved
  <2>5. text \in Seq(Delta)
    BY <2>1
  <2> HIDE DEF p, text, done
  <2>6. Closed(p, done, text) = Moved(currentText, done, text)
    BY <2>2, <2>4, <2>5, Replaced
  <2>7. parts' = [parts EXCEPT ![currentText] = Moved(currentText, done, text)]
    BY <2>3, <2>6
  <2>8. QED
    BY <2>1, <2>7 DEF text, done
<1>3. ASSUME NEW id \in ReasoningIds, ReasoningEnd(id)
      PROVE  LET i == reasoningMap[id]
                 text == IF id \in DOMAIN reasoningBuf
                         THEN TrimEnd(reasoningBuf[id]) ELSE parts[i].text
             IN  /\ i \in 1 .. Len(parts) /\ text \in Seq(Delta)
                 /\ parts' = [parts EXCEPT ![i] = Moved(i, "done", text)]
  <2> DEFINE i == reasoningMap[id]
             text == IF id \in DOMAIN reasoningBuf
                     THEN TrimEnd(reasoningBuf[id]) ELSE parts[i].text
  <2>1. id \in DOMAIN reasoningMap /\ i \in 1 .. Len(parts)
    BY <1>3 DEF ProcessorTypes, ReasoningEnd
  <2>2. text \in Seq(Delta)
    <3>1. id \in DOMAIN reasoningBuf => reasoningBuf[id] \in Seq(Delta)
      BY DEF ProcessorTypes
    <3>2. QED
      BY <1>1, <2>1, <3>1, Trimmed
  <2> DEFINE p == parts[i]
             done == "done"
  <2>3. p \in Part /\ i \in DOMAIN parts /\ done \in Status
    BY <1>1, <2>1 DEF Status
  <2>4. parts' = [parts EXCEPT ![i] = Closed(p, done, text)]
    BY <1>3, <2>3 DEF ReasoningEnd, Part, Closed
  <2>5. Moved(i, done, text)
          = [kind |-> p.kind, key |-> p.key, status |-> done, text |-> text]
    BY DEF Moved
  <2> HIDE DEF i, p, text, done
  <2>6. Closed(p, done, text) = Moved(i, done, text)
    BY <2>2, <2>3, <2>5, Replaced
  <2>7. parts' = [parts EXCEPT ![i] = Moved(i, done, text)]
    BY <2>4, <2>6
  <2>8. QED
    BY <2>1, <2>2, <2>7 DEF i, p, text, done
<1>4. ASSUME NEW c \in CallIds, NEW status \in Status, c \in DOMAIN toolCalls,
             parts' = [parts EXCEPT ![toolCalls[c]].status = status]
      PROVE  LET i == toolCalls[c]
             IN  /\ i \in 1 .. Len(parts) /\ parts[i].text \in Seq(Delta)
                 /\ parts' = [parts EXCEPT ![i] = Moved(i, status, parts[i].text)]
  <2> DEFINE i == toolCalls[c]
             p == parts[i]
  <2>1. i \in 1 .. Len(parts) /\ i \in DOMAIN parts /\ p \in Part /\ p.text \in Seq(Delta)
    BY <1>1, <1>4 DEF ProcessorTypes
  <2>2. parts' = [parts EXCEPT ![i] = At(p, status)]
    BY <1>4, <2>1 DEF At
  <2>3. Moved(i, status, p.text)
          = [kind |-> p.kind, key |-> p.key, status |-> status, text |-> p.text]
    BY DEF Moved
  <2> HIDE DEF p
  <2>4. At(p, status) = Moved(i, status, p.text)
    BY <2>1, <2>3, Replaced
  <2>5. QED
    BY <2>1, <2>2, <2>4 DEF p
<1>5. QED
  BY <1>2, <1>3, <1>4

\* A part that moves stays a part of its kind, and the others stay as they are.
LEMMA MovedAt ==
    ASSUME ProcessorTypes, NEW i \in 1 .. Len(parts), NEW status \in Status, NEW text \in Seq(Delta),
           parts' = [parts EXCEPT ![i] = Moved(i, status, text)]
    PROVE  /\ parts' \in Seq(Part) /\ Len(parts') = Len(parts)
           /\ parts'[i].kind = parts[i].kind /\ parts'[i].key = parts[i].key
           /\ parts'[i].status = status /\ parts'[i].text = text
           /\ \A j \in 1 .. Len(parts) : j # i => parts'[j] = parts[j]
<1>1. Moved(i, status, text) \in Part
  <2>1. parts[i] \in Part
    BY Sizes
  <2>2. QED
    BY <2>1 DEF Part, Moved
<1>2. /\ parts' \in Seq(Part) /\ Len(parts') = Len(parts)
      /\ parts'[i] = Moved(i, status, text)
      /\ \A j \in 1 .. Len(parts) : j # i => parts'[j] = parts[j]
  BY <1>1, PartChanged
<1>3. QED
  BY <1>2 DEF Moved
-----------------------------------------------------------------------------
\* The types

LEMMA TypesInit == ProcessorInit => ProcessorTypes
<1>1. SUFFICES ASSUME ProcessorInit PROVE ProcessorTypes
  OBVIOUS
<1>2. /\ parts = <<>> /\ told = <<>> /\ textBuilder = <<>> /\ reasoningMap = <<>>
      /\ reasoningBuf = <<>> /\ toolCalls = <<>> /\ currentText = 0 /\ cut = {}
  BY <1>1 DEF ProcessorInit
<1>3. /\ \A T : <<>> \in Seq(T) /\ <<>> \in [DOMAIN <<>> -> T]
      /\ Len(<<>>) = 0 /\ DOMAIN <<>> = {}
  OBVIOUS
<1>4. QED
  BY <1>2, <1>3 DEF ProcessorTypes

\* A step that adds a part leaves the maps to the earlier ones in their range.
LEMMA Wider ==
    ASSUME ProcessorTypes
    PROVE  /\ Len(parts) + 1 \in 1 .. Len(parts) + 1
           /\ 1 .. Len(parts) \subseteq 1 .. Len(parts) + 1
           /\ 0 .. Len(parts) \subseteq 0 .. Len(parts) + 1
           /\ Len(parts) + 1 \notin 1 .. Len(parts)
           /\ \A i \in 1 .. Len(parts) + 1 : i = Len(parts) + 1 \/ i \in 1 .. Len(parts)
<1>1. Len(parts) \in Nat
  BY Sizes
<1>2. QED
  BY <1>1

LEMMA ProcessorTypesKept == ProcessorTypes /\ [ProcessorNext]_partsVars => ProcessorTypes'
<1>1. SUFFICES ASSUME ProcessorTypes, [ProcessorNext]_partsVars PROVE ProcessorTypes'
  OBVIOUS
<1> DEFINE n == Len(parts)
<1>2. CASE TextStart
  <2>1. AddPart(Started("text", "", "open")) /\ Started("text", "", "open") \in Part
    BY <1>2, StartedIsPart DEF TextStart
  <2>2. parts' \in Seq(Part) /\ Len(parts') = n + 1 /\ told' \in Seq(Seq(Delta)) /\ Len(told') = n + 1
    BY <1>1, <2>1, Added
  <2>3. /\ currentText' = n + 1 /\ textBuilder' = <<>>
        /\ cut' \subseteq cut \cup ({currentText} \ {0})
        /\ UNCHANGED <<reasoningMap, reasoningBuf, toolCalls>>
    BY <1>2 DEF TextStart, Next0
  <2>4. {currentText} \ {0} \subseteq 1 .. n
    BY <1>1, Sizes DEF ProcessorTypes
  <2>5. QED
    BY <1>1, <2>2, <2>3, <2>4, Wider DEF ProcessorTypes
<1>3. CASE TextEnd
  <2>1. /\ parts' = [parts EXCEPT ![currentText] =
                       Moved(currentText, "done", TrimEnd(textBuilder))]
        /\ currentText \in 1 .. n /\ TrimEnd(textBuilder) \in Seq(Delta) /\ "done" \in Status
    BY <1>1, <1>3, Moves DEF Status
  <2>2. parts' \in Seq(Part) /\ Len(parts') = n
    BY <1>1, <2>1, MovedAt
  <2>3. QED
    BY <1>1, <1>3, <2>2, Sizes DEF ProcessorTypes, TextEnd
<1>4. CASE Step
  <2>1. AddPart(Started("step", "", "done")) /\ Started("step", "", "done") \in Part
    BY <1>4, StartedIsPart DEF Step
  <2>2. parts' \in Seq(Part) /\ Len(parts') = n + 1 /\ told' \in Seq(Seq(Delta)) /\ Len(told') = n + 1
    BY <1>1, <2>1, Added
  <2>3. UNCHANGED <<tracking, cut>>
    BY <1>4 DEF Step
  <2>4. QED
    BY <1>1, <2>2, <2>3, Wider DEF ProcessorTypes, tracking
<1>5. CASE Finish
  <2>1. {reasoningMap[id] : id \in DOMAIN reasoningMap} \subseteq 1 .. n
    BY <1>1 DEF ProcessorTypes
  <2>2. (IF currentText = 0 THEN {} ELSE {currentText}) \subseteq 1 .. n
    BY <1>1, Sizes DEF ProcessorTypes
  <2>3. cut' \subseteq 1 .. n
    BY <1>1, <1>5, <2>1, <2>2 DEF Finish, ProcessorTypes
  <2>4. <<>> \in Seq(Delta) /\ <<>> \in [DOMAIN <<>> -> Seq(Delta)] /\ DOMAIN <<>> = {}
    OBVIOUS
  <2>5. QED
    BY <1>1, <1>5, <2>3, <2>4 DEF Finish, ProcessorTypes
<1>6. ASSUME NEW d \in Delta, TextDelta(d) PROVE ProcessorTypes'
  <2>1. currentText \in 1 .. n /\ told' = [told EXCEPT ![currentText] = Append(@, d)]
    BY <1>1, <1>6, Sizes DEF ProcessorTypes, TextDelta
  <2>2. told' \in Seq(Seq(Delta)) /\ Len(told') = n
    BY <1>1, <2>1, Told
  <2>3. textBuilder' \in Seq(Delta)
    BY <1>1, <1>6, AppendProperties DEF ProcessorTypes, TextDelta
  <2>4. QED
    BY <1>1, <1>6, <2>2, <2>3 DEF ProcessorTypes, TextDelta
<1>7. ASSUME NEW d \in Delta, NEW id \in ReasoningIds, ReasoningDelta(id, d) PROVE ProcessorTypes'
  <2>1. /\ reasoningMap[id] \in 1 .. n /\ id \in DOMAIN reasoningMap
        /\ told' = [told EXCEPT ![reasoningMap[id]] = Append(@, d)]
    BY <1>1, <1>7 DEF ProcessorTypes, ReasoningDelta
  <2>2. told' \in Seq(Seq(Delta)) /\ Len(told') = n
    BY <1>1, <2>1, Told
  <2>3. DOMAIN reasoningBuf' = DOMAIN reasoningBuf
    BY <1>7 DEF ReasoningDelta
  <2>4. reasoningBuf' \in [DOMAIN reasoningBuf -> Seq(Delta)]
    <3>1. reasoningBuf \in [DOMAIN reasoningBuf -> Seq(Delta)]
      BY <1>1 DEF ProcessorTypes
    <3>2. CASE id \notin DOMAIN reasoningBuf
      BY <1>7, <3>1, <3>2 DEF ReasoningDelta
    <3>3. CASE id \in DOMAIN reasoningBuf
      <4>1. Append(reasoningBuf[id], d) \in Seq(Delta)
        BY <3>1, <3>3, AppendProperties
      <4>2. reasoningBuf' = [reasoningBuf EXCEPT ![id] = Append(reasoningBuf[id], d)]
        BY <1>7, <3>3 DEF ReasoningDelta
      <4>3. QED
        BY <3>1, <4>1, <4>2
    <3>4. QED
      BY <3>2, <3>3
  <2>5. QED
    BY <1>1, <1>7, <2>2, <2>3, <2>4 DEF ProcessorTypes, ReasoningDelta
<1>8. ASSUME NEW id \in ReasoningIds, ReasoningStart(id) PROVE ProcessorTypes'
  <2>1. /\ AddPart(Started("reasoning", id, "open"))
        /\ Started("reasoning", id, "open") \in Part
    BY <1>8, StartedIsPart DEF ReasoningStart
  <2>2. parts' \in Seq(Part) /\ Len(parts') = n + 1 /\ told' \in Seq(Seq(Delta)) /\ Len(told') = n + 1
    BY <1>1, <2>1, Added
  <2>3. /\ reasoningMap' = With(reasoningMap, id, n + 1)
        /\ reasoningBuf' = With(reasoningBuf, id, <<>>) /\ <<>> \in Seq(Delta)
        /\ UNCHANGED <<currentText, textBuilder, toolCalls, cut>>
    BY <1>8 DEF ReasoningStart, Next0
  <2>4. /\ reasoningMap \in [DOMAIN reasoningMap -> 1 .. n + 1]
        /\ reasoningBuf \in [DOMAIN reasoningBuf -> Seq(Delta)]
    BY <1>1, Wider DEF ProcessorTypes
  <2>5. /\ DOMAIN reasoningMap' = DOMAIN reasoningMap \cup {id}
        /\ reasoningMap' \in [DOMAIN reasoningMap' -> 1 .. n + 1]
    BY <1>1, <2>3, <2>4, Wider, Extended
  <2>6. /\ DOMAIN reasoningBuf' = DOMAIN reasoningBuf \cup {id}
        /\ reasoningBuf' \in [DOMAIN reasoningBuf' -> Seq(Delta)]
    BY <2>3, <2>4, Extended
  <2>7. QED
    BY <1>1, <2>2, <2>3, <2>5, <2>6, Wider DEF ProcessorTypes
<1>9. ASSUME NEW id \in ReasoningIds, ReasoningEnd(id) PROVE ProcessorTypes'
  <2> DEFINE i == reasoningMap[id]
             text == IF id \in DOMAIN reasoningBuf
                     THEN TrimEnd(reasoningBuf[id]) ELSE parts[i].text
  <2>1. /\ parts' = [parts EXCEPT ![i] = Moved(i, "done", text)]
        /\ i \in 1 .. n /\ text \in Seq(Delta) /\ "done" \in Status
    BY <1>1, <1>9, Moves DEF Status
  <2> HIDE DEF i, text
  <2>2. parts' \in Seq(Part) /\ Len(parts') = n
    BY <1>1, <2>1, MovedAt
  <2>3. /\ reasoningMap' = Without(reasoningMap, id) /\ reasoningBuf' = Without(reasoningBuf, id)
        /\ UNCHANGED <<currentText, textBuilder, toolCalls, told, cut>>
    BY <1>9 DEF ReasoningEnd
  <2>4. /\ DOMAIN reasoningMap' = DOMAIN reasoningMap \ {id}
        /\ reasoningMap' \in [DOMAIN reasoningMap' -> 1 .. n]
    BY <1>1, <2>3, Reduced DEF ProcessorTypes
  <2>5. /\ DOMAIN reasoningBuf' = DOMAIN reasoningBuf \ {id}
        /\ reasoningBuf' \in [DOMAIN reasoningBuf' -> Seq(Delta)]
    BY <1>1, <2>3, Reduced DEF ProcessorTypes
  <2>6. QED
    BY <1>1, <2>2, <2>3, <2>4, <2>5 DEF ProcessorTypes
<1>10. ASSUME NEW c \in CallIds, ToolInputStart(c) PROVE ProcessorTypes'
  <2>1. AddPart(Started("tool", c, "pending")) /\ Started("tool", c, "pending") \in Part
    BY <1>10, StartedIsPart DEF ToolInputStart
  <2>2. parts' \in Seq(Part) /\ Len(parts') = n + 1 /\ told' \in Seq(Seq(Delta)) /\ Len(told') = n + 1
    BY <1>1, <2>1, Added
  <2>3. /\ toolCalls' = With(toolCalls, c, n + 1)
        /\ UNCHANGED <<currentText, textBuilder, reasoningMap, reasoningBuf, cut>>
    BY <1>10 DEF ToolInputStart, Next0
  <2>4. toolCalls \in [DOMAIN toolCalls -> 1 .. n + 1] /\ n + 1 \in 1 .. n + 1
    BY <1>1, Wider DEF ProcessorTypes
  <2>5. /\ DOMAIN toolCalls' = DOMAIN toolCalls \cup {c}
        /\ toolCalls' \in [DOMAIN toolCalls' -> 1 .. n + 1]
    <3> DEFINE T == 1 .. n + 1
    <3>1. toolCalls \in [DOMAIN toolCalls -> T] /\ n + 1 \in T
      BY <2>4
    <3> HIDE DEF T
    <3>2. /\ DOMAIN toolCalls' = DOMAIN toolCalls \cup {c}
          /\ toolCalls' \in [DOMAIN toolCalls' -> T]
      BY <2>3, <3>1, Extended
    <3>3. QED
      BY <3>2 DEF T
  <2>6. QED
    BY <1>1, <2>2, <2>3, <2>5, Wider DEF ProcessorTypes
<1>11. ASSUME NEW c \in CallIds, NEW status \in Status, c \in DOMAIN toolCalls,
              parts' = [parts EXCEPT ![toolCalls[c]].status = status]
       PROVE  parts' \in Seq(Part) /\ Len(parts') = n
  <2> DEFINE i == toolCalls[c]
             text == parts[i].text
  <2>1. /\ parts' = [parts EXCEPT ![i] = Moved(i, status, text)]
        /\ i \in 1 .. n /\ text \in Seq(Delta)
    BY <1>1, <1>11, Moves
  <2> HIDE DEF i, text
  <2>2. QED
    BY <1>1, <2>1, MovedAt
<1>12. ASSUME NEW c \in CallIds, ToolCall(c) PROVE ProcessorTypes'
  <2>1. "running" \in Status
    BY DEF Status
  <2>2. parts' \in Seq(Part) /\ Len(parts') = n
    BY <1>11, <1>12, <2>1 DEF ToolCall
  <2>3. QED
    BY <1>1, <1>12, <2>2 DEF ToolCall, ProcessorTypes, tracking
<1>13. ASSUME NEW c \in CallIds, ToolResult(c) \/ ToolError(c) PROVE ProcessorTypes'
  <2>1. PICK status \in Status : c \in DOMAIN toolCalls /\ Over(c, status)
    BY <1>13 DEF ToolResult, ToolError, Status
  <2>2. parts' \in Seq(Part) /\ Len(parts') = n
    BY <1>11, <2>1 DEF Over
  <2>3. /\ toolCalls' = Without(toolCalls, c)
        /\ UNCHANGED <<currentText, textBuilder, reasoningMap, reasoningBuf, told, cut>>
    BY <2>1 DEF Over
  <2>4. /\ DOMAIN toolCalls' = DOMAIN toolCalls \ {c}
        /\ toolCalls' \in [DOMAIN toolCalls' -> 1 .. n]
    BY <1>1, <2>3, Reduced DEF ProcessorTypes
  <2>5. QED
    BY <1>1, <2>2, <2>3, <2>4 DEF ProcessorTypes
<1>14. CASE UNCHANGED partsVars
  BY <1>1, <1>14 DEF ProcessorTypes, partsVars
<1>15. QED
  BY <1>1, <1>2, <1>3, <1>4, <1>5, <1>6, <1>7, <1>8, <1>9, <1>10, <1>12, <1>13, <1>14
     DEF ProcessorNext

\* The list of parts keeps its bound.
Fits == Len(parts) <= MaxParts

LEMMA Bounded ==
    ASSUME MaxParts \in Nat
    PROVE  ProcessorTypes /\ Fits /\ [ProcessorNext]_partsVars => Fits'
<1>1. SUFFICES ASSUME ProcessorTypes, Len(parts) <= MaxParts, [ProcessorNext]_partsVars PROVE Len(parts') <= MaxParts
  BY DEF Fits
<1>2. ASSUME NEW p \in Part, AddPart(p) PROVE Len(parts') <= MaxParts
  <2>1. Len(parts') = Len(parts) + 1 /\ Len(parts) < MaxParts /\ Len(parts) \in Nat
    BY <1>1, <1>2, Added, Sizes DEF AddPart
  <2>2. QED
    BY <2>1
<1>3. CASE TextStart \/ Step
  BY <1>2, <1>3, StartedIsPart DEF TextStart, Step
<1>4. ASSUME NEW id \in ReasoningIds, ReasoningStart(id) PROVE Len(parts') <= MaxParts
  BY <1>2, <1>4, StartedIsPart DEF ReasoningStart
<1>5. ASSUME NEW c \in CallIds, ToolInputStart(c) PROVE Len(parts') <= MaxParts
  BY <1>2, <1>5, StartedIsPart DEF ToolInputStart
<1>6. CASE DOMAIN parts' = DOMAIN parts
  <2>1. parts \in Seq(Part) /\ parts' \in Seq(Part)
    BY <1>1, ProcessorTypesKept DEF ProcessorTypes
  <2>2. /\ DOMAIN parts = 1 .. Len(parts) /\ DOMAIN parts' = 1 .. Len(parts')
        /\ Len(parts) \in Nat /\ Len(parts') \in Nat
    BY <2>1, LenProperties
  <2>3. Len(parts') = Len(parts)
    BY <1>6, <2>2
  <2>4. QED
    BY <1>1, <2>3
<1>7. ASSUME NEW id \in ReasoningIds, ReasoningEnd(id) PROVE DOMAIN parts' = DOMAIN parts
  BY <1>7 DEF ReasoningEnd
<1>8. ASSUME NEW c \in CallIds, ToolCall(c) \/ ToolResult(c) \/ ToolError(c)
      PROVE  DOMAIN parts' = DOMAIN parts
  BY <1>8 DEF ToolCall, ToolResult, ToolError, Over
<1>9. TextEnd \/ Finish => DOMAIN parts' = DOMAIN parts
  BY DEF TextEnd, Finish
<1>10. ASSUME NEW d \in Delta, TextDelta(d) \/ \E id \in ReasoningIds : ReasoningDelta(id, d)
       PROVE  DOMAIN parts' = DOMAIN parts
  BY <1>10 DEF TextDelta, ReasoningDelta
<1>11. UNCHANGED partsVars => DOMAIN parts' = DOMAIN parts
  BY DEF partsVars
<1>12. QED
  BY <1>1, <1>3, <1>4, <1>5, <1>6, <1>7, <1>8, <1>9, <1>10, <1>11 DEF ProcessorNext

LEMMA TypesHold == ProcessorSpec => []ProcessorTypes
<1>1. QED
  BY TypesInit, ProcessorTypesKept, PTL DEF ProcessorSpec

\* The parts, the builders and the maps have their types, and the list its bound: every index
\* in CurrentText, ReasoningMap and ToolCalls is a part (processor.go:14).
THEOREM ProcessorTypeCorrect == ProcessorSpec => []ProcessorTypeOK
<1>1. ProcessorInit => Fits
  BY ProcessorAssumption DEF ProcessorInit, Fits
<1>2. ProcessorTypes /\ Fits => ProcessorTypeOK
  <2>1. SUFFICES ASSUME ProcessorTypes, Len(parts) <= MaxParts PROVE ProcessorTypeOK
    BY DEF Fits
  <2>2. Part = [kind : {"text", "reasoning", "tool", "step"},
                key : ReasoningIds \cup CallIds \cup {""},
                status : Status, text : Seq(Delta)]
    BY DEF Part, Keys
  <2>3. DOMAIN parts = 1 .. Len(parts)
    BY <2>1, Sizes
  <2>4. QED
    BY <2>1, <2>2, <2>3 DEF ProcessorTypeOK, ProcessorTypes, Index
<1>3. ProcessorTypes /\ Fits /\ [ProcessorNext]_partsVars => Fits'
  BY Bounded, ProcessorAssumption
<1>4. QED
  BY <1>1, <1>2, <1>3, TypesHold, PTL DEF ProcessorSpec

-----------------------------------------------------------------------------
\* The maps and the open parts

Begun == {"pending", "running"}

\* CurrentText and the maps lead to open parts of their kind ...
Current ==
    currentText # 0 =>
      /\ parts[currentText].kind = "text" /\ parts[currentText].status = "open"
      /\ \A j \in 1 .. Len(parts) : j > currentText => parts[j].kind # "text"
Mapped ==
    /\ \A id \in DOMAIN reasoningMap :
         /\ parts[reasoningMap[id]].kind = "reasoning" /\ parts[reasoningMap[id]].key = id
         /\ parts[reasoningMap[id]].status = "open"
    /\ \A c \in DOMAIN toolCalls :
         /\ parts[toolCalls[c]].kind = "tool" /\ parts[toolCalls[c]].key = c
         /\ parts[toolCalls[c]].status \in Begun

\* ... and each open reasoning and each tool call that has begun is in its map.
Listed(i) ==
    /\ parts[i].kind = "reasoning" /\ parts[i].status = "open" =>
         parts[i].key \in DOMAIN reasoningMap /\ reasoningMap[parts[i].key] = i
    /\ parts[i].kind = "tool" /\ parts[i].status \in Begun =>
         parts[i].key \in DOMAIN toolCalls /\ toolCalls[parts[i].key] = i
    /\ parts[i].status = "open" => parts[i].text = <<>> /\ parts[i].kind # "tool"
    /\ parts[i].kind = "step" => parts[i].status = "done"
    /\ parts[i].status \in Begun => parts[i].kind = "tool"

Tracks == Current /\ Mapped /\ \A i \in 1 .. Len(parts) : Listed(i)

\* A part that is added keeps what is known of the others.
LEMMA TracksAdded ==
    ASSUME ProcessorTypes, Tracks, NEW p \in Part, AddPart(p), p.text = <<>>, ProcessorTypes',
           \/ /\ p.kind = "text" /\ p.status = "open"
              /\ currentText' = Len(parts) + 1 /\ UNCHANGED <<reasoningMap, toolCalls>>
           \/ /\ p.kind = "step" /\ p.status = "done"
              /\ UNCHANGED <<currentText, reasoningMap, toolCalls>>
           \/ /\ p.kind = "reasoning" /\ p.status = "open" /\ p.key \notin DOMAIN reasoningMap
              /\ reasoningMap' = With(reasoningMap, p.key, Len(parts) + 1)
              /\ UNCHANGED <<currentText, toolCalls>>
           \/ /\ p.kind = "tool" /\ p.status = "pending" /\ p.key \notin DOMAIN toolCalls
              /\ toolCalls' = With(toolCalls, p.key, Len(parts) + 1)
              /\ UNCHANGED <<currentText, reasoningMap>>
    PROVE  Tracks'
<1> DEFINE n == Len(parts)
<1>1. /\ Len(parts') = n + 1 /\ parts'[n + 1] = p /\ n \in Nat
      /\ \A i \in 1 .. n : parts'[i] = parts[i]
      /\ n + 1 \notin 1 .. n
      /\ \A i \in 1 .. Len(parts') : i = n + 1 \/ i \in 1 .. n
  BY Added, Sizes, Wider
<1>2. /\ reasoningMap \in [DOMAIN reasoningMap -> 1 .. n] /\ toolCalls \in [DOMAIN toolCalls -> 1 .. n]
      /\ currentText \in 0 .. n
  BY DEF ProcessorTypes
<1> HIDE DEF n
<1>3. Current'
  <2>1. CASE p.kind = "text"
    <3>1. currentText' = n + 1 /\ p.status = "open"
      BY <2>1 DEF n
    <3>2. \A j \in 1 .. Len(parts') : ~(j > n + 1)
      BY <1>1
    <3>3. QED
      BY <1>1, <2>1, <3>1, <3>2 DEF Current
  <2>2. CASE p.kind # "text"
    <3>1. currentText' = currentText
      BY <2>2
    <3>2. currentText # 0 => currentText \in 1 .. n
      BY <1>1, <1>2
    <3>3. SUFFICES ASSUME currentText # 0
                   PROVE  /\ parts'[currentText].kind = "text"
                          /\ parts'[currentText].status = "open"
                          /\ \A j \in 1 .. Len(parts') :
                               j > currentText => parts'[j].kind # "text"
      BY <3>1 DEF Current
    <3>4. /\ parts'[currentText] = parts[currentText] /\ parts[currentText].kind = "text"
          /\ parts[currentText].status = "open"
      BY <1>1, <3>2, <3>3 DEF Current, Tracks
    <3>5. ASSUME NEW j \in 1 .. Len(parts'), j > currentText PROVE parts'[j].kind # "text"
      <4>1. CASE j = n + 1
        BY <1>1, <2>2, <4>1
      <4>2. CASE j \in 1 .. n
        BY <1>1, <3>3, <3>5, <4>2 DEF Current, Tracks, n
      <4>3. QED
        BY <1>1, <4>1, <4>2
    <3>6. QED
      BY <3>4, <3>5
  <2>3. QED
    BY <2>1, <2>2
<1>4. ASSUME NEW id \in DOMAIN reasoningMap'
      PROVE  \/ id \in DOMAIN reasoningMap /\ reasoningMap'[id] = reasoningMap[id]
             \/ id = p.key /\ reasoningMap'[id] = n + 1 /\ p.kind = "reasoning" /\ p.status = "open"
  BY DEF With, n
<1>5. ASSUME NEW c \in DOMAIN toolCalls'
      PROVE  \/ c \in DOMAIN toolCalls /\ toolCalls'[c] = toolCalls[c]
             \/ c = p.key /\ toolCalls'[c] = n + 1 /\ p.kind = "tool" /\ p.status = "pending"
  BY DEF With, n
<1>6. Mapped'
  <2>1. ASSUME NEW id \in DOMAIN reasoningMap'
        PROVE  /\ parts'[reasoningMap'[id]].kind = "reasoning"
               /\ parts'[reasoningMap'[id]].key = id /\ parts'[reasoningMap'[id]].status = "open"
    BY <1>1, <1>2, <1>4 DEF Tracks, Mapped
  <2>2. ASSUME NEW c \in DOMAIN toolCalls'
        PROVE  /\ parts'[toolCalls'[c]].kind = "tool" /\ parts'[toolCalls'[c]].key = c
               /\ parts'[toolCalls'[c]].status \in Begun
    BY <1>1, <1>2, <1>5 DEF Tracks, Mapped, Begun
  <2>3. QED
    BY <2>1, <2>2 DEF Mapped
<1>7. /\ \A id \in DOMAIN reasoningMap : id \in DOMAIN reasoningMap' /\ reasoningMap'[id] = reasoningMap[id]
      /\ \A c \in DOMAIN toolCalls : c \in DOMAIN toolCalls' /\ toolCalls'[c] = toolCalls[c]
  BY DEF With
<1>8. ASSUME NEW i \in 1 .. Len(parts') PROVE Listed(i)'
  <2>1. CASE i \in 1 .. n
    <3>1. parts'[i] = parts[i] /\ Listed(i)
      BY <1>1, <2>1 DEF Tracks, n
    <3>2. QED
      BY <1>7, <3>1 DEF Listed
  <2>2. CASE i = n + 1
    <3>1. parts'[i] = p
      BY <1>1, <2>2
    <3>2. p.kind = "reasoning" => p.key \in DOMAIN reasoningMap' /\ reasoningMap'[p.key] = i
      BY <2>2 DEF With, n
    <3>3. p.kind = "tool" => p.key \in DOMAIN toolCalls' /\ toolCalls'[p.key] = i
      BY <2>2 DEF With, n
    <3>4. p.kind = "tool" => p.status # "open"
      OBVIOUS
    <3>5. p.status \in Begun => p.kind = "tool"
      BY DEF Begun
    <3>6. QED
      BY <3>1, <3>2, <3>3, <3>4, <3>5 DEF Listed
  <2>3. QED
    BY <1>1, <1>8, <2>1, <2>2
<1>9. QED
  BY <1>3, <1>6, <1>8 DEF Tracks

\* A part that moves keeps what is known of the others.
LEMMA TracksMoved ==
    ASSUME ProcessorTypes, Tracks, NEW i \in 1 .. Len(parts), NEW status \in Status,
           NEW text \in Seq(Delta), parts' = [parts EXCEPT ![i] = Moved(i, status, text)],
           \/ /\ i = currentText /\ status = "done"
              /\ currentText' = 0 /\ UNCHANGED <<reasoningMap, toolCalls>>
           \/ /\ parts[i].kind = "reasoning" /\ status = "done"
              /\ reasoningMap[parts[i].key] = i
              /\ reasoningMap' = Without(reasoningMap, parts[i].key)
              /\ UNCHANGED <<currentText, toolCalls>>
           \/ /\ parts[i].kind = "tool" /\ parts[i].status \in Begun /\ status = "running"
              /\ UNCHANGED <<currentText, reasoningMap, toolCalls>>
           \/ /\ parts[i].kind = "tool" /\ status \in {"completed", "error"}
              /\ toolCalls[parts[i].key] = i
              /\ toolCalls' = Without(toolCalls, parts[i].key)
              /\ UNCHANGED <<currentText, reasoningMap>>
    PROVE  Tracks'
<1> DEFINE n == Len(parts)
<1>1. /\ Len(parts') = n /\ n \in Nat
      /\ parts'[i].kind = parts[i].kind /\ parts'[i].key = parts[i].key
      /\ parts'[i].status = status
      /\ \A j \in 1 .. n : j # i => parts'[j] = parts[j]
  BY MovedAt, Sizes
<1>2. /\ reasoningMap \in [DOMAIN reasoningMap -> 1 .. n] /\ toolCalls \in [DOMAIN toolCalls -> 1 .. n]
      /\ currentText \in 0 .. n
  BY DEF ProcessorTypes
<1>3. \A j \in 1 .. n : parts'[j].kind = parts[j].kind /\ parts'[j].key = parts[j].key
  BY <1>1
<1> HIDE DEF n
<1>4. Current'
  <2>1. CASE i = currentText /\ currentText' = 0
    BY <2>1 DEF Current
  <2>2. CASE i # currentText /\ currentText' = currentText
    <3>1. SUFFICES ASSUME currentText # 0
                   PROVE  /\ parts'[currentText].kind = "text"
                          /\ parts'[currentText].status = "open"
                          /\ \A j \in 1 .. Len(parts') :
                               j > currentText => parts'[j].kind # "text"
      BY <2>2 DEF Current
    <3>2. currentText \in 1 .. n
      BY <1>1, <1>2, <3>1
    <3>3. /\ parts'[currentText] = parts[currentText] /\ parts[currentText].kind = "text"
          /\ parts[currentText].status = "open"
      BY <1>1, <2>2, <3>1, <3>2 DEF Current, Tracks
    <3>4. ASSUME NEW j \in 1 .. Len(parts'), j > currentText PROVE parts'[j].kind # "text"
      BY <1>1, <1>3, <3>1, <3>4 DEF Current, Tracks, n
    <3>5. QED
      BY <3>3, <3>4
  <2>3. parts[i].kind # "text" => i # currentText
    BY DEF Current, Tracks, n
  <2>4. QED
    BY <1>1, <2>1, <2>2, <2>3
<1>5. ASSUME NEW id \in DOMAIN reasoningMap'
      PROVE  /\ id \in DOMAIN reasoningMap /\ reasoningMap'[id] = reasoningMap[id]
             /\ reasoningMap[id] # i
  <2>1. parts[currentText].kind # "reasoning" \/ i # currentText
    BY <1>1, <1>2 DEF Current, Tracks, n
  <2>2. id \in DOMAIN reasoningMap /\ reasoningMap'[id] = reasoningMap[id]
    BY DEF Without
  <2>3. CASE parts[i].kind = "reasoning"
    <3>1. DOMAIN reasoningMap' = DOMAIN reasoningMap \ {parts[i].key}
      BY <2>1, <2>3 DEF Without
    <3>2. parts[reasoningMap[id]].key = id /\ id # parts[i].key
      BY <2>2, <3>1 DEF Tracks, Mapped
    <3>3. QED
      BY <2>2, <3>2
  <2>4. CASE parts[i].kind # "reasoning"
    BY <2>2, <2>4 DEF Tracks, Mapped
  <2>5. QED
    BY <2>3, <2>4
<1>6. ASSUME NEW c \in DOMAIN toolCalls'
      PROVE  /\ c \in DOMAIN toolCalls /\ toolCalls'[c] = toolCalls[c]
             /\ toolCalls[c] # i \/ status = "running"
  <2>1. parts[currentText].kind # "tool" \/ i # currentText
    BY <1>1, <1>2 DEF Current, Tracks, n
  <2>2. c \in DOMAIN toolCalls /\ toolCalls'[c] = toolCalls[c]
    BY DEF Without
  <2>3. CASE parts[i].kind = "tool" /\ status # "running"
    <3>1. DOMAIN toolCalls' = DOMAIN toolCalls \ {parts[i].key}
      BY <2>1, <2>3 DEF Without
    <3>2. parts[toolCalls[c]].key = c /\ c # parts[i].key
      BY <2>2, <3>1 DEF Tracks, Mapped
    <3>3. QED
      BY <2>2, <3>2
  <2>4. CASE parts[i].kind # "tool" \/ status = "running"
    BY <2>2, <2>4 DEF Tracks, Mapped
  <2>5. QED
    BY <2>3, <2>4
<1>7. Mapped'
  <2>1. ASSUME NEW id \in DOMAIN reasoningMap'
        PROVE  /\ parts'[reasoningMap'[id]].kind = "reasoning"
               /\ parts'[reasoningMap'[id]].key = id /\ parts'[reasoningMap'[id]].status = "open"
    BY <1>1, <1>2, <1>5 DEF Tracks, Mapped
  <2>2. ASSUME NEW c \in DOMAIN toolCalls'
        PROVE  /\ parts'[toolCalls'[c]].kind = "tool" /\ parts'[toolCalls'[c]].key = c
               /\ parts'[toolCalls'[c]].status \in Begun
    <3>1. /\ toolCalls'[c] \in 1 .. n /\ parts[toolCalls'[c]].kind = "tool"
          /\ parts[toolCalls'[c]].key = c /\ parts[toolCalls'[c]].status \in Begun
      BY <1>2, <1>6 DEF Tracks, Mapped
    <3>2. parts'[toolCalls'[c]].status \in Begun
      BY <1>1, <1>6, <3>1 DEF Begun
    <3>3. QED
      BY <1>3, <3>1, <3>2
  <2>3. QED
    BY <2>1, <2>2 DEF Mapped
<1>8. ASSUME NEW j \in 1 .. Len(parts') PROVE Listed(j)'
  <2>1. j \in 1 .. n /\ Listed(j)
    BY <1>1 DEF Tracks, n
  <2>2. CASE j = i
    <3>1. parts'[j].status = status /\ status # "open"
      BY <1>1, <2>2
    <3>2. parts'[j].kind = "step" => status = "done"
      BY <1>1, <2>1, <2>2 DEF Listed, Tracks, Current, n
    <3>3. parts'[j].kind = "tool" /\ status \in Begun =>
            parts'[j].key \in DOMAIN toolCalls' /\ toolCalls'[parts'[j].key] = j
      BY <1>1, <2>1, <2>2 DEF Listed, Begun
    <3>4. status \in Begun => parts'[j].kind = "tool"
      BY <1>1, <2>2 DEF Begun
    <3>5. QED
      BY <3>1, <3>2, <3>3, <3>4 DEF Listed
  <2>3. CASE j # i
    <3>1. parts'[j] = parts[j]
      BY <1>1, <2>1, <2>3
    <3>2. parts[j].kind = "reasoning" /\ parts[j].status = "open" =>
            parts[j].key \in DOMAIN reasoningMap' /\ reasoningMap'[parts[j].key] = j
      <4>1. SUFFICES ASSUME parts[j].kind = "reasoning", parts[j].status = "open"
                     PROVE  parts[j].key \in DOMAIN reasoningMap' /\ reasoningMap'[parts[j].key] = j
        OBVIOUS
      <4>2. parts[j].key \in DOMAIN reasoningMap /\ reasoningMap[parts[j].key] = j
        BY <2>1, <4>1 DEF Listed
      <4>3. CASE UNCHANGED reasoningMap
        BY <4>2, <4>3
      <4>4. CASE reasoningMap' = Without(reasoningMap, parts[i].key) /\ parts[i].kind = "reasoning"
        <5>1. parts[i].key # parts[j].key
          <6>1. reasoningMap[parts[i].key] = i
            BY <1>1, <1>2, <4>4 DEF Current, Tracks, n
          <6>2. QED
            BY <2>3, <4>2, <6>1
        <5>2. QED
          BY <4>2, <4>4, <5>1 DEF Without
      <4>5. QED
        BY <4>3, <4>4
    <3>3. parts[j].kind = "tool" /\ parts[j].status \in Begun =>
            parts[j].key \in DOMAIN toolCalls' /\ toolCalls'[parts[j].key] = j
      <4>1. SUFFICES ASSUME parts[j].kind = "tool", parts[j].status \in Begun
                     PROVE  parts[j].key \in DOMAIN toolCalls' /\ toolCalls'[parts[j].key] = j
        OBVIOUS
      <4>2. parts[j].key \in DOMAIN toolCalls /\ toolCalls[parts[j].key] = j
        BY <2>1, <4>1 DEF Listed
      <4>3. CASE UNCHANGED toolCalls
        BY <4>2, <4>3
      <4>4. CASE /\ toolCalls' = Without(toolCalls, parts[i].key)
                 /\ toolCalls[parts[i].key] = i
        BY <2>3, <4>2, <4>4 DEF Without
      <4>5. QED
        BY <4>3, <4>4
    <3>4. QED
      BY <2>1, <3>1, <3>2, <3>3 DEF Listed
  <2>4. QED
    BY <2>2, <2>3
<1>9. QED
  BY <1>4, <1>7, <1>8 DEF Tracks

\* Each action on one part, as the lemmas above take it
LEMMA EndOfReasoning ==
    ASSUME ProcessorTypes, Tracks, NEW id \in ReasoningIds, ReasoningEnd(id)
    PROVE  LET i == reasoningMap[id]
               text == IF id \in DOMAIN reasoningBuf
                       THEN TrimEnd(reasoningBuf[id]) ELSE parts[i].text
           IN  /\ i \in 1 .. Len(parts) /\ text \in Seq(Delta) /\ "done" \in Status
               /\ parts' = [parts EXCEPT ![i] = Moved(i, "done", text)]
               /\ parts[i].kind = "reasoning" /\ parts[i].key = id /\ parts[i].status = "open"
               /\ reasoningMap' = Without(reasoningMap, parts[i].key)
               /\ UNCHANGED <<currentText, toolCalls>>
<1>1. /\ id \in DOMAIN reasoningMap /\ reasoningMap' = Without(reasoningMap, id)
      /\ UNCHANGED <<currentText, toolCalls>>
  BY DEF ReasoningEnd
<1>2. /\ parts[reasoningMap[id]].kind = "reasoning" /\ parts[reasoningMap[id]].key = id
      /\ parts[reasoningMap[id]].status = "open"
  BY <1>1 DEF Tracks, Mapped
<1>3. "done" \in Status
  BY DEF Status
<1>4. QED
  BY <1>1, <1>2, <1>3, Moves

\* The status a tool call goes to
LEMMA ToolMoves ==
    ASSUME ProcessorTypes, Tracks, NEW c \in CallIds, ToolCall(c) \/ ToolResult(c) \/ ToolError(c)
    PROVE  LET i == toolCalls[c]
               text == parts[i].text
           IN  /\ i \in 1 .. Len(parts) /\ text \in Seq(Delta)
               /\ parts[i].kind = "tool" /\ parts[i].key = c /\ parts[i].status \in Begun
               /\ \E status \in Status :
                    /\ parts' = [parts EXCEPT ![i] = Moved(i, status, text)]
                    /\ \/ status = "running" /\ UNCHANGED <<currentText, reasoningMap, toolCalls>>
                       \/ /\ status \in {"completed", "error"}
                          /\ status = "completed" => parts[i].status = "running"
                          /\ toolCalls' = Without(toolCalls, parts[i].key)
                          /\ UNCHANGED <<currentText, reasoningMap>>
               /\ UNCHANGED <<textBuilder, reasoningBuf, told, cut>>
<1> DEFINE i == toolCalls[c]
           text == parts[i].text
<1>1. c \in DOMAIN toolCalls
  BY DEF ToolCall, ToolResult, ToolError
<1>2. parts[i].kind = "tool" /\ parts[i].key = c /\ parts[i].status \in Begun
  BY <1>1 DEF Tracks, Mapped
<1>3. /\ \A status \in Status :
           parts' = [parts EXCEPT ![toolCalls[c]].status = status]
           => parts' = [parts EXCEPT ![i] = Moved(i, status, text)]
      /\ i \in 1 .. Len(parts) /\ text \in Seq(Delta)
  <2>1. \A status \in Status :
           parts' = [parts EXCEPT ![toolCalls[c]].status = status]
           => parts' = [parts EXCEPT ![i] = Moved(i, status, text)]
    BY <1>1, Moves
  <2>2. i \in 1 .. Len(parts) /\ parts[i] \in Part
    BY <1>1, Sizes DEF ProcessorTypes
  <2>3. text \in Seq(Delta)
    BY <2>2 DEF Part
  <2>4. QED
    BY <2>1, <2>2, <2>3
<1>4. "running" \in Status /\ "completed" \in Status /\ "error" \in Status
  BY DEF Status
<1> HIDE DEF i, text
<1>5. CASE ToolCall(c)
  BY <1>2, <1>3, <1>4, <1>5 DEF ToolCall, tracking, i, text
<1>6. CASE ToolResult(c)
  BY <1>2, <1>3, <1>4, <1>6 DEF ToolResult, Over, i, text
<1>7. CASE ToolError(c)
  BY <1>2, <1>3, <1>4, <1>7 DEF ToolError, Over, i, text
<1>8. QED
  BY <1>5, <1>6, <1>7

LEMMA TracksKept == ProcessorTypes /\ Tracks /\ [ProcessorNext]_partsVars => Tracks'
<1>1. SUFFICES ASSUME ProcessorTypes, Tracks, [ProcessorNext]_partsVars PROVE Tracks'
  OBVIOUS
<1>2. ProcessorTypes'
  BY <1>1, ProcessorTypesKept
<1>3. CASE TextStart
  <2> DEFINE p == Started("text", "", "open")
  <2>1. AddPart(p) /\ p \in Part /\ p.text = <<>> /\ p.kind = "text" /\ p.status = "open"
    BY <1>3, StartedIsPart DEF TextStart, Started
  <2>2. currentText' = Len(parts) + 1 /\ UNCHANGED <<reasoningMap, toolCalls>>
    BY <1>3 DEF TextStart, Next0
  <2> HIDE DEF p
  <2>3. QED
    BY <1>1, <1>2, <2>1, <2>2, TracksAdded
<1>4. CASE Step
  <2> DEFINE p == Started("step", "", "done")
  <2>1. AddPart(p) /\ p \in Part /\ p.text = <<>> /\ p.kind = "step" /\ p.status = "done"
    BY <1>4, StartedIsPart DEF Step, Started
  <2>2. UNCHANGED <<currentText, reasoningMap, toolCalls>>
    BY <1>4 DEF Step, tracking
  <2> HIDE DEF p
  <2>3. QED
    BY <1>1, <1>2, <2>1, <2>2, TracksAdded
<1>5. ASSUME NEW id \in ReasoningIds, ReasoningStart(id) PROVE Tracks'
  <2> DEFINE p == Started("reasoning", id, "open")
  <2>1. /\ AddPart(p) /\ p \in Part /\ p.text = <<>> /\ p.kind = "reasoning" /\ p.status = "open"
        /\ p.key = id
    BY <1>5, StartedIsPart DEF ReasoningStart, Started
  <2>2. /\ id \notin DOMAIN reasoningMap /\ reasoningMap' = With(reasoningMap, id, Len(parts) + 1)
        /\ UNCHANGED <<currentText, toolCalls>>
    BY <1>5 DEF ReasoningStart, Next0
  <2> HIDE DEF p
  <2>3. QED
    BY <1>1, <1>2, <2>1, <2>2, TracksAdded
<1>6. ASSUME NEW c \in CallIds, ToolInputStart(c) PROVE Tracks'
  <2> DEFINE p == Started("tool", c, "pending")
  <2>1. /\ AddPart(p) /\ p \in Part /\ p.text = <<>> /\ p.kind = "tool" /\ p.status = "pending"
        /\ p.key = c
    BY <1>6, StartedIsPart DEF ToolInputStart, Started
  <2>2. /\ c \notin DOMAIN toolCalls /\ toolCalls' = With(toolCalls, c, Len(parts) + 1)
        /\ UNCHANGED <<currentText, reasoningMap>>
    BY <1>6 DEF ToolInputStart, Next0
  <2> HIDE DEF p
  <2>3. QED
    BY <1>1, <1>2, <2>1, <2>2, TracksAdded
<1>7. CASE TextEnd
  <2> DEFINE text == TrimEnd(textBuilder)
  <2>1. /\ parts' = [parts EXCEPT ![currentText] = Moved(currentText, "done", text)]
        /\ currentText \in 1 .. Len(parts) /\ text \in Seq(Delta) /\ "done" \in Status
    BY <1>1, <1>7, Moves DEF Status
  <2>2. currentText' = 0 /\ UNCHANGED <<reasoningMap, toolCalls>>
    BY <1>7 DEF TextEnd
  <2> HIDE DEF text
  <2>3. QED
    BY <1>1, <2>1, <2>2, TracksMoved
<1>8. ASSUME NEW id \in ReasoningIds, ReasoningEnd(id) PROVE Tracks'
  <2> DEFINE i == reasoningMap[id]
             text == IF id \in DOMAIN reasoningBuf
                     THEN TrimEnd(reasoningBuf[id]) ELSE parts[i].text
  <2>1. /\ i \in 1 .. Len(parts) /\ text \in Seq(Delta) /\ "done" \in Status
        /\ parts' = [parts EXCEPT ![i] = Moved(i, "done", text)]
        /\ parts[i].kind = "reasoning" /\ parts[i].key = id
        /\ reasoningMap' = Without(reasoningMap, parts[i].key)
        /\ UNCHANGED <<currentText, toolCalls>>
    BY <1>1, <1>8, EndOfReasoning
  <2>2. reasoningMap[parts[i].key] = i
    BY <2>1
  <2> HIDE DEF i, text
  <2>3. QED
    BY <1>1, <2>1, <2>2, TracksMoved
<1>9. ASSUME NEW c \in CallIds, ToolCall(c) \/ ToolResult(c) \/ ToolError(c) PROVE Tracks'
  <2> DEFINE i == toolCalls[c]
             text == parts[i].text
  <2>1. /\ i \in 1 .. Len(parts) /\ text \in Seq(Delta)
        /\ parts[i].kind = "tool" /\ parts[i].key = c /\ parts[i].status \in Begun
    BY <1>1, <1>9, ToolMoves
  <2>2. PICK status \in Status :
          /\ parts' = [parts EXCEPT ![i] = Moved(i, status, text)]
          /\ \/ status = "running" /\ UNCHANGED <<currentText, reasoningMap, toolCalls>>
             \/ /\ status \in {"completed", "error"}
                /\ toolCalls' = Without(toolCalls, parts[i].key)
                /\ UNCHANGED <<currentText, reasoningMap>>
    BY <1>1, <1>9, ToolMoves
  <2>3. toolCalls[parts[i].key] = i
    BY <2>1
  <2> HIDE DEF i, text
  <2>4. QED
    BY <1>1, <2>1, <2>2, <2>3, TracksMoved
<1>10. ASSUME UNCHANGED <<parts, currentText, reasoningMap, toolCalls>> PROVE Tracks'
  BY <1>1, <1>10 DEF Tracks, Current, Mapped, Listed
<1>11. ASSUME NEW d \in Delta, TextDelta(d) \/ \E id \in ReasoningIds : ReasoningDelta(id, d)
       PROVE  Tracks'
  BY <1>10, <1>11 DEF TextDelta, ReasoningDelta
<1>12. CASE Finish \/ UNCHANGED partsVars
  BY <1>10, <1>12 DEF Finish, partsVars
<1>13. QED
  BY <1>1, <1>3, <1>4, <1>5, <1>6, <1>7, <1>8, <1>9, <1>11, <1>12 DEF ProcessorNext

LEMMA TracksHold == ProcessorSpec => [](ProcessorTypes /\ Tracks)
<1>1. ProcessorInit => Tracks
  <2>1. SUFFICES ASSUME ProcessorInit PROVE Tracks
    OBVIOUS
  <2>2. parts = <<>> /\ currentText = 0 /\ reasoningMap = <<>> /\ toolCalls = <<>>
    BY <2>1 DEF ProcessorInit
  <2>3. Len(<<>>) = 0 /\ DOMAIN <<>> = {}
    OBVIOUS
  <2>4. QED
    BY <2>2, <2>3 DEF Tracks, Current, Mapped
<1>2. QED
  BY <1>1, TracksKept, TypesHold, PTL DEF ProcessorSpec

\* ReasoningMap and ToolCalls hold exactly the parts that can still change, each under its own
\* id: a late or repeated result or error, or one for an id that is used again, never changes
\* a call that is over (processor.go:332, processor.go:372).
THEOREM MapsAreExact == ProcessorSpec => []MapsHoldTheOpenParts
<1>1. ProcessorTypes /\ Tracks => MapsHoldTheOpenParts
  <2>1. SUFFICES ASSUME ProcessorTypes, Tracks, NEW i \in DOMAIN parts
                 PROVE  /\ parts[i].kind = "tool" =>
                             (parts[i].status \in {"pending", "running"}
                                <=> \E c \in DOMAIN toolCalls :
                                      toolCalls[c] = i /\ c = parts[i].key)
                        /\ parts[i].kind = "reasoning" =>
                             (parts[i].status = "open"
                                <=> \E id \in DOMAIN reasoningMap :
                                      reasoningMap[id] = i /\ id = parts[i].key)
    BY DEF MapsHoldTheOpenParts
  <2>2. Listed(i) /\ Mapped
    BY <2>1, Sizes DEF Tracks
  <2>3. QED
    BY <2>2 DEF Listed, Mapped, Begun
<1>2. QED
  BY <1>1, TracksHold, PTL

-----------------------------------------------------------------------------
\* What the builders hold

\* The builder of the current text holds all the text was told, or what came after the cut,
TextHeld ==
    currentText # 0 =>
      IF currentText \in cut THEN EndOf(textBuilder, told[currentText])
      ELSE textBuilder = told[currentText]
\* an open reasoning has a builder with all it was told, or none after the cut,
ReasoningHeld ==
    \A id \in DOMAIN reasoningMap :
      IF reasoningMap[id] \in cut THEN id \notin DOMAIN reasoningBuf
      ELSE id \in DOMAIN reasoningBuf /\ reasoningBuf[id] = told[reasoningMap[id]]
\* and what is closed is whole but for a cut.
WholeText(i) ==
    parts[i].kind \in {"text", "reasoning"} /\ parts[i].status = "done" =>
      IF i \notin cut THEN parts[i].text = TrimEnd(told[i])
      ELSE /\ parts[i].kind = "reasoning" => parts[i].text = <<>>
           /\ EndOf(parts[i].text, TrimEnd(told[i]))

TextsHeld == TextHeld /\ ReasoningHeld /\ \A i \in 1 .. Len(parts) : WholeText(i)

LEMMA NothingIsAnEnd ==
    ASSUME NEW t \in Seq(Delta)
    PROVE  EndOf(<<>>, t)
<1>1. Len(t) \in Nat /\ Len(<<>>) = 0
  BY LenProperties
<1>2. Len(<<>>) <= Len(t) /\ 1 .. Len(<<>>) = {}
  BY <1>1
<1>3. QED
  BY <1>2 DEF EndOf

\* What was closed stays whole when a part is added, and when an open part is cut.
LEMMA WholeAdded ==
    ASSUME ProcessorTypes, Tracks, TextsHeld, NEW p \in Part, AddPart(p),
           p.kind \in {"text", "reasoning"} => p.status = "open",
           cut \subseteq cut', cut' \subseteq cut \cup ({currentText} \ {0})
    PROVE  \A i \in 1 .. Len(parts') : WholeText(i)'
<1> DEFINE n == Len(parts)
<1>1. /\ parts'[n + 1] = p
      /\ \A i \in 1 .. n : parts'[i] = parts[i] /\ told'[i] = told[i]
      /\ \A i \in 1 .. Len(parts') : i = n + 1 \/ i \in 1 .. n
  BY Added, Wider
<1>2. \A i \in 1 .. n : WholeText(i)
  BY DEF TextsHeld
<1> HIDE DEF n
<1>3. ASSUME NEW i \in 1 .. n PROVE WholeText(i)'
  <2>1. CASE i = currentText
    <3>1. i # 0 => parts[i].status # "done"
      BY <2>1 DEF Tracks, Current
    <3>2. i # 0
      <4>1. n \in Nat
        BY Sizes DEF n
      <4>2. QED
        BY <4>1
    <3>3. QED
      BY <1>1, <3>1, <3>2 DEF WholeText
  <2>2. CASE i # currentText
    BY <1>1, <1>2, <2>2 DEF WholeText
  <2>3. QED
    BY <2>1, <2>2
<1>4. ASSUME NEW i, i = n + 1 PROVE WholeText(i)'
  BY <1>1, <1>4 DEF WholeText
<1>5. QED
  BY <1>1, <1>3, <1>4

\* A part that moves is whole if it closes with what it should, and the others stay whole.
LEMMA WholeMoved ==
    ASSUME ProcessorTypes, TextsHeld, NEW i \in 1 .. Len(parts), NEW status \in Status,
           NEW text \in Seq(Delta), parts' = [parts EXCEPT ![i] = Moved(i, status, text)],
           UNCHANGED <<told, cut>>,
           parts[i].kind \in {"text", "reasoning"} /\ status = "done" =>
             IF i \notin cut THEN text = TrimEnd(told[i])
             ELSE /\ parts[i].kind = "reasoning" => text = <<>>
                  /\ EndOf(text, TrimEnd(told[i]))
    PROVE  \A j \in 1 .. Len(parts') : WholeText(j)'
<1>1. /\ Len(parts') = Len(parts)
      /\ parts'[i].kind = parts[i].kind /\ parts'[i].status = status /\ parts'[i].text = text
      /\ \A j \in 1 .. Len(parts) : j # i => parts'[j] = parts[j]
  BY MovedAt
<1>2. \A j \in 1 .. Len(parts) : WholeText(j)
  BY DEF TextsHeld
<1>3. WholeText(i)'
  BY <1>1 DEF WholeText
<1>4. ASSUME NEW j \in 1 .. Len(parts), j # i PROVE WholeText(j)'
  BY <1>1, <1>2, <1>4 DEF WholeText
<1>5. QED
  BY <1>1, <1>3, <1>4

LEMMA TextsKept == ProcessorTypes /\ Tracks /\ TextsHeld /\ [ProcessorNext]_partsVars => TextsHeld'
<1>1. SUFFICES ASSUME ProcessorTypes, Tracks, TextsHeld, [ProcessorNext]_partsVars PROVE TextsHeld'
  OBVIOUS
<1> DEFINE n == Len(parts)
<1>2. /\ n \in Nat /\ n + 1 \notin 1 .. n /\ cut \subseteq 1 .. n /\ currentText \in 0 .. n
      /\ currentText # 0 => currentText \in 1 .. n
      /\ textBuilder \in Seq(Delta)
      /\ reasoningMap \in [DOMAIN reasoningMap -> 1 .. n]
      /\ DOMAIN reasoningBuf \subseteq DOMAIN reasoningMap
      /\ reasoningBuf \in [DOMAIN reasoningBuf -> Seq(Delta)]
      /\ \A i \in 1 .. n : told[i] \in Seq(Delta) /\ TrimEnd(told[i]) \in Seq(Delta)
  <2>1. /\ n \in Nat /\ n + 1 \notin 1 .. n /\ \A i \in 1 .. n : told[i] \in Seq(Delta)
    BY <1>1, Sizes, Wider
  <2>2. currentText \in 0 .. n
    BY <1>1 DEF ProcessorTypes
  <2>3. currentText # 0 => currentText \in 1 .. n
    BY <2>1, <2>2
  <2>4. QED
    BY <1>1, <2>1, <2>2, <2>3, Trimmed DEF ProcessorTypes
<1>3. /\ TextHeld /\ ReasoningHeld /\ \A i \in 1 .. n : WholeText(i)
      /\ \A id \in DOMAIN reasoningMap :
           /\ parts[reasoningMap[id]].kind = "reasoning" /\ parts[reasoningMap[id]].key = id
           /\ parts[reasoningMap[id]].status = "open"
      /\ currentText # 0 => parts[currentText].kind = "text" /\ parts[currentText].status = "open"
  BY <1>1 DEF TextsHeld, Tracks, Mapped, Current
<1>4. ASSUME NEW p \in Part, AddPart(p)
      PROVE  told'[n + 1] = <<>> /\ \A i \in 1 .. n : told'[i] = told[i]
  BY <1>1, <1>4, Added
<1> HIDE DEF n
<1>5. CASE TextStart
  <2> DEFINE p == Started("text", "", "open")
  <2>1. AddPart(p) /\ p \in Part /\ p.kind = "text" /\ p.status = "open"
    BY <1>5, StartedIsPart DEF TextStart, Started
  <2>2. /\ currentText' = n + 1 /\ textBuilder' = <<>>
        /\ cut' = IF currentText = 0 THEN cut ELSE cut \cup {currentText}
        /\ UNCHANGED <<reasoningMap, reasoningBuf>>
    BY <1>5 DEF TextStart, Next0, n
  <2> HIDE DEF p
  <2>3. \A i \in 1 .. Len(parts') : WholeText(i)'
    BY <1>1, <2>1, <2>2, WholeAdded
  <2>4. n + 1 \notin cut'
    BY <1>2, <2>2
  <2>5. TextHeld'
    BY <1>4, <2>1, <2>2, <2>4 DEF TextHeld
  <2>6. ASSUME NEW id \in DOMAIN reasoningMap
        PROVE  reasoningMap[id] \in cut' <=> reasoningMap[id] \in cut
    BY <1>2, <1>3, <2>2
  <2>7. ReasoningHeld'
    BY <1>2, <1>3, <1>4, <2>1, <2>2, <2>6 DEF ReasoningHeld
  <2>8. QED
    BY <2>3, <2>5, <2>7 DEF TextsHeld
<1>6. ASSUME NEW p \in Part, AddPart(p), p.kind \in {"text", "reasoning"} => p.status = "open",
             UNCHANGED <<tracking, cut>>
             \/ UNCHANGED <<currentText, textBuilder, reasoningMap, reasoningBuf, cut>>
      PROVE  TextsHeld'
  <2>1. UNCHANGED <<currentText, textBuilder, reasoningMap, reasoningBuf, cut>>
    BY <1>6 DEF tracking
  <2>2. \A i \in 1 .. Len(parts') : WholeText(i)'
    BY <1>1, <1>6, <2>1, WholeAdded
  <2>3. TextHeld'
    BY <1>2, <1>3, <1>4, <1>6, <2>1 DEF TextHeld
  <2>4. ReasoningHeld'
    BY <1>2, <1>3, <1>4, <1>6, <2>1 DEF ReasoningHeld
  <2>5. QED
    BY <2>2, <2>3, <2>4 DEF TextsHeld
<1>7. CASE Step
  BY <1>6, <1>7, StartedIsPart DEF Step, Started
<1>8. ASSUME NEW c \in CallIds, ToolInputStart(c) PROVE TextsHeld'
  <2> DEFINE p == Started("tool", c, "pending")
  <2>1. AddPart(p) /\ p \in Part /\ p.kind = "tool"
    BY <1>8, StartedIsPart DEF ToolInputStart, Started
  <2>2. UNCHANGED <<currentText, textBuilder, reasoningMap, reasoningBuf, cut>>
    BY <1>8 DEF ToolInputStart
  <2> HIDE DEF p
  <2>3. QED
    BY <1>6, <2>1, <2>2
<1>9. ASSUME NEW id \in ReasoningIds, ReasoningStart(id) PROVE TextsHeld'
  <2> DEFINE p == Started("reasoning", id, "open")
  <2>1. AddPart(p) /\ p \in Part /\ p.kind = "reasoning" /\ p.status = "open"
    BY <1>9, StartedIsPart DEF ReasoningStart, Started
  <2>2. /\ id \notin DOMAIN reasoningMap
        /\ reasoningMap' = With(reasoningMap, id, n + 1)
        /\ reasoningBuf' = With(reasoningBuf, id, <<>>)
        /\ UNCHANGED <<currentText, textBuilder, cut>>
    BY <1>9 DEF ReasoningStart, Next0, n
  <2> HIDE DEF p
  <2>3. \A i \in 1 .. Len(parts') : WholeText(i)'
    BY <1>1, <2>1, <2>2, WholeAdded
  <2>4. TextHeld'
    BY <1>2, <1>3, <1>4, <2>1, <2>2 DEF TextHeld
  <2>5. ASSUME NEW x \in DOMAIN reasoningMap'
        PROVE  IF reasoningMap'[x] \in cut' THEN x \notin DOMAIN reasoningBuf'
               ELSE x \in DOMAIN reasoningBuf' /\ reasoningBuf'[x] = told'[reasoningMap'[x]]
    <3>1. CASE x = id
      <4>1. reasoningMap'[x] = n + 1 /\ x \in DOMAIN reasoningBuf' /\ reasoningBuf'[x] = <<>>
        BY <2>2, <3>1 DEF With
      <4>2. QED
        BY <1>2, <1>4, <2>1, <2>2, <4>1
    <3>2. CASE x # id
      <4>1. /\ x \in DOMAIN reasoningMap /\ reasoningMap'[x] = reasoningMap[x]
            /\ x \in DOMAIN reasoningBuf' <=> x \in DOMAIN reasoningBuf
            /\ x \in DOMAIN reasoningBuf => reasoningBuf'[x] = reasoningBuf[x]
        BY <2>2, <3>2 DEF With
      <4>2. reasoningMap[x] \in 1 .. n /\ told'[reasoningMap[x]] = told[reasoningMap[x]]
        BY <1>2, <1>4, <2>1, <4>1
      <4>3. QED
        BY <1>3, <2>2, <4>1, <4>2 DEF ReasoningHeld
    <3>3. QED
      BY <3>1, <3>2
  <2>6. ReasoningHeld'
    BY <2>5 DEF ReasoningHeld
  <2>7. QED
    BY <2>3, <2>4, <2>6 DEF TextsHeld
<1>10. CASE TextEnd
  <2> DEFINE text == TrimEnd(textBuilder)
  <2>1. /\ parts' = [parts EXCEPT ![currentText] = Moved(currentText, "done", text)]
        /\ currentText \in 1 .. Len(parts) /\ text \in Seq(Delta) /\ "done" \in Status
    BY <1>1, <1>10, Moves DEF Status
  <2>2. /\ currentText' = 0 /\ currentText # 0
        /\ UNCHANGED <<reasoningMap, reasoningBuf, told, cut>>
    BY <1>10 DEF TextEnd
  <2>3. IF currentText \notin cut THEN text = TrimEnd(told[currentText])
        ELSE /\ parts[currentText].kind = "reasoning" => text = <<>>
             /\ EndOf(text, TrimEnd(told[currentText]))
    <3>1. CASE currentText \notin cut
      BY <1>3, <2>2, <3>1 DEF TextHeld
    <3>2. CASE currentText \in cut
      <4>1. EndOf(textBuilder, told[currentText])
        BY <1>3, <2>2, <3>2 DEF TextHeld
      <4>2. EndOf(text, TrimEnd(told[currentText]))
        BY <1>2, <2>2, <4>1, EndTrimmed
      <4>3. QED
        BY <1>3, <2>2, <3>2, <4>2
    <3>3. QED
      BY <3>1, <3>2
  <2> HIDE DEF text
  <2>4. \A i \in 1 .. Len(parts') : WholeText(i)'
    BY <1>1, <2>1, <2>2, <2>3, WholeMoved
  <2>5. TextHeld' /\ ReasoningHeld'
    BY <1>3, <2>2 DEF TextHeld, ReasoningHeld
  <2>6. QED
    BY <2>4, <2>5 DEF TextsHeld
<1>11. ASSUME NEW id \in ReasoningIds, ReasoningEnd(id) PROVE TextsHeld'
  <2> DEFINE i == reasoningMap[id]
             text == IF id \in DOMAIN reasoningBuf
                     THEN TrimEnd(reasoningBuf[id]) ELSE parts[i].text
  <2>1. /\ i \in 1 .. Len(parts) /\ text \in Seq(Delta) /\ "done" \in Status
        /\ parts' = [parts EXCEPT ![i] = Moved(i, "done", text)]
        /\ parts[i].kind = "reasoning" /\ parts[i].key = id /\ parts[i].status = "open"
    BY <1>1, <1>11, EndOfReasoning
  <2>2. /\ id \in DOMAIN reasoningMap
        /\ reasoningMap' = Without(reasoningMap, id) /\ reasoningBuf' = Without(reasoningBuf, id)
        /\ UNCHANGED <<currentText, textBuilder, told, cut>>
    BY <1>11 DEF ReasoningEnd
  <2>3. IF i \notin cut THEN text = TrimEnd(told[i])
        ELSE text = <<>> /\ EndOf(text, TrimEnd(told[i]))
    <3>1. CASE i \notin cut
      BY <1>3, <2>2, <3>1 DEF ReasoningHeld
    <3>2. CASE i \in cut
      <4>1. text = parts[i].text
        BY <1>3, <2>2, <3>2 DEF ReasoningHeld
      <4>2. parts[i].text = <<>>
        BY <1>1, <2>1 DEF Tracks, Listed
      <4>3. QED
        BY <1>2, <2>1, <3>2, <4>1, <4>2, NothingIsAnEnd DEF n
    <3>3. QED
      BY <3>1, <3>2
  <2> HIDE DEF i, text
  <2>4. \A j \in 1 .. Len(parts') : WholeText(j)'
    BY <1>1, <2>1, <2>2, <2>3, WholeMoved
  <2>5. TextHeld'
    BY <1>3, <2>2 DEF TextHeld
  <2>6. ReasoningHeld'
    BY <1>3, <2>2 DEF ReasoningHeld, Without
  <2>7. QED
    BY <2>4, <2>5, <2>6 DEF TextsHeld
<1>12. ASSUME NEW c \in CallIds, ToolCall(c) \/ ToolResult(c) \/ ToolError(c) PROVE TextsHeld'
  <2> DEFINE i == toolCalls[c]
             text == parts[i].text
  <2>1. /\ i \in 1 .. Len(parts) /\ text \in Seq(Delta) /\ parts[i].kind = "tool"
        /\ \E status \in Status : parts' = [parts EXCEPT ![i] = Moved(i, status, text)]
        /\ UNCHANGED <<currentText, reasoningMap, textBuilder, reasoningBuf, told, cut>>
    BY <1>1, <1>12, ToolMoves
  <2> HIDE DEF i, text
  <2>2. PICK status \in Status : parts' = [parts EXCEPT ![i] = Moved(i, status, text)]
    BY <2>1
  <2>3. \A j \in 1 .. Len(parts') : WholeText(j)'
    BY <1>1, <2>1, <2>2, WholeMoved
  <2>4. TextHeld' /\ ReasoningHeld'
    BY <1>3, <2>1 DEF TextHeld, ReasoningHeld
  <2>5. QED
    BY <2>3, <2>4 DEF TextsHeld
<1>13. ASSUME NEW i \in 1 .. n, NEW d \in Delta, parts[i].status = "open",
              told' = [told EXCEPT ![i] = Append(@, d)], UNCHANGED <<parts, cut>>
       PROVE  /\ told'[i] = Append(told[i], d)
              /\ \A j \in 1 .. n : j # i => told'[j] = told[j]
              /\ \A j \in 1 .. Len(parts') : WholeText(j)'
  <2>1. told'[i] = Append(told[i], d) /\ \A j \in 1 .. n : j # i => told'[j] = told[j]
    BY <1>1, <1>13, Told DEF n
  <2>2. ASSUME NEW j \in 1 .. n PROVE WholeText(j)'
    BY <1>3, <1>13, <2>1 DEF WholeText
  <2>3. QED
    BY <1>13, <2>1, <2>2 DEF n
<1>14. ASSUME NEW d \in Delta, TextDelta(d) PROVE TextsHeld'
  <2>1. /\ currentText # 0 /\ textBuilder' = Append(textBuilder, d)
        /\ told' = [told EXCEPT ![currentText] = Append(@, d)]
        /\ UNCHANGED <<parts, currentText, reasoningMap, reasoningBuf, cut>>
    BY <1>14 DEF TextDelta
  <2>2. /\ told'[currentText] = Append(told[currentText], d)
        /\ \A j \in 1 .. n : j # currentText => told'[j] = told[j]
        /\ \A j \in 1 .. Len(parts') : WholeText(j)'
    BY <1>2, <1>3, <1>13, <2>1
  <2>3. TextHeld'
    <3>1. CASE currentText \in cut
      <4>1. EndOf(textBuilder, told[currentText])
        BY <1>3, <2>1, <3>1 DEF TextHeld
      <4>2. EndOf(Append(textBuilder, d), Append(told[currentText], d))
        BY <1>2, <2>1, <4>1, EndGrows
      <4>3. QED
        BY <2>1, <2>2, <3>1, <4>2 DEF TextHeld
    <3>2. CASE currentText \notin cut
      BY <1>3, <2>1, <2>2, <3>2 DEF TextHeld
    <3>3. QED
      BY <3>1, <3>2
  <2>4. ReasoningHeld'
    BY <1>2, <1>3, <2>1, <2>2 DEF ReasoningHeld
  <2>5. QED
    BY <2>2, <2>3, <2>4 DEF TextsHeld
<1>15. ASSUME NEW d \in Delta, NEW id \in ReasoningIds, ReasoningDelta(id, d) PROVE TextsHeld'
  <2> DEFINE i == reasoningMap[id]
  <2>1. /\ id \in DOMAIN reasoningMap
        /\ reasoningBuf' = IF id \in DOMAIN reasoningBuf
                           THEN [reasoningBuf EXCEPT ![id] = Append(reasoningBuf[id], d)]
                           ELSE reasoningBuf
        /\ told' = [told EXCEPT ![i] = Append(@, d)]
        /\ UNCHANGED <<parts, currentText, textBuilder, reasoningMap, cut>>
    BY <1>15 DEF ReasoningDelta
  <2>2. i \in 1 .. n /\ parts[i].status = "open" /\ parts[i].kind = "reasoning"
    BY <1>2, <1>3, <2>1
  <2>3. /\ told'[i] = Append(told[i], d)
        /\ \A j \in 1 .. n : j # i => told'[j] = told[j]
        /\ \A j \in 1 .. Len(parts') : WholeText(j)'
    BY <1>13, <2>1, <2>2
  <2>4. TextHeld'
    BY <1>2, <1>3, <2>1, <2>2, <2>3 DEF TextHeld
  <2>5. ASSUME NEW x \in DOMAIN reasoningMap'
        PROVE  IF reasoningMap'[x] \in cut' THEN x \notin DOMAIN reasoningBuf'
               ELSE x \in DOMAIN reasoningBuf' /\ reasoningBuf'[x] = told'[reasoningMap'[x]]
    <3>1. x \in DOMAIN reasoningMap /\ DOMAIN reasoningBuf' = DOMAIN reasoningBuf
      BY <2>1
    <3>2. CASE x = id
      BY <1>3, <2>1, <2>3, <3>1, <3>2 DEF ReasoningHeld
    <3>3. CASE x # id
      <4>1. reasoningMap[x] # i /\ reasoningMap[x] \in 1 .. n
        BY <1>2, <1>3, <2>1, <3>1, <3>3
      <4>2. told'[reasoningMap[x]] = told[reasoningMap[x]]
        BY <2>3, <4>1
      <4>3. x \in DOMAIN reasoningBuf => reasoningBuf'[x] = reasoningBuf[x]
        BY <2>1, <3>3
      <4>4. QED
        BY <1>3, <2>1, <3>1, <4>2, <4>3 DEF ReasoningHeld
    <3>4. QED
      BY <3>2, <3>3
  <2>6. QED
    BY <2>3, <2>4, <2>5 DEF TextsHeld, ReasoningHeld
<1>16. CASE Finish
  <2>1. /\ textBuilder' = <<>> /\ reasoningBuf' = <<>> /\ DOMAIN <<>> = {}
        /\ cut' = cut \cup {reasoningMap[id] : id \in DOMAIN reasoningMap}
                      \cup (IF currentText = 0 THEN {} ELSE {currentText})
        /\ UNCHANGED <<parts, currentText, reasoningMap, told>>
    BY <1>16 DEF Finish
  <2>2. TextHeld'
    BY <1>2, <2>1, NothingIsAnEnd DEF TextHeld
  <2>3. ReasoningHeld'
    BY <2>1 DEF ReasoningHeld
  <2>4. ASSUME NEW i \in 1 .. n PROVE WholeText(i)'
    <3>1. CASE i \in cut <=> i \in cut'
      BY <1>3, <2>1, <3>1 DEF WholeText
    <3>2. CASE i \in cut' /\ i \notin cut
      <4>1. parts[i].status = "open"
        BY <1>2, <1>3, <2>1, <3>2
      <4>2. QED
        BY <2>1, <4>1 DEF WholeText
    <3>3. QED
      BY <2>1, <3>1, <3>2
  <2>5. QED
    BY <2>1, <2>2, <2>3, <2>4 DEF TextsHeld, n
<1>17. CASE UNCHANGED partsVars
  BY <1>1, <1>17 DEF partsVars, TextsHeld, TextHeld, ReasoningHeld, WholeText
<1>18. QED
  BY <1>1, <1>5, <1>7, <1>8, <1>9, <1>10, <1>11, <1>12, <1>14, <1>15, <1>16, <1>17 DEF ProcessorNext

\* A text or a reasoning that was closed holds all it was told while it was open and nothing
\* else, without the white space at its end, but for what the end of the stream, or the next
\* text, cut off while it was open (processor.go:434).
THEOREM ClosedTextsAreWhole == ProcessorSpec => []TextIsWhole
<1>1. ProcessorInit => TextsHeld
  <2>1. SUFFICES ASSUME ProcessorInit PROVE TextsHeld
    OBVIOUS
  <2>2. parts = <<>> /\ currentText = 0 /\ reasoningMap = <<>>
    BY <2>1 DEF ProcessorInit
  <2>3. Len(<<>>) = 0 /\ DOMAIN <<>> = {}
    OBVIOUS
  <2>4. QED
    BY <2>2, <2>3 DEF TextsHeld, TextHeld, ReasoningHeld
<1>2. ProcessorTypes /\ TextsHeld => TextIsWhole
  <2>1. SUFFICES ASSUME ProcessorTypes, TextsHeld, NEW i \in DOMAIN parts,
                        parts[i].kind \in {"text", "reasoning"}, parts[i].status = "done"
                 PROVE  IF i \notin cut THEN parts[i].text = TrimEnd(told[i])
                        ELSE /\ parts[i].kind = "reasoning" => parts[i].text = <<>>
                             /\ IsSuffix(parts[i].text, TrimEnd(told[i]))
    BY DEF TextIsWhole
  <2>2. i \in 1 .. Len(parts) /\ parts[i] \in Part /\ told[i] \in Seq(Delta)
    BY <2>1, Sizes
  <2>3. parts[i].text \in Seq(Delta) /\ TrimEnd(told[i]) \in Seq(Delta)
    BY <2>2, Trimmed DEF Part
  <2>4. WholeText(i)
    BY <2>1, <2>2 DEF TextsHeld
  <2>5. CASE i \notin cut
    BY <2>1, <2>4, <2>5 DEF WholeText
  <2>6. CASE i \in cut
    BY <2>1, <2>3, <2>4, <2>6, EndIsSuffix DEF WholeText
  <2>7. QED
    BY <2>5, <2>6
<1>3. QED
  BY <1>1, <1>2, TracksHold, TextsKept, PTL DEF ProcessorSpec

-----------------------------------------------------------------------------
\* The processor implements MessageParts.

\* The text a reader sees at i who knows what the builders hold
Held(i) ==
    IF i = currentText THEN textBuilder
    ELSE IF /\ parts[i].kind = "reasoning" /\ parts[i].status = "open"
            /\ parts[i].key \in DOMAIN reasoningBuf
    THEN reasoningBuf[parts[i].key]
    ELSE parts[i].text

ShownIsParts ==
    /\ Shown \in Seq(Part) /\ Len(Shown) = Len(parts)
    /\ \A i \in 1 .. Len(parts) :
         Held(i) \in Seq(Delta) /\ Shown[i] = Moved(i, parts[i].status, Held(i))

\* A part whose text is replaced
Retold(p, text) == [p EXCEPT !.text = text]

LEMMA RetoldPart ==
    ASSUME NEW p \in Part, NEW text \in Seq(Delta)
    PROVE  /\ Retold(p, text)
                = [kind |-> p.kind, key |-> p.key, status |-> p.status, text |-> text]
           /\ p = [kind |-> p.kind, key |-> p.key, status |-> p.status, text |-> p.text]
BY DEF Part, Retold

LEMMA ShownAt == ProcessorTypes /\ Tracks => ShownIsParts
<1>1. SUFFICES ASSUME ProcessorTypes, Tracks PROVE ShownIsParts
  OBVIOUS
<1> DEFINE n == Len(parts)
<1>2. /\ n \in Nat /\ DOMAIN parts = 1 .. n
      /\ \A i \in 1 .. n : parts[i] \in Part
  BY <1>1, Sizes
<1>3. ASSUME NEW i \in 1 .. n
      PROVE  /\ Held(i) \in Seq(Delta) /\ Shown[i] = Moved(i, parts[i].status, Held(i))
             /\ Moved(i, parts[i].status, Held(i)) \in Part
  <2>1. parts[i] \in Part /\ parts[i].text \in Seq(Delta) /\ i \in DOMAIN parts
    BY <1>2 DEF Part
  <2>2. \A text \in Seq(Delta) :
          Retold(parts[i], text) = Moved(i, parts[i].status, text)
    <3> DEFINE p == parts[i]
    <3>1. p \in Part
      BY <2>1
    <3>2. \A text : Moved(i, parts[i].status, text)
                      = [kind |-> p.kind, key |-> p.key, status |-> p.status, text |-> text]
      BY DEF Moved
    <3> HIDE DEF p
    <3>3. \A text \in Seq(Delta) : Retold(p, text) = Moved(i, parts[i].status, text)
      BY <3>1, <3>2, RetoldPart
    <3>4. QED
      BY <3>3 DEF p
  <2>3. parts[i] = Moved(i, parts[i].status, parts[i].text)
    BY <2>1 DEF Part, Moved
  <2>4. \A text \in Seq(Delta) : Moved(i, parts[i].status, text) \in Part
    BY <2>1 DEF Part, Moved
  <2>5. CASE i = currentText
    <3>1. Held(i) = textBuilder /\ textBuilder \in Seq(Delta)
      BY <1>1, <2>5 DEF Held, ProcessorTypes
    <3>2. Shown[i] = Retold(parts[i], textBuilder)
      BY <2>1, <2>5 DEF Shown, Retold
    <3>3. QED
      BY <2>2, <2>4, <3>1, <3>2
  <2>6. CASE i # currentText
    <3>1. ASSUME NEW id \in DOMAIN reasoningBuf, reasoningMap[id] = i
          PROVE  parts[i].kind = "reasoning" /\ parts[i].status = "open" /\ parts[i].key = id
      BY <1>1, <3>1 DEF ProcessorTypes, Tracks, Mapped
    <3>2. parts[i].kind = "reasoning" /\ parts[i].status = "open" => reasoningMap[parts[i].key] = i
      BY <1>1 DEF Tracks, Listed
    <3>3. CASE \E id \in DOMAIN reasoningBuf : reasoningMap[id] = i
      <4> DEFINE id == CHOOSE x \in DOMAIN reasoningBuf : reasoningMap[x] = i
      <4>1. id \in DOMAIN reasoningBuf /\ reasoningMap[id] = i
        BY <3>3
      <4>2. /\ parts[i].kind = "reasoning" /\ parts[i].status = "open" /\ parts[i].key = id
        BY <3>1, <4>1
      <4>3. Shown[i] = Retold(parts[i], reasoningBuf[id])
        BY <2>1, <2>6, <3>3 DEF Shown, Retold
      <4>4. Held(i) = reasoningBuf[id] /\ reasoningBuf[id] \in Seq(Delta)
        <5>1. reasoningBuf[id] \in Seq(Delta)
          BY <1>1, <4>1 DEF ProcessorTypes
        <5>2. QED
          BY <2>6, <4>1, <4>2, <5>1 DEF Held
      <4>5. QED
        BY <2>2, <2>4, <4>3, <4>4
    <3>4. CASE ~\E id \in DOMAIN reasoningBuf : reasoningMap[id] = i
      <4>1. Shown[i] = parts[i]
        BY <2>1, <2>6, <3>4 DEF Shown
      <4>2. Held(i) = parts[i].text
        BY <2>6, <3>2, <3>4 DEF Held
      <4>3. QED
        BY <2>1, <2>3, <4>1, <4>2
    <3>5. QED
      BY <3>3, <3>4
  <2>7. QED
    BY <2>5, <2>6
<1>4. DOMAIN Shown = 1 .. n
  BY <1>2 DEF Shown
<1>5. Shown \in Seq(Part) /\ Len(Shown) = n
  <2>1. Shown \in [1 .. n -> Part]
    <3>1. Shown = [i \in DOMAIN Shown |-> Shown[i]]
      BY DEF Shown
    <3>2. QED
      BY <1>3, <1>4, <3>1
  <2>2. Shown \in Seq(Part)
    BY <1>2, <2>1, SeqDef
  <2>3. QED
    BY <1>2, <1>4, <2>2, LenProperties
<1>6. QED
  BY <1>3, <1>5 DEF ShownIsParts

\* Shown, at an index, field by field
LEMMA ShownFields ==
    ASSUME ProcessorTypes, ShownIsParts, NEW i \in 1 .. Len(parts)
    PROVE  /\ i \in DOMAIN Shown /\ Shown[i] \in Part /\ Held(i) \in Seq(Delta)
           /\ Shown[i].kind = parts[i].kind /\ Shown[i].key = parts[i].key
           /\ Shown[i].status = parts[i].status /\ Shown[i].text = Held(i)
<1>1. /\ Shown \in Seq(Part) /\ Len(Shown) = Len(parts) /\ Held(i) \in Seq(Delta)
      /\ Shown[i] = Moved(i, parts[i].status, Held(i))
  BY DEF ShownIsParts
<1>2. i \in DOMAIN Shown /\ Shown[i] \in Part
  BY <1>1, LenProperties, ElementOfSeq
<1>3. QED
  BY <1>1, <1>2 DEF Moved

\* A step that changes one part, as a reader sees it
LEMMA ShownMoved ==
    ASSUME ProcessorTypes, ProcessorTypes', ShownIsParts, ShownIsParts', NEW i \in 1 .. Len(parts),
           Len(parts') = Len(parts),
           parts'[i].kind = parts[i].kind, parts'[i].key = parts[i].key,
           \A j \in 1 .. Len(parts) : j # i => parts'[j] = parts[j] /\ Held(j)' = Held(j)
    PROVE  /\ Shown' = [Shown EXCEPT ![i] = Moved(i, parts'[i].status, Held(i)')]
           /\ Moved(i, parts'[i].status, Held(i)') \in Part
<1> DEFINE n == Len(parts)
           p == Moved(i, parts'[i].status, Held(i)')
<1>1. Shown \in Seq(Part) /\ Len(Shown) = n /\ Shown' \in Seq(Part) /\ Len(Shown') = n
  BY DEF ShownIsParts
<1>2. \A j \in 1 .. n : /\ Shown[j] = Moved(j, parts[j].status, Held(j))
                        /\ Shown'[j] = [kind |-> parts'[j].kind, key |-> parts'[j].key,
                                        status |-> parts'[j].status, text |-> Held(j)']
  BY DEF ShownIsParts, Moved
<1>3. Shown'[i] = p
  BY <1>2 DEF Moved
<1>4. ASSUME NEW j \in 1 .. n, j # i PROVE Shown'[j] = Shown[j]
  BY <1>2, <1>4 DEF Moved
<1>5. p \in Part
  <2>1. i \in 1 .. Len(Shown')
    BY <1>1
  <2>2. Shown'[i] \in Part
    BY <1>1, <2>1, ElementOfSeq
  <2>3. QED
    BY <1>3, <2>2
<1>6. DOMAIN Shown = 1 .. n /\ DOMAIN Shown' = 1 .. n
  BY <1>1, LenProperties
<1> HIDE DEF p, n
<1>7. Shown' = [Shown EXCEPT ![i] = p]
  <2> DEFINE q == [Shown EXCEPT ![i] = p]
  <2>1. i \in 1 .. n /\ i \in 1 .. Len(Shown)
    BY <1>1 DEF n
  <2>2. q \in Seq(Part) /\ Len(q) = n
    BY <1>1, <1>5, <2>1, ExceptSeq
  <2>3. \A j \in 1 .. n : q[j] = IF j = i THEN p ELSE Shown[j]
    BY <1>6
  <2> HIDE DEF q
  <2>4. \A j \in 1 .. n : Shown'[j] = q[j]
    BY <1>3, <1>4, <2>3
  <2>5. Shown' = q
    BY <1>1, <2>2, <2>4, SeqEqual
  <2>6. QED
    BY <2>5 DEF q
<1>8. QED
  BY <1>5, <1>7 DEF p

\* A step that shows nothing new
LEMMA ShownSame ==
    ASSUME ProcessorTypes, ProcessorTypes', ShownIsParts, ShownIsParts', Len(parts') = Len(parts),
           \A j \in 1 .. Len(parts) : parts'[j] = parts[j] /\ Held(j)' = Held(j)
    PROVE  Shown' = Shown
<1> DEFINE n == Len(parts)
<1>1. Shown \in Seq(Part) /\ Len(Shown) = n /\ Shown' \in Seq(Part) /\ Len(Shown') = n
  BY DEF ShownIsParts
<1>2. \A j \in 1 .. n : /\ Shown[j] = Moved(j, parts[j].status, Held(j))
                        /\ Shown'[j] = [kind |-> parts'[j].kind, key |-> parts'[j].key,
                                        status |-> parts'[j].status, text |-> Held(j)']
  BY DEF ShownIsParts, Moved
<1>3. \A j \in 1 .. n : Shown'[j] = Shown[j]
  BY <1>2 DEF Moved
<1>4. QED
  BY <1>1, <1>3, SeqEqual

\* A part is told something.
LEMMA SayShown ==
    ASSUME ProcessorTypes, ProcessorTypes', ShownIsParts, ShownIsParts', UNCHANGED parts,
           NEW i \in 1 .. Len(parts), NEW d \in Delta, parts[i].status = "open",
           ~(parts[i].kind = "text" /\ \E j \in 1 .. Len(parts) : j > i /\ parts[j].kind = "text"),
           Held(i)' = Append(Held(i), d),
           \A j \in 1 .. Len(parts) : j # i => Held(j)' = Held(j)
    PROVE  Abstract!Say(i, d)
<1>1. /\ \A j \in 1 .. Len(parts) : Shown[j].kind = parts[j].kind
      /\ i \in DOMAIN Shown /\ Shown[i] \in Part /\ Held(i) \in Seq(Delta)
      /\ Shown[i].kind = parts[i].kind /\ Shown[i].key = parts[i].key
      /\ Shown[i].status = parts[i].status /\ Shown[i].text = Held(i)
  BY ShownFields
<1>2. Shown' = [Shown EXCEPT ![i] = Moved(i, parts[i].status, Append(Held(i), d))]
  BY ShownMoved
<1>3. Retold(Shown[i], Append(Shown[i].text, d)) = Moved(i, parts[i].status, Append(Held(i), d))
  <2> DEFINE p == Shown[i]
             text == Append(p.text, d)
  <2>1. p \in Part /\ text \in Seq(Delta)
    BY <1>1, AppendProperties
  <2>2. Moved(i, parts[i].status, Append(Held(i), d))
          = [kind |-> p.kind, key |-> p.key, status |-> p.status, text |-> text]
    BY <1>1 DEF Moved
  <2> HIDE DEF p, text
  <2>3. Retold(p, text) = Moved(i, parts[i].status, Append(Held(i), d))
    BY <2>1, <2>2, RetoldPart
  <2>4. QED
    BY <2>3 DEF p, text
<1>4. Shown' = [Shown EXCEPT ![i].text = Append(@, d)]
  BY <1>2, <1>3 DEF Retold
<1>5. DOMAIN Shown = 1 .. Len(parts)
  BY LenProperties DEF ShownIsParts
<1>6. QED
  BY <1>1, <1>4, <1>5 DEF Abstract!Say, Abstract!Abandoned

\* A text or a reasoning is closed.
LEMMA CloseShown ==
    ASSUME ProcessorTypes, ProcessorTypes', ShownIsParts, ShownIsParts', NEW i \in 1 .. Len(parts),
           parts[i].status = "open",
           ~(parts[i].kind = "text" /\ \E j \in 1 .. Len(parts) : j > i /\ parts[j].kind = "text"),
           Len(parts') = Len(parts),
           parts'[i].kind = parts[i].kind, parts'[i].key = parts[i].key,
           parts'[i].status = "done", Held(i)' = TrimEnd(Held(i)),
           \A j \in 1 .. Len(parts) : j # i => parts'[j] = parts[j] /\ Held(j)' = Held(j)
    PROVE  Abstract!Close(i)
<1> DEFINE done == "done"
           p == Shown[i]
           text == TrimEnd(p.text)
<1>1. /\ \A j \in 1 .. Len(parts) : Shown[j].kind = parts[j].kind
      /\ i \in DOMAIN Shown /\ p \in Part /\ Held(i) \in Seq(Delta)
      /\ p.kind = parts[i].kind /\ p.key = parts[i].key
      /\ p.status = parts[i].status /\ p.text = Held(i)
  BY ShownFields
<1>2. text \in Seq(Delta) /\ done \in Status
  BY <1>1, Trimmed DEF Status
<1>3. Shown' = [Shown EXCEPT ![i] = Moved(i, parts'[i].status, Held(i)')]
  BY ShownMoved
<1>4. Moved(i, parts'[i].status, Held(i)') = Moved(i, done, text)
  BY <1>1
<1>5. Moved(i, done, text) = [kind |-> p.kind, key |-> p.key, status |-> done, text |-> text]
  BY <1>1 DEF Moved
<1>6. Abstract!TrimEnd(p.text) = text
  BY DEF Abstract!TrimEnd, Abstract!Max, TrimEnd, Max
<1>7. Shown' = [Shown EXCEPT ![i] = Moved(i, done, text)]
  BY <1>3, <1>4
<1>8. [p EXCEPT !.status = "done", !.text = text] = Closed(p, done, text)
  <2>1. Closed(p, done, text) = [kind |-> p.kind, key |-> p.key, status |-> done, text |-> text]
    <3> HIDE DEF p, done, text
    <3>1. QED
      BY <1>1, <1>2, Replaced
  <2>2. At(p, done) = [kind |-> p.kind, key |-> p.key, status |-> done, text |-> p.text]
    <3>1. p.text \in Seq(Delta)
      BY <1>1
    <3> HIDE DEF p, done, text
    <3>2. QED
      BY <1>1, <1>2, Replaced
  <2>3. At(p, done) \in Part /\ At(p, done).kind = p.kind /\ At(p, done).key = p.key /\ At(p, done).status = done
    BY <1>1, <1>2, <2>2 DEF Part
  <2>4. Retold(At(p, done), text)
          = [kind |-> p.kind, key |-> p.key, status |-> done, text |-> text]
    <3> DEFINE q == At(p, done)
    <3>1. q \in Part /\ q.kind = p.kind /\ q.key = p.key /\ q.status = done
      BY <2>3
    <3> HIDE DEF p, q, done, text
    <3>2. Retold(q, text)
          = [kind |-> p.kind, key |-> p.key, status |-> done, text |-> text]
      BY <1>2, <3>1, RetoldPart
    <3>3. QED
      BY <3>2 DEF q
  <2>5. [p EXCEPT !.status = "done", !.text = text] = Retold(At(p, done), text)
    BY DEF Retold, At
  <2>6. QED
    BY <2>1, <2>4, <2>5
<1>9. Shown' = [Shown EXCEPT ![i].status = "done", ![i].text = Abstract!TrimEnd(@)]
  <2>1. Closed(p, done, text) = Moved(i, done, text)
    <3> HIDE DEF p, done, text
    <3>1. QED
      BY <1>1, <1>2, <1>5, Replaced
  <2>2. Shown' = [Shown EXCEPT ![i] = [p EXCEPT !.status = "done", !.text = text]]
    BY <1>7, <1>8, <2>1
  <2>3. [p EXCEPT !.status = "done"].text = p.text
    BY <1>1 DEF Part
  <2>4. QED
    BY <1>1, <1>6, <2>2, <2>3
<1>10. DOMAIN Shown = 1 .. Len(parts)
  BY LenProperties DEF ShownIsParts
<1>11. QED
  BY <1>1, <1>9, <1>10 DEF Abstract!Close, Abstract!Abandoned

\* A tool call moves along its life.
LEMMA AdvanceShown ==
    ASSUME ProcessorTypes, ProcessorTypes', ShownIsParts, ShownIsParts', NEW i \in 1 .. Len(parts),
           NEW status \in Status, Len(parts') = Len(parts),
           parts'[i].kind = parts[i].kind, parts'[i].key = parts[i].key,
           parts'[i].status = status, Held(i)' = Held(i),
           \A j \in 1 .. Len(parts) : j # i => parts'[j] = parts[j] /\ Held(j)' = Held(j),
           \/ parts[i].status = "pending" /\ status \in {"running", "error"}
           \/ parts[i].status = "running" /\ status \in {"completed", "error"}
    PROVE  Abstract!Advance(i)
<1> DEFINE p == Shown[i]
<1>1. /\ i \in DOMAIN Shown /\ p \in Part /\ Held(i) \in Seq(Delta)
      /\ p.kind = parts[i].kind /\ p.key = parts[i].key
      /\ p.status = parts[i].status /\ p.text = Held(i)
  BY ShownFields
<1>2. Shown' = [Shown EXCEPT ![i] = Moved(i, parts'[i].status, Held(i)')]
  BY ShownMoved
<1>3. Moved(i, parts'[i].status, Held(i)')
        = [kind |-> p.kind, key |-> p.key, status |-> status, text |-> p.text]
  BY <1>1 DEF Moved
<1>4. At(p, status) = [kind |-> p.kind, key |-> p.key, status |-> status, text |-> p.text]
  <2>1. p.text \in Seq(Delta)
    BY <1>1
  <2> HIDE DEF p
  <2>2. QED
    BY <1>1, <2>1, Replaced
<1>5. Shown' = [Shown EXCEPT ![i].status = status]
  BY <1>2, <1>3, <1>4 DEF At
<1>6. status \in Abstract!Later(p.status)
  BY <1>1 DEF Abstract!Later
<1>7. QED
  BY <1>5, <1>6 DEF Abstract!Advance

\* A part is added; a text that is still open loses what it was told.
LEMMA AddShown ==
    ASSUME ProcessorTypes, ProcessorTypes', ShownIsParts, ShownIsParts',
           NEW kind \in Abstract!Kind, NEW key \in Abstract!Key(kind),
           NEW p \in Part, p = Abstract!New(kind, key), AddPart(p),
           kind \in {"reasoning", "tool"} =>
             ~\E i \in 1 .. Len(parts) :
                parts[i].kind = kind /\ parts[i].key = key
                /\ parts[i].status \in {"open", "pending", "running"},
           \A i \in 1 .. Len(parts) :
             Held(i)' = IF /\ kind = "text" /\ parts[i].kind = "text"
                           /\ parts[i].status \in {"open", "pending", "running"}
                        THEN <<>> ELSE Held(i),
           \A i \in 1 .. Len(parts') : i = Len(parts) + 1 => Held(i)' = <<>>
    PROVE  Abstract!Next
<1> DEFINE n == Len(parts)
           over == {i \in DOMAIN Shown : /\ kind = "text" /\ Shown[i].kind = "text"
                                         /\ Abstract!IsOpen(i)}
           rest == Abstract!Forget(over)
<1>1. /\ n \in Nat /\ Len(parts') = n + 1 /\ parts'[n + 1] = p
      /\ \A i \in 1 .. n : parts'[i] = parts[i]
      /\ n + 1 \in 1 .. Len(parts')
      /\ \A i \in 1 .. n : i \in 1 .. Len(parts')
  <2>1. n \in Nat /\ Len(parts') = n + 1 /\ parts'[n + 1] = p /\ \A i \in 1 .. n : parts'[i] = parts[i]
    BY Added, Sizes
  <2>2. QED
    BY <2>1
<1>2. /\ Shown \in Seq(Part) /\ Len(Shown) = n /\ DOMAIN Shown = 1 .. n
      /\ Shown' \in Seq(Part) /\ Len(Shown') = n + 1
  BY <1>1, LenProperties DEF ShownIsParts
<1>3. \A i \in 1 .. n :
        /\ Shown[i] \in Part /\ Held(i) \in Seq(Delta)
        /\ Shown[i].kind = parts[i].kind /\ Shown[i].key = parts[i].key
        /\ Shown[i].status = parts[i].status /\ Shown[i].text = Held(i)
  BY ShownFields
<1>4. ASSUME NEW i \in 1 .. Len(parts')
      PROVE  Shown'[i] = [kind |-> parts'[i].kind, key |-> parts'[i].key,
                          status |-> parts'[i].status, text |-> Held(i)']
  BY DEF ShownIsParts, Moved
<1> HIDE DEF n
<1>5. ASSUME NEW i \in 1 .. n PROVE rest[i] = Shown'[i] /\ rest[i] \in Part
  <2> DEFINE q == Shown[i]
  <2>1. /\ Shown'[i] = [kind |-> q.kind, key |-> q.key, status |-> q.status, text |-> Held(i)']
        /\ q \in Part /\ q.text = Held(i) /\ i \in DOMAIN Shown /\ q.text \in Seq(Delta)
    <3>1. /\ q \in Part /\ q.text = Held(i) /\ i \in DOMAIN Shown /\ q.text \in Seq(Delta)
          /\ q.kind = parts[i].kind /\ q.key = parts[i].key /\ q.status = parts[i].status
      BY <1>2, <1>3
    <3>2. parts'[i] = parts[i] /\ i \in 1 .. Len(parts')
      BY <1>1
    <3>3. Shown'[i] = [kind |-> parts'[i].kind, key |-> parts'[i].key,
                       status |-> parts'[i].status, text |-> Held(i)']
      BY <1>4, <3>2
    <3> HIDE DEF q
    <3>4. QED
      BY <3>1, <3>2, <3>3
  <2>2. i \in over <=> /\ kind = "text" /\ parts[i].kind = "text"
                       /\ parts[i].status \in {"open", "pending", "running"}
    BY <1>2, <1>3 DEF Abstract!IsOpen
  <2>3. CASE i \in over
    <3>1. Held(i)' = <<>> /\ <<>> \in Seq(Delta)
      BY <2>2, <2>3 DEF n
    <3>2. rest[i] = Retold(q, <<>>)
      BY <2>1, <2>3 DEF Abstract!Forget, Retold
    <3> HIDE DEF q, rest
    <3>3. Retold(q, <<>>) = Shown'[i]
      BY <2>1, <3>1, RetoldPart
    <3>4. Shown'[i] \in Part
      BY <2>1, <3>1 DEF Part
    <3>5. QED
      BY <3>2, <3>3, <3>4
  <2>4. CASE i \notin over
    <3>1. Held(i)' = q.text
      BY <2>1, <2>2, <2>4 DEF n
    <3>2. rest[i] = q
      BY <2>1, <2>4 DEF Abstract!Forget
    <3> HIDE DEF q, rest
    <3>3. q = Shown'[i]
      BY <2>1, <3>1, RetoldPart
    <3>4. QED
      BY <2>1, <3>2, <3>3
  <2>5. QED
    BY <2>3, <2>4
<1>6. rest \in Seq(Part) /\ Len(rest) = n
  <2>1. DOMAIN rest = 1 .. n
    BY <1>2 DEF Abstract!Forget
  <2>2. rest = [i \in DOMAIN rest |-> rest[i]]
    BY DEF Abstract!Forget
  <2> HIDE DEF rest
  <2>3. rest \in [1 .. n -> Part]
    BY <1>5, <2>1, <2>2
  <2>4. rest \in Seq(Part)
    BY <1>1, <2>3, SeqDef
  <2>5. QED
    BY <1>1, <2>1, <2>4, LenProperties
<1>7. Shown'[n + 1] = p
  <2>1. p.text = <<>>
    BY DEF Abstract!New
  <2>2. p = [kind |-> p.kind, key |-> p.key, status |-> p.status, text |-> p.text]
    BY DEF Part
  <2>3. ASSUME NEW i \in 1 .. Len(parts'), i = n + 1 PROVE Shown'[i] = p
    <3>1. Held(i)' = <<>> /\ parts'[i] = p
      BY <1>1, <2>3 DEF n
    <3>2. QED
      BY <1>4, <2>1, <2>2, <3>1
  <2>4. QED
    BY <1>1, <2>3
<1>8. Shown' = Append(rest, p)
  <2> HIDE DEF rest
  <2>1. /\ Append(rest, p) \in Seq(Part) /\ Len(Append(rest, p)) = n + 1
        /\ Append(rest, p)[n + 1] = p
        /\ \A i \in 1 .. n : Append(rest, p)[i] = rest[i]
    BY <1>6, AppendProperties
  <2>2. \A i \in 1 .. n + 1 : i = n + 1 \/ i \in 1 .. n
    BY <1>1
  <2>3. \A i \in 1 .. n + 1 : Shown'[i] = Append(rest, p)[i]
    BY <1>5, <1>7, <2>1, <2>2
  <2>4. QED
    BY <1>2, <2>1, <2>3, SeqEqual
<1>9. kind \in {"reasoning", "tool"} =>
        ~\E i \in DOMAIN Shown : Shown[i].kind = kind /\ Shown[i].key = key /\ Abstract!IsOpen(i)
  BY <1>2, <1>3 DEF Abstract!IsOpen, n
<1>10. Abstract!Add(kind, key)
  BY <1>8, <1>9 DEF Abstract!Add
<1>11. QED
  BY <1>10 DEF Abstract!Next

\* What an action that adds a part is to MessageParts
LEMMA AddsStep ==
    ASSUME ProcessorTypes, Tracks, ProcessorTypes', Tracks', ShownIsParts, ShownIsParts',
           \/ TextStart \/ Step \/ \E id \in ReasoningIds : ReasoningStart(id)
           \/ \E c \in CallIds : ToolInputStart(c)
    PROVE  Abstract!Next
<1> DEFINE n == Len(parts)
<1>1. /\ n \in Nat /\ n + 1 \notin 1 .. n /\ currentText \in 0 .. n
      /\ currentText # n + 1 /\ 0 \notin 1 .. n
  <2>1. n \in Nat /\ currentText \in 0 .. n
    BY Sizes DEF ProcessorTypes
  <2>2. QED
    BY <2>1
<1>2. ASSUME NEW p \in Part, AddPart(p)
      PROVE  /\ Len(parts') = n + 1 /\ parts'[n + 1] = p
             /\ \A i \in 1 .. n : parts'[i] = parts[i]
  BY <1>2, Added
<1>3. \A i \in 1 .. n : Listed(i)
  BY DEF Tracks
<1> HIDE DEF n
<1>4. CASE TextStart
  <2> DEFINE p == Started("text", "", "open")
             kind == "text"
             key == ""
  <2>1. /\ AddPart(p) /\ p \in Part /\ p.kind = "text" /\ p = Abstract!New(kind, key)
        /\ kind \in Abstract!Kind /\ key \in Abstract!Key(kind)
        /\ kind \notin {"reasoning", "tool"} /\ kind = "text"
    BY <1>4, StartedIsPart
       DEF TextStart, Started, Abstract!New, Abstract!Born, Abstract!Kind, Abstract!Key
  <2>2. /\ currentText' = n + 1 /\ textBuilder' = <<>>
        /\ UNCHANGED <<reasoningMap, reasoningBuf>>
    BY <1>4 DEF TextStart, Next0, n
  <2> HIDE DEF p, kind, key
  <2>3. ASSUME NEW i \in 1 .. n
        PROVE  Held(i)' = IF /\ kind = "text" /\ parts[i].kind = "text"
                             /\ parts[i].status \in {"open", "pending", "running"}
                          THEN <<>> ELSE Held(i)
    <3>1. parts'[i] = parts[i] /\ i # currentText'
      BY <1>1, <1>2, <2>1, <2>2
    <3>2. i = currentText => parts[i].kind = "text" /\ parts[i].status = "open" /\ i # 0
      BY <1>1 DEF Tracks, Current
    <3>3. parts[i].kind = "text" /\ parts[i].status \in {"open", "pending", "running"}
            => parts[i].text = <<>>
      BY <1>3 DEF Listed, Begun
    <3>4. CASE parts[i].kind = "text"
      <4>1. Held(i)' = parts[i].text
        BY <3>1, <3>4 DEF Held
      <4>2. i # currentText => Held(i) = parts[i].text
        BY <3>4 DEF Held
      <4>3. QED
        BY <2>1, <3>2, <3>3, <3>4, <4>1, <4>2
    <3>5. CASE parts[i].kind # "text"
      BY <2>2, <3>1, <3>2, <3>5 DEF Held
    <3>6. QED
      BY <3>4, <3>5
  <2>4. ASSUME NEW i \in 1 .. Len(parts'), i = n + 1 PROVE Held(i)' = <<>>
    BY <2>2, <2>4 DEF Held
  <2>5. QED
    BY <2>1, <2>3, <2>4, AddShown DEF n
<1>5. ASSUME NEW p \in Part, AddPart(p), p.text = <<>>, NEW i \in 1 .. n,
             UNCHANGED <<currentText, textBuilder>>,
             parts[i].kind = "reasoning" /\ parts[i].status = "open" =>
               /\ parts[i].key \in DOMAIN reasoningBuf' <=> parts[i].key \in DOMAIN reasoningBuf
               /\ parts[i].key \in DOMAIN reasoningBuf =>
                    reasoningBuf'[parts[i].key] = reasoningBuf[parts[i].key]
      PROVE  Held(i)' = Held(i)
  <2>1. parts'[i] = parts[i]
    BY <1>2, <1>5
  <2>2. QED
    BY <1>5, <2>1 DEF Held
<1>6. CASE Step
  <2> DEFINE p == Started("step", "", "done")
             kind == "step"
             key == ""
  <2>1. /\ AddPart(p) /\ p \in Part /\ p.kind = "step" /\ p.text = <<>>
        /\ p = Abstract!New(kind, key)
        /\ kind \in Abstract!Kind /\ key \in Abstract!Key(kind)
        /\ kind \notin {"reasoning", "tool"} /\ kind # "text"
    BY <1>6, StartedIsPart
       DEF Step, Started, Abstract!New, Abstract!Born, Abstract!Kind, Abstract!Key
  <2>2. UNCHANGED <<currentText, textBuilder, reasoningBuf>>
    BY <1>6 DEF Step, tracking
  <2> HIDE DEF p, kind, key
  <2>3. \A i \in 1 .. n : Held(i)' = Held(i)
    BY <1>5, <2>1, <2>2
  <2>4. ASSUME NEW i \in 1 .. Len(parts'), i = n + 1 PROVE Held(i)' = <<>>
    <3>1. parts'[i] = p /\ i # currentText'
      BY <1>1, <1>2, <2>1, <2>2, <2>4
    <3>2. QED
      BY <2>1, <3>1 DEF Held
  <2>5. QED
    BY <2>1, <2>3, <2>4, AddShown DEF n
<1>7. ASSUME NEW id \in ReasoningIds, ReasoningStart(id) PROVE Abstract!Next
  <2> DEFINE p == Started("reasoning", id, "open")
             kind == "reasoning"
  <2>1. /\ AddPart(p) /\ p \in Part /\ p.kind = "reasoning" /\ p.text = <<>> /\ p.key = id
        /\ p.status = "open" /\ p = Abstract!New(kind, id)
        /\ kind \in Abstract!Kind /\ id \in Abstract!Key(kind)
        /\ kind = "reasoning"
    BY <1>7, StartedIsPart
       DEF ReasoningStart, Started, Abstract!New, Abstract!Born, Abstract!Kind, Abstract!Key
  <2>2. /\ id \notin DOMAIN reasoningMap /\ reasoningBuf' = With(reasoningBuf, id, <<>>)
        /\ UNCHANGED <<currentText, textBuilder>>
    BY <1>7 DEF ReasoningStart
  <2> HIDE DEF p, kind
  <2>3. ASSUME NEW i \in 1 .. n, parts[i].kind = "reasoning", parts[i].status = "open"
        PROVE  /\ parts[i].key # id
               /\ parts[i].key \in DOMAIN reasoningBuf' <=> parts[i].key \in DOMAIN reasoningBuf
               /\ parts[i].key \in DOMAIN reasoningBuf =>
                    reasoningBuf'[parts[i].key] = reasoningBuf[parts[i].key]
    <3>1. parts[i].key # id
      BY <1>3, <2>2, <2>3 DEF Listed
    <3>2. QED
      BY <2>2, <3>1 DEF With
  <2>4. \A i \in 1 .. n : Held(i)' = Held(i)
    BY <1>5, <2>1, <2>2, <2>3
  <2>5. ASSUME NEW i \in 1 .. Len(parts'), i = n + 1 PROVE Held(i)' = <<>>
    <3>1. parts'[i] = p /\ i # currentText'
      BY <1>1, <1>2, <2>1, <2>2, <2>5
    <3>2. QED
      BY <2>1, <2>2, <3>1 DEF Held, With
  <2>6. ~\E i \in 1 .. n : parts[i].kind = kind /\ parts[i].key = id
                           /\ parts[i].status \in {"open", "pending", "running"}
    BY <1>3, <2>1, <2>3 DEF Listed, Begun
  <2>7. QED
    BY <2>1, <2>4, <2>5, <2>6, AddShown DEF n
<1>8. ASSUME NEW c \in CallIds, ToolInputStart(c) PROVE Abstract!Next
  <2> DEFINE p == Started("tool", c, "pending")
             kind == "tool"
  <2>1. /\ AddPart(p) /\ p \in Part /\ p.kind = "tool" /\ p.text = <<>>
        /\ p = Abstract!New(kind, c)
        /\ kind \in Abstract!Kind /\ c \in Abstract!Key(kind)
        /\ kind = "tool"
    BY <1>8, StartedIsPart
       DEF ToolInputStart, Started, Abstract!New, Abstract!Born, Abstract!Kind, Abstract!Key
  <2>2. c \notin DOMAIN toolCalls /\ UNCHANGED <<currentText, textBuilder, reasoningBuf>>
    BY <1>8 DEF ToolInputStart
  <2> HIDE DEF p, kind
  <2>3. \A i \in 1 .. n : Held(i)' = Held(i)
    BY <1>5, <2>1, <2>2
  <2>4. ASSUME NEW i \in 1 .. Len(parts'), i = n + 1 PROVE Held(i)' = <<>>
    <3>1. parts'[i] = p /\ i # currentText'
      BY <1>1, <1>2, <2>1, <2>2, <2>4
    <3>2. QED
      BY <2>1, <3>1 DEF Held
  <2>5. ~\E i \in 1 .. n : parts[i].kind = kind /\ parts[i].key = c
                           /\ parts[i].status \in {"open", "pending", "running"}
    BY <1>3, <2>1, <2>2 DEF Listed, Begun
  <2>6. QED
    BY <2>1, <2>3, <2>4, <2>5, AddShown DEF n
<1>9. QED
  BY <1>4, <1>6, <1>7, <1>8

\* What the other actions are to MessageParts
LEMMA ChangesStep ==
    ASSUME ProcessorTypes, Tracks, ProcessorTypes', Tracks', ShownIsParts, ShownIsParts',
           \/ TextEnd \/ Finish
           \/ \E d \in Delta : TextDelta(d) \/ \E id \in ReasoningIds : ReasoningDelta(id, d)
           \/ \E id \in ReasoningIds : ReasoningEnd(id)
           \/ \E c \in CallIds : ToolCall(c) \/ ToolResult(c) \/ ToolError(c)
    PROVE  Abstract!Next \/ Shown' = Shown
<1> DEFINE n == Len(parts)
<1>1. /\ n \in Nat /\ 0 \notin 1 .. n
      /\ \A i \in 1 .. n : Listed(i) /\ i \in DOMAIN Shown /\ parts[i].text \in Seq(Delta)
  <2>1. n \in Nat
    BY Sizes
  <2>2. \A i \in 1 .. n : parts[i] \in Part /\ i \in DOMAIN Shown
    BY Sizes, ShownFields
  <2>3. \A i \in 1 .. n : parts[i].text \in Seq(Delta)
    BY <2>2 DEF Part
  <2>4. QED
    BY <2>1, <2>2, <2>3 DEF Tracks
<1>2. currentText # 0 =>
        /\ currentText \in 1 .. n
        /\ parts[currentText].kind = "text" /\ parts[currentText].status = "open"
        /\ ~\E j \in 1 .. n : j > currentText /\ parts[j].kind = "text"
  <2>1. currentText \in 0 .. n
    BY DEF ProcessorTypes
  <2>2. currentText # 0 => currentText \in 1 .. n
    BY <1>1, <2>1
  <2>3. QED
    BY <2>2 DEF Tracks, Current
<1> HIDE DEF n
<1>3. ASSUME NEW i \in 1 .. n, NEW status \in Status, NEW text \in Seq(Delta),
             parts' = [parts EXCEPT ![i] = Moved(i, status, text)]
      PROVE  /\ Len(parts') = n
             /\ parts'[i].kind = parts[i].kind /\ parts'[i].key = parts[i].key
             /\ parts'[i].status = status /\ parts'[i].text = text
             /\ \A j \in 1 .. n : j # i => parts'[j] = parts[j]
  BY <1>3, MovedAt DEF n
<1>4. CASE TextEnd
  <2> DEFINE text == TrimEnd(textBuilder)
  <2>1. /\ parts' = [parts EXCEPT ![currentText] = Moved(currentText, "done", text)]
        /\ currentText \in 1 .. n /\ text \in Seq(Delta) /\ "done" \in Status
    BY <1>4, Moves DEF Status, n
  <2>2. currentText' = 0 /\ currentText # 0 /\ UNCHANGED reasoningBuf
    BY <1>4 DEF TextEnd
  <2>3. PICK i \in 1 .. n : i = currentText
    BY <2>1
  <2> HIDE DEF text
  <2>4. /\ Len(parts') = n
        /\ parts'[i].kind = parts[i].kind /\ parts'[i].key = parts[i].key
        /\ parts'[i].status = "done" /\ parts'[i].text = text
        /\ \A j \in 1 .. n : j # i => parts'[j] = parts[j]
    BY <1>3, <2>1, <2>3
  <2>5. Held(i)' = TrimEnd(Held(i))
    <3>1. Held(i) = textBuilder
      BY <2>3 DEF Held
    <3>2. Held(i)' = text
      BY <1>1, <1>2, <2>2, <2>3, <2>4 DEF Held
    <3>3. QED
      BY <3>1, <3>2 DEF text
  <2>6. ASSUME NEW j \in 1 .. n, j # i PROVE parts'[j] = parts[j] /\ Held(j)' = Held(j)
    BY <1>1, <2>2, <2>3, <2>4, <2>6 DEF Held
  <2>7. Abstract!Close(i)
    BY <1>2, <2>2, <2>3, <2>4, <2>5, <2>6, CloseShown DEF n
  <2>8. QED
    BY <1>1, <2>7 DEF Abstract!Next
<1>5. ASSUME NEW id \in ReasoningIds, ReasoningEnd(id) PROVE Abstract!Next
  <2> DEFINE text == IF id \in DOMAIN reasoningBuf
                     THEN TrimEnd(reasoningBuf[id]) ELSE parts[reasoningMap[id]].text
  <2>1. PICK i \in 1 .. n : i = reasoningMap[id]
    BY <1>5, EndOfReasoning DEF n
  <2>2. /\ text \in Seq(Delta) /\ "done" \in Status
        /\ parts' = [parts EXCEPT ![i] = Moved(i, "done", text)]
        /\ parts[i].kind = "reasoning" /\ parts[i].key = id /\ parts[i].status = "open"
    BY <1>5, <2>1, EndOfReasoning
  <2>3. /\ id \in DOMAIN reasoningMap
        /\ reasoningMap' = Without(reasoningMap, id) /\ reasoningBuf' = Without(reasoningBuf, id)
        /\ UNCHANGED <<currentText, textBuilder>>
    BY <1>5 DEF ReasoningEnd
  <2>4. Held(i) = IF id \in DOMAIN reasoningBuf THEN reasoningBuf[id] ELSE <<>>
    <3>1. parts[i].text = <<>> /\ i # currentText
      BY <1>1, <1>2, <2>2 DEF Listed
    <3>2. QED
      BY <2>2, <3>1 DEF Held
  <2>5. text = TrimEnd(Held(i))
    <3>1. TrimEnd(<<>>) = <<>>
      <4>1. <<>> \in Seq(Delta) /\ Len(<<>>) = 0
        OBVIOUS
      <4>2. TrimEnd(<<>>) \in Seq(Delta) /\ Len(TrimEnd(<<>>)) \in 0 .. 0
        BY <4>1, Trimmed, LastWordIsLast
      <4>3. QED
        BY <4>2, EmptySeq
    <3>2. parts[i].text = <<>>
      BY <1>1, <2>2 DEF Listed
    <3>3. QED
      BY <2>1, <2>4, <3>1, <3>2
  <2> HIDE DEF text
  <2>6. /\ Len(parts') = n
        /\ parts'[i].kind = parts[i].kind /\ parts'[i].key = parts[i].key
        /\ parts'[i].status = "done" /\ parts'[i].text = text
        /\ \A j \in 1 .. n : j # i => parts'[j] = parts[j]
    BY <1>3, <2>2
  <2>7. Held(i)' = TrimEnd(Held(i))
    <3>1. i # currentText'
      BY <1>1, <1>2, <2>2, <2>3
    <3>2. QED
      BY <2>5, <2>6, <3>1 DEF Held
  <2>8. ASSUME NEW j \in 1 .. n, j # i PROVE parts'[j] = parts[j] /\ Held(j)' = Held(j)
    <3>1. parts'[j] = parts[j]
      BY <2>6, <2>8
    <3>2. parts[j].kind = "reasoning" /\ parts[j].status = "open" => parts[j].key # id
      BY <1>1, <2>1, <2>8 DEF Listed
    <3>3. QED
      BY <2>3, <3>1, <3>2 DEF Held, Without
  <2>9. Abstract!Close(i)
    BY <2>2, <2>6, <2>7, <2>8, CloseShown DEF n
  <2>10. QED
    BY <1>1, <2>9 DEF Abstract!Next
<1>6. ASSUME NEW d \in Delta, TextDelta(d) PROVE Abstract!Next
  <2>1. /\ currentText # 0 /\ textBuilder' = Append(textBuilder, d)
        /\ UNCHANGED <<parts, currentText, reasoningBuf>>
    BY <1>6 DEF TextDelta
  <2>2. PICK i \in 1 .. n : i = currentText
    BY <1>2, <2>1
  <2>3. Held(i)' = Append(Held(i), d)
    BY <2>1, <2>2 DEF Held
  <2>4. \A j \in 1 .. n : j # i => Held(j)' = Held(j)
    BY <2>1, <2>2 DEF Held
  <2>5. Abstract!Say(i, d)
    BY <1>2, <2>1, <2>2, <2>3, <2>4, SayShown DEF n
  <2>6. d \in Abstract!Delta
    BY DEF Abstract!Delta, Delta
  <2>7. QED
    BY <1>1, <2>5, <2>6 DEF Abstract!Next
<1>7. ASSUME NEW d \in Delta, NEW id \in ReasoningIds, ReasoningDelta(id, d)
      PROVE  Abstract!Next \/ Shown' = Shown
  <2>1. /\ id \in DOMAIN reasoningMap
        /\ reasoningBuf' = IF id \in DOMAIN reasoningBuf
                           THEN [reasoningBuf EXCEPT ![id] = Append(reasoningBuf[id], d)]
                           ELSE reasoningBuf
        /\ UNCHANGED <<parts, currentText, textBuilder, reasoningMap>>
    BY <1>7 DEF ReasoningDelta
  <2>2. PICK i \in 1 .. n : i = reasoningMap[id]
    BY <2>1 DEF ProcessorTypes, n
  <2>3. parts[i].kind = "reasoning" /\ parts[i].key = id /\ parts[i].status = "open"
    BY <2>1, <2>2 DEF Tracks, Mapped
  <2>4. ASSUME NEW j \in 1 .. n, j # i PROVE Held(j)' = Held(j)
    <3>1. parts[j].kind = "reasoning" /\ parts[j].status = "open" => parts[j].key # id
      BY <1>1, <2>2, <2>4 DEF Listed
    <3>2. QED
      BY <2>1, <3>1 DEF Held
  <2>5. i # currentText
    BY <1>1, <1>2, <2>3
  <2>6. CASE id \in DOMAIN reasoningBuf
    <3>1. Held(i)' = Append(Held(i), d)
      BY <2>1, <2>3, <2>5, <2>6 DEF Held
    <3>2. Abstract!Say(i, d)
      BY <2>1, <2>3, <2>4, <3>1, SayShown DEF n
    <3>3. d \in Abstract!Delta
      BY DEF Abstract!Delta, Delta
    <3>4. QED
      BY <1>1, <3>2, <3>3 DEF Abstract!Next
  <2>7. CASE id \notin DOMAIN reasoningBuf
    <3>1. \A j \in 1 .. n : parts'[j] = parts[j] /\ Held(j)' = Held(j)
      BY <2>1, <2>7 DEF Held
    <3>2. QED
      BY <2>1, <3>1, ShownSame DEF n
  <2>8. QED
    BY <2>6, <2>7
<1>8. ASSUME NEW c \in CallIds, ToolCall(c) \/ ToolResult(c) \/ ToolError(c)
      PROVE  Abstract!Next \/ Shown' = Shown
  <2>1. PICK i \in 1 .. n : i = toolCalls[c]
    BY <1>8, ToolMoves DEF n
  <2>2. /\ parts[i].kind = "tool" /\ parts[i].status \in Begun
        /\ UNCHANGED <<textBuilder, reasoningBuf>>
    BY <1>8, <2>1, ToolMoves
  <2>3. PICK status \in Status :
          /\ parts' = [parts EXCEPT ![i] = Moved(i, status, parts[i].text)]
          /\ UNCHANGED currentText
          /\ \/ status = "running"
             \/ status \in {"completed", "error"} /\ (status = "completed" => parts[i].status = "running")
    BY <1>8, <2>1, ToolMoves
  <2>4. /\ Len(parts') = n
        /\ parts'[i].kind = parts[i].kind /\ parts'[i].key = parts[i].key
        /\ parts'[i].status = status /\ parts'[i].text = parts[i].text
        /\ \A j \in 1 .. n : j # i => parts'[j] = parts[j]
    BY <1>1, <1>3, <2>3
  <2>5. Held(i)' = Held(i)
    BY <2>2, <2>3, <2>4 DEF Held
  <2>6. ASSUME NEW j \in 1 .. n, j # i PROVE parts'[j] = parts[j] /\ Held(j)' = Held(j)
    BY <2>2, <2>3, <2>4, <2>6 DEF Held
  <2>7. CASE status = "running" /\ parts[i].status = "running"
    <3>1. parts' = parts
      <4>1. Moved(i, "running", parts[i].text) = parts[i] /\ i \in DOMAIN parts
        <5>1. parts[i] \in Part /\ i \in DOMAIN parts
          BY Sizes DEF n
        <5>2. QED
          BY <2>7, <5>1 DEF Part, Moved
      <4>2. parts' = [parts EXCEPT ![i] = parts[i]]
        BY <2>3, <2>7, <4>1
      <4>3. parts = [j \in DOMAIN parts |-> parts[j]]
        BY DEF ProcessorTypes
      <4>4. QED
        BY <4>2, <4>3
    <3>2. \A j \in 1 .. n : parts'[j] = parts[j] /\ Held(j)' = Held(j)
      BY <2>5, <2>6, <3>1
    <3>3. QED
      BY <2>4, <3>2, ShownSame DEF n
  <2>8. CASE ~(status = "running" /\ parts[i].status = "running")
    <3>1. \/ parts[i].status = "pending" /\ status \in {"running", "error"}
          \/ parts[i].status = "running" /\ status \in {"completed", "error"}
      BY <2>2, <2>3, <2>8 DEF Begun
    <3>2. Abstract!Advance(i)
      BY <2>4, <2>5, <2>6, <3>1, AdvanceShown DEF n
    <3>3. QED
      BY <1>1, <3>2 DEF Abstract!Next
  <2>9. QED
    BY <2>7, <2>8
<1>9. CASE Finish
  <2> DEFINE lost == {i \in DOMAIN Shown : Shown[i].status = "open"}
             rest == Abstract!Forget(lost)
  <2>1. /\ textBuilder' = <<>> /\ reasoningBuf' = <<>> /\ DOMAIN reasoningBuf' = {}
        /\ UNCHANGED <<parts, currentText>>
    BY <1>9 DEF Finish
  <2>2. /\ Shown' \in Seq(Part) /\ Len(Shown') = n /\ DOMAIN Shown' = 1 .. n
        /\ Shown \in Seq(Part) /\ DOMAIN Shown = 1 .. n
    <3>1. Shown' \in Seq(Part) /\ Len(Shown') = n /\ Shown \in Seq(Part) /\ Len(Shown) = n
      BY <2>1 DEF ShownIsParts, n
    <3>2. QED
      BY <3>1, LenProperties
  <2>3. ASSUME NEW i \in 1 .. n PROVE Shown'[i] = rest[i]
    <3> DEFINE q == Shown[i]
    <3>1. /\ q \in Part /\ q.text = Held(i) /\ i \in DOMAIN Shown
          /\ q.kind = parts[i].kind /\ q.key = parts[i].key /\ q.status = parts[i].status
          /\ Held(i) \in Seq(Delta)
      BY <1>1, ShownFields DEF n
    <3>2. Shown'[i] = [kind |-> q.kind, key |-> q.key, status |-> q.status, text |-> Held(i)']
      <4>1. Shown'[i] = [kind |-> parts'[i].kind, key |-> parts'[i].key,
                         status |-> parts'[i].status, text |-> Held(i)']
        BY <2>1 DEF ShownIsParts, Moved, n
      <4>2. QED
        BY <2>1, <3>1, <4>1
    <3>3. CASE i \in lost
      <4>1. Held(i)' = <<>> /\ <<>> \in Seq(Delta)
        BY <1>1, <2>1, <3>1, <3>3 DEF Held, Listed
      <4>2. rest[i] = Retold(q, <<>>)
        BY <3>1, <3>3 DEF Abstract!Forget, Retold
      <4> HIDE DEF q, rest
      <4>3. QED
        BY <3>1, <3>2, <4>1, <4>2, RetoldPart
    <3>4. CASE i \notin lost
      <4>1. parts[i].status # "open"
        BY <3>1, <3>4
      <4>2. Held(i)' = q.text
        BY <1>1, <1>2, <2>1, <3>1, <4>1 DEF Held
      <4>3. rest[i] = q
        BY <3>1, <3>4 DEF Abstract!Forget
      <4> HIDE DEF q, rest
      <4>4. QED
        BY <3>1, <3>2, <4>2, <4>3, RetoldPart
    <3>5. QED
      BY <3>3, <3>4
  <2>4. DOMAIN rest = 1 .. n /\ rest = [i \in DOMAIN rest |-> rest[i]]
    BY <2>2 DEF Abstract!Forget
  <2>5. Shown' = [i \in DOMAIN Shown' |-> Shown'[i]]
    BY <2>2
  <2> HIDE DEF rest
  <2>6. Shown' = rest
    BY <2>2, <2>3, <2>4, <2>5
  <2>7. QED
    BY <2>6 DEF rest, Abstract!EndStream, Abstract!Next
<1>10. QED
  BY <1>4, <1>5, <1>6, <1>7, <1>8, <1>9

\* The processor implements the promise about parts: whatever events come, in whatever order,
\* every step adds a part, tells an open one something, moves one along its life, or loses
\* what was not closed at the end of the stream (processor.go:82).
THEOREM ImplementsMessageParts == ProcessorSpec => ImplementsParts
<1>1. ProcessorInit => Abstract!Init
  <2>1. SUFFICES ASSUME ProcessorInit PROVE Shown = <<>>
    BY DEF Abstract!Init
  <2>2. parts = <<>>
    BY <2>1 DEF ProcessorInit
  <2>3. DOMAIN Shown = {} /\ Shown = [i \in DOMAIN Shown |-> Shown[i]]
    BY <2>2 DEF Shown
  <2> HIDE DEF Shown
  <2>4. QED
    BY <2>3
<1>2. ASSUME ProcessorTypes, Tracks, ProcessorTypes', Tracks', ShownIsParts, ShownIsParts', [ProcessorNext]_partsVars
      PROVE  [Abstract!Next]_Shown
  <2>1. CASE UNCHANGED partsVars
    BY <2>1 DEF partsVars, Shown
  <2>2. CASE ProcessorNext
    BY <1>2, <2>2, AddsStep, ChangesStep DEF ProcessorNext
  <2>3. QED
    BY <1>2, <2>1, <2>2
<1>3. QED
  BY <1>1, <1>2, ShownAt, TracksHold, PTL DEF ProcessorSpec, ImplementsParts, Abstract!Spec
=============================================================================
