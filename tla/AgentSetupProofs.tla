-------------------------- MODULE AgentSetupProofs --------------------------
(***************************************************************************)
(* Proofs about AgentSetup, for any repositories, versions and numbers of  *)
(* runs, and for texts, entries and lists of hooks of any length.          *)
(*                                                                         *)
(* The argument: Upsert cuts one stretch out of a text and puts the block  *)
(* there, so what stands around it keeps its order, and a text that has    *)
(* the block of a version is given back as it is.  Every file but the one  *)
(* that is open for a write in place has what the user had; so has the     *)
(* content that is about to be written, because it was made of such a      *)
(* file.                                                                   *)
(*                                                                         *)
(* Of a run that has failed nowhere: the files of the phases it has passed *)
(* hold what its version leaves alone, and those of its phase do, or are   *)
(* still in todo.  Which files a phase has is read from the repository it  *)
(* writes to; no write changes that, since a file comes to be only where   *)
(* it is in the list already.                                              *)
(***************************************************************************)
EXTENDS AgentSetup, TLAPS, SequenceTheorems, WellFoundedInduction

(* Texts with marks: what Upsert makes of one, of any length. *)

LEMMA FirstLeast ==
  ASSUME NEW S, S \subseteq Nat, S # {}
  PROVE  First(S) \in S /\ \A y \in S : First(S) <= y
<1> DEFINE R == {ss \in Nat \X Nat : ss[1] < ss[2]}
<1>1. IsWellFoundedOn(R, Nat)
  BY NatLessThanWellFounded DEF OpToRel
<1> HIDE DEF R
<1>2. PICK x \in S : \A y \in S : ~(<<y, x>> \in R)
  BY <1>1, WFMin
<1>3. \A y \in S : ~(y < x)
  BY <1>2 DEF R
<1>4. \E z \in S : \A y \in S : z <= y
  BY <1>3
<1> QED  BY <1>4, Zenon DEF First

LEMMA FirstIs ==
  ASSUME NEW S, S \subseteq Nat, NEW x \in S, \A y \in S : x <= y
  PROVE  First(S) = x
<1>1. First(S) \in S /\ First(S) <= x
  BY FirstLeast
<1>2. x <= First(S) /\ x \in Nat /\ First(S) \in Nat
  BY <1>1
<1> QED  BY <1>1, <1>2

\* Where Upsert puts the block, and how many marks and pieces it takes away there.
At(text)  == IF Found(text) THEN Start(text) ELSE Len(text) + 1
Cut(text) == IF Found(text) THEN End(text) - Start(text) + 1 ELSE 0

LEMMA Span ==
  ASSUME NEW text \in Seq(Marks), Found(text)
  PROVE  /\ Start(text) \in Begins(text) /\ \A b \in Begins(text) : Start(text) <= b
         /\ End(text) \in DOMAIN text /\ End(text) > Start(text) /\ text[End(text)].kind = "end"
         /\ \A e \in DOMAIN text : e > Start(text) /\ text[e].kind = "end" => End(text) <= e
<1>1. DOMAIN text \subseteq Nat
  BY LenProperties
<1>2. Begins(text) \subseteq Nat /\ Begins(text) # {}
  BY <1>1 DEF Begins, Found
<1>3. Start(text) \in Begins(text) /\ \A b \in Begins(text) : Start(text) <= b
  BY <1>2, FirstLeast DEF Start
<1> DEFINE E == {e \in DOMAIN text : e > Start(text) /\ text[e].kind = "end"}
<1>4. E \subseteq Nat /\ E # {}
  BY <1>1, <1>3 DEF Begins
<1>5. First(E) \in E /\ \A e \in E : First(E) <= e
  BY <1>4, FirstLeast
<1> QED  BY <1>3, <1>5 DEF End

LEMMA Room ==
  ASSUME NEW text \in Seq(Marks)
  PROVE  /\ At(text) \in 1 .. Len(text) + 1 /\ Cut(text) \in Nat
         /\ At(text) + Cut(text) <= Len(text) + 1
         /\ Len(text) \in Nat /\ DOMAIN text = 1 .. Len(text)
<1>1. Len(text) \in Nat /\ DOMAIN text = 1 .. Len(text)
  BY LenProperties
<1> QED  BY <1>1, Span DEF At, Cut, Begins

LEMMA BlockIs ==
  ASSUME NEW v \in Nat
  PROVE  /\ Block(v) \in Seq(Marks) /\ Len(Block(v)) = 3
         /\ Block(v)[1] = Mark("begin", v) /\ Block(v)[2] = Mark("rule", v) /\ Block(v)[3] = Mark("end", 0)
BY DEF Block, Mark, Marks

LEMMA Beyond ==
  ASSUME NEW l \in Nat, NEW e \in Int, e <= l
  PROVE  (IF e + 1 <= l THEN l - (e + 1) + 1 ELSE 0) = l - e
<1>1. CASE e = l
  BY <1>1
<1>2. CASE e < l
  <2>1. e + 1 <= l
    BY <1>2
  <2> QED  BY <2>1
<1> QED  BY <1>1, <1>2

\* Upsert cuts there and puts the block in; all else is where it was, the later by so much
\* further on.
LEMMA UpsertIs ==
  ASSUME NEW text \in Seq(Marks), NEW v \in Nat
  PROVE  /\ Upsert(text, v) \in Seq(Marks)
         /\ Len(Upsert(text, v)) = Len(text) - Cut(text) + 3
         /\ \A n \in 1 .. At(text) - 1 : Upsert(text, v)[n] = text[n]
         /\ \A n \in 1 .. 3 : Upsert(text, v)[At(text) - 1 + n] = Block(v)[n]
         /\ \A n \in At(text) + 3 .. Len(Upsert(text, v)) : Upsert(text, v)[n] = text[n - 3 + Cut(text)]
<1> USE DEF At, Cut
<1>1. Len(text) \in Nat /\ DOMAIN text = 1 .. Len(text)
  BY LenProperties
<1>2. Block(v) \in Seq(Marks) /\ Len(Block(v)) = 3
  BY BlockIs
<1>3. CASE Found(text)
  <2> DEFINE s == Start(text)
             e == End(text)
             pre == SubSeq(text, 1, s - 1)
             post == SubSeq(text, e + 1, Len(text))
  <2>1. s \in 1 .. Len(text) /\ e \in 1 .. Len(text) /\ e > s
    BY <1>1, <1>3, Span DEF Begins
  <2>2. \A n \in 1 .. Len(text) : text[n] \in Marks
    BY ElementOfSeq
  <2>3. pre \in Seq(Marks) /\ Len(pre) = s - 1 /\ \A n \in 1 .. s - 1 : pre[n] = text[n]
    <3>1. 1 \in Int /\ s - 1 \in Int /\ \A n \in 1 .. s - 1 : text[n] \in Marks
      BY <2>1, <2>2
    <3> HIDE DEF s
    <3>2. pre \in Seq(Marks) /\ Len(pre) = (IF 1 <= s - 1 THEN (s - 1) - 1 + 1 ELSE 0)
            /\ \A n \in 1 .. (s - 1) - 1 + 1 : pre[n] = text[1 + n - 1]
      BY <3>1, SubSeqProperties
    <3> HIDE DEF pre
    <3> QED  BY <3>1, <3>2, <2>1
  <2>4. post \in Seq(Marks) /\ Len(post) = Len(text) - e /\ \A n \in 1 .. Len(text) - e : post[n] = text[e + n]
    <3>1. e + 1 \in Int /\ Len(text) \in Int /\ \A n \in e + 1 .. Len(text) : text[n] \in Marks
      BY <2>1, <2>2, <1>1
    <3> HIDE DEF e
    <3>2. post \in Seq(Marks) /\ Len(post) = (IF e + 1 <= Len(text) THEN Len(text) - (e + 1) + 1 ELSE 0)
            /\ \A n \in 1 .. Len(text) - (e + 1) + 1 : post[n] = text[(e + 1) + n - 1]
      BY <3>1, SubSeqProperties
    <3> HIDE DEF post
    <3>3. e \in Int /\ e <= Len(text)
      BY <2>1, <1>1
    <3>4. ASSUME NEW n \in 1 .. Len(text) - e
          PROVE  post[n] = text[e + n]
      <4>1. n \in 1 .. Len(text) - (e + 1) + 1 /\ (e + 1) + n - 1 = e + n
        BY <1>1, <3>3
      <4> QED  BY <4>1, <3>2
    <3>5. Len(post) = Len(text) - e
      <4>1. Len(post) = IF e + 1 <= Len(text) THEN Len(text) - (e + 1) + 1 ELSE 0
        BY <3>2
      <4> QED  BY <1>1, <3>3, <4>1, Beyond
    <3> QED  BY <3>2, <3>4, <3>5
  <2>5. Upsert(text, v) = (pre \o Block(v)) \o post
    BY <1>3 DEF Upsert
  <2> HIDE DEF pre, post
  <2>6. pre \o Block(v) \in Seq(Marks) /\ Len(pre \o Block(v)) = s + 2
          /\ \A n \in 1 .. s + 2 : (pre \o Block(v))[n] = IF n <= s - 1 THEN pre[n] ELSE Block(v)[n - (s - 1)]
    <3> HIDE DEF s
    <3>1. /\ pre \o Block(v) \in Seq(Marks) /\ Len(pre \o Block(v)) = Len(pre) + Len(Block(v))
          /\ \A n \in 1 .. Len(pre) + Len(Block(v)) :
               (pre \o Block(v))[n] = IF n <= Len(pre) THEN pre[n] ELSE Block(v)[n - Len(pre)]
      BY ONLY ConcatProperties, <1>2, <2>3
    <3>2. Len(pre) = s - 1 /\ Len(Block(v)) = 3 /\ s - 1 + 3 = s + 2
      BY <1>1, <1>2, <2>1, <2>3
    <3> QED  BY ONLY <3>1, <3>2
  <2> DEFINE front == pre \o Block(v)
  <2> HIDE DEF front
  <2>7. front \o post \in Seq(Marks) /\ Len(front \o post) = s + 2 + (Len(text) - e)
          /\ \A n \in 1 .. s + 2 + (Len(text) - e) :
               (front \o post)[n] = IF n <= s + 2 THEN front[n] ELSE post[n - (s + 2)]
    <3>1. front \in Seq(Marks) /\ Len(front) = s + 2
      BY <2>6 DEF front
    <3> HIDE DEF s, e
    <3>2. /\ front \o post \in Seq(Marks) /\ Len(front \o post) = Len(front) + Len(post)
          /\ \A n \in 1 .. Len(front) + Len(post) :
               (front \o post)[n] = IF n <= Len(front) THEN front[n] ELSE post[n - Len(front)]
      BY ONLY ConcatProperties, <2>4, <3>1
    <3> QED  BY ONLY <2>4, <3>1, <3>2
  <2>8. \A n \in 1 .. s + 2 : front[n] = IF n <= s - 1 THEN pre[n] ELSE Block(v)[n - (s - 1)]
    BY <2>6 DEF front
  <2>9. Upsert(text, v) = front \o post
    BY <2>5 DEF front
  <2>10. At(text) = s /\ Cut(text) = e - s + 1
    BY <1>3
  <2> HIDE DEF s, e, At, Cut
  <2>11. \A n \in 1 .. s - 1 : (front \o post)[n] = text[n]
    <3> TAKE n \in 1 .. s - 1
    <3>1. n \in 1 .. s + 2 /\ n \in 1 .. s + 2 + (Len(text) - e) /\ n <= s + 2 /\ n <= s - 1
      BY <2>1, <1>1
    <3> QED  BY <3>1, <2>3, <2>7, <2>8
  <2>12. \A n \in 1 .. 3 : (front \o post)[s - 1 + n] = Block(v)[n]
    <3> TAKE n \in 1 .. 3
    <3>1. s - 1 + n \in 1 .. s + 2 /\ s - 1 + n \in 1 .. s + 2 + (Len(text) - e) /\ ~(s - 1 + n <= s - 1)
            /\ (s - 1 + n) - (s - 1) = n
      BY <2>1, <1>1
    <3> QED  BY <3>1, <2>7, <2>8
  <2>13. \A n \in s + 3 .. s + 2 + (Len(text) - e) : (front \o post)[n] = text[n - 3 + (e - s + 1)]
    <3> TAKE n \in s + 3 .. s + 2 + (Len(text) - e)
    <3>1. n \in 1 .. s + 2 + (Len(text) - e) /\ ~(n <= s + 2) /\ n - (s + 2) \in 1 .. Len(text) - e
            /\ e + (n - (s + 2)) = n - 3 + (e - s + 1)
      BY <2>1, <1>1
    <3> QED  BY <3>1, <2>7, <2>4
  <2>14. Len(text) - (e - s + 1) + 3 = s + 2 + (Len(text) - e)
    BY <2>1, <1>1
  <2> QED  BY <2>7, <2>9, <2>10, <2>11, <2>12, <2>13, <2>14
<1>4. CASE ~Found(text)
  <2>1. Upsert(text, v) = text \o Block(v)
    BY <1>4 DEF Upsert
  <2>2. text \o Block(v) \in Seq(Marks) /\ Len(text \o Block(v)) = Len(text) + 3
          /\ \A n \in 1 .. Len(text) + 3 : (text \o Block(v))[n] = IF n <= Len(text) THEN text[n] ELSE Block(v)[n - Len(text)]
    <3>1. /\ text \o Block(v) \in Seq(Marks) /\ Len(text \o Block(v)) = Len(text) + Len(Block(v))
          /\ \A n \in 1 .. Len(text) + Len(Block(v)) :
               (text \o Block(v))[n] = IF n <= Len(text) THEN text[n] ELSE Block(v)[n - Len(text)]
      BY ONLY ConcatProperties, <1>2, text \in Seq(Marks)
    <3> QED  BY ONLY <3>1, <1>2
  <2>3. At(text) = Len(text) + 1 /\ Cut(text) = 0
    BY <1>4
  <2> HIDE DEF At, Cut
  <2>4. \A n \in 1 .. 3 : (text \o Block(v))[Len(text) + n] = Block(v)[n]
    <3> TAKE n \in 1 .. 3
    <3>1. Len(text) + n \in 1 .. Len(text) + 3 /\ ~(Len(text) + n <= Len(text)) /\ (Len(text) + n) - Len(text) = n
      BY <1>1
    <3> QED  BY <3>1, <2>2
  <2> QED  BY <1>1, <2>1, <2>2, <2>3, <2>4
<1> QED  BY <1>3, <1>4

\* No mark that begins a block stands before the place of ours.
Clear(text) == \A n \in DOMAIN text : n < At(text) => text[n].kind # "begin"

LEMMA ClearBefore ==
  ASSUME NEW text \in Seq(Marks), Found(text) \/ WellMarked(text)
  PROVE  Clear(text)
<1>1. CASE Found(text)
  <2>1. /\ Start(text) \in Begins(text) /\ \A b \in Begins(text) : Start(text) <= b
        /\ End(text) \in DOMAIN text /\ End(text) > Start(text) /\ text[End(text)].kind = "end"
    BY <1>1, Span
  <2>2. DOMAIN text \subseteq Nat /\ Start(text) \in Nat
    BY <2>1, LenProperties DEF Begins
  <2>3. SUFFICES ASSUME NEW n \in DOMAIN text, n < Start(text), text[n].kind = "begin"
                 PROVE  FALSE
    BY <1>1 DEF Clear, At
  <2>4. End(text) > n
    BY <2>1, <2>2, <2>3
  <2>5. n \in Begins(text)
    BY <2>1, <2>3, <2>4 DEF Begins
  <2> QED  BY <2>1, <2>2, <2>3, <2>5
<1>2. CASE ~Found(text) /\ WellMarked(text)
  BY <1>2 DEF Clear, WellMarked, Found, Begins
<1> QED  BY <1>1, <1>2

\* The block that Upsert writes is the one it finds.
LEMMA FoundAgain ==
  ASSUME NEW text \in Seq(Marks), NEW v \in Nat, Clear(text)
  PROVE  /\ Found(Upsert(text, v)) /\ Start(Upsert(text, v)) = At(text)
         /\ End(Upsert(text, v)) = At(text) + 2
<1> DEFINE out == Upsert(text, v)
           s == At(text)
<1>1. /\ s \in 1 .. Len(text) + 1 /\ Cut(text) \in Nat /\ s + Cut(text) <= Len(text) + 1
      /\ Len(text) \in Nat /\ DOMAIN text = 1 .. Len(text)
  BY Room
<1>2. /\ out \in Seq(Marks) /\ Len(out) = Len(text) - Cut(text) + 3
      /\ \A n \in 1 .. s - 1 : out[n] = text[n]
      /\ \A n \in 1 .. 3 : out[s - 1 + n] = Block(v)[n]
  BY UpsertIs
<1> HIDE DEF out, s
<1>3. DOMAIN out = 1 .. Len(out) /\ s \in DOMAIN out /\ s + 1 \in DOMAIN out /\ s + 2 \in DOMAIN out
  <2>1. DOMAIN out = 1 .. Len(out)
    BY <1>2, LenProperties
  <2> QED  BY <1>1, <1>2, <2>1
<1>4. out[s].kind = "begin" /\ out[s + 1].kind = "rule" /\ out[s + 2].kind = "end"
  <2>1. out[s - 1 + 1] = Block(v)[1] /\ out[s - 1 + 2] = Block(v)[2] /\ out[s - 1 + 3] = Block(v)[3]
    BY <1>2
  <2>2. s - 1 + 1 = s /\ s - 1 + 2 = s + 1 /\ s - 1 + 3 = s + 2
    BY <1>1
  <2>3. Block(v)[1].kind = "begin" /\ Block(v)[2].kind = "rule" /\ Block(v)[3].kind = "end"
    BY DEF Block, Mark
  <2> QED  BY <2>1, <2>2, <2>3
<1>5. s \in Begins(out)
  BY <1>1, <1>3, <1>4 DEF Begins
<1>6. \A b \in Begins(out) : s <= b
  <2>1. SUFFICES ASSUME NEW b \in Begins(out), b < s
                 PROVE  FALSE
    BY <1>1, <1>3 DEF Begins
  <2>2. b \in 1 .. Len(out) /\ out[b].kind = "begin"
    BY <1>3 DEF Begins
  <2>3. b \in 1 .. s - 1 /\ b \in DOMAIN text
    BY <1>1, <1>2, <2>1, <2>2
  <2> QED  BY <1>2, <2>1, <2>2, <2>3 DEF Clear, s
<1>7. Begins(out) \subseteq Nat
  BY <1>3 DEF Begins
<1>8. Start(out) = s
  BY <1>5, <1>6, <1>7, FirstIs DEF Start
<1> DEFINE E == {e \in DOMAIN out : e > Start(out) /\ out[e].kind = "end"}
<1>9. s + 2 \in E /\ E \subseteq Nat
  BY <1>1, <1>3, <1>4, <1>8
<1>10. \A e \in E : s + 2 <= e
  BY <1>1, <1>3, <1>4, <1>8
<1>11. First(E) = s + 2
  BY <1>9, <1>10, FirstIs
<1> QED  BY <1>5, <1>8, <1>11 DEF Found, End, out, s

\* A run after a run of the same version leaves the text as it is: Upsert is idempotent on
\* every text whose marks are whole, whatever stands around them.
THEOREM UpsertIdempotent ==
  ASSUME NEW text \in Seq(Marks), NEW v \in Nat, Found(text) \/ WellMarked(text)
  PROVE  Upsert(Upsert(text, v), v) = Upsert(text, v)
<1> DEFINE out == Upsert(text, v)
           again == Upsert(out, v)
           s == At(text)
<1>1. Clear(text)
  BY ClearBefore
<1>2. /\ s \in 1 .. Len(text) + 1 /\ Cut(text) \in Nat /\ s + Cut(text) <= Len(text) + 1 /\ Len(text) \in Nat
  BY Room
<1>3. /\ out \in Seq(Marks) /\ Len(out) = Len(text) - Cut(text) + 3
      /\ \A n \in 1 .. 3 : out[s - 1 + n] = Block(v)[n]
  BY UpsertIs
<1>4. Found(out) /\ Start(out) = s /\ End(out) = s + 2
  BY <1>1, FoundAgain
<1> HIDE DEF s, out
<1>5. At(out) = s /\ Cut(out) = 3
  BY <1>2, <1>4 DEF At, Cut
<1>6. /\ again \in Seq(Marks) /\ Len(again) = Len(out) - Cut(out) + 3
      /\ \A n \in 1 .. At(out) - 1 : again[n] = out[n]
      /\ \A n \in 1 .. 3 : again[At(out) - 1 + n] = Block(v)[n]
      /\ \A n \in At(out) + 3 .. Len(again) : again[n] = out[n - 3 + Cut(out)]
  BY <1>3, UpsertIs
<1> HIDE DEF again
<1>7. Len(again) = Len(out) /\ Len(out) \in Nat
  BY <1>2, <1>3, <1>5, <1>6
<1>8. ASSUME NEW n \in 1 .. Len(again)
      PROVE  again[n] = out[n]
  <2>1. CASE n < s
    BY <1>2, <1>5, <1>6, <2>1
  <2>2. CASE n >= s /\ n < s + 3
    <3>1. n - s + 1 \in 1 .. 3 /\ s - 1 + (n - s + 1) = n
      BY <1>2, <2>2
    <3> QED  BY <1>3, <1>5, <1>6, <3>1
  <2>3. CASE n >= s + 3
    <3>1. n \in s + 3 .. Len(again) /\ n - 3 + 3 = n
      BY <1>2, <1>7, <2>3
    <3> QED  BY <1>5, <1>6, <3>1
  <2> QED  BY <1>2, <2>1, <2>2, <2>3
<1>9. again = out
  BY <1>3, <1>6, <1>7, <1>8, SeqEqual
<1> QED  BY <1>9 DEF again, out

\* What is well marked stays so, and its prose stays what it was.
LEMMA RuleOnlyWithin ==
  ASSUME NEW text \in Seq(Marks), WellMarked(text)
  PROVE  \A n \in DOMAIN text : At(text) <= n /\ n < At(text) + Cut(text) => text[n].kind # "prose"
<1>1. /\ At(text) \in 1 .. Len(text) + 1 /\ Cut(text) \in Nat
      /\ Len(text) \in Nat /\ DOMAIN text = 1 .. Len(text)
  BY Room
<1>2. SUFFICES ASSUME NEW n \in DOMAIN text, At(text) <= n, n < At(text) + Cut(text)
               PROVE  text[n].kind # "prose"
  OBVIOUS
<1>3. Found(text) /\ Start(text) = At(text)
  BY <1>1, <1>2 DEF At, Cut
<1>4. /\ Start(text) \in Begins(text)
      /\ End(text) \in DOMAIN text /\ End(text) > Start(text) /\ text[End(text)].kind = "end"
      /\ \A e \in DOMAIN text : e > Start(text) /\ text[e].kind = "end" => End(text) <= e
  BY <1>3, Span
<1>5. n <= End(text)
  BY <1>1, <1>2, <1>3, <1>4 DEF Cut, At
<1>6. PICK e \in DOMAIN text :
        e > Start(text) /\ text[e].kind = "end" /\ \A m \in Start(text) + 1 .. e - 1 : text[m].kind = "rule"
  BY <1>4 DEF WellMarked, Begins
<1>7. End(text) <= e
  BY <1>4, <1>6
<1>8. CASE n = Start(text)
  BY <1>4, <1>8 DEF Begins
<1>9. CASE n = End(text)
  BY <1>4, <1>9
<1>10. CASE n > Start(text) /\ n < End(text)
  <2>1. n \in Start(text) + 1 .. e - 1
    BY <1>1, <1>3, <1>4, <1>6, <1>7, <1>10
  <2> QED  BY <1>6, <2>1
<1> QED  BY <1>1, <1>2, <1>3, <1>4, <1>5, <1>8, <1>9, <1>10

\* Where a mark of the new text was in the old one.
Was(text, n) == IF n < At(text) THEN n ELSE n - 3 + Cut(text)

LEMMA Elsewhere ==
  ASSUME NEW text \in Seq(Marks), NEW v \in Nat,
         NEW n \in DOMAIN Upsert(text, v), n < At(text) \/ n > At(text) + 2
  PROVE  Was(text, n) \in DOMAIN text /\ Upsert(text, v)[n] = text[Was(text, n)]
<1> DEFINE out == Upsert(text, v)
<1>1. /\ At(text) \in 1 .. Len(text) + 1 /\ Cut(text) \in Nat /\ At(text) + Cut(text) <= Len(text) + 1
      /\ Len(text) \in Nat /\ DOMAIN text = 1 .. Len(text)
  BY Room
<1>2. /\ out \in Seq(Marks) /\ Len(out) = Len(text) - Cut(text) + 3
      /\ \A m \in 1 .. At(text) - 1 : out[m] = text[m]
      /\ \A m \in At(text) + 3 .. Len(out) : out[m] = text[m - 3 + Cut(text)]
  BY UpsertIs
<1>3. n \in 1 .. Len(out)
  BY <1>2, LenProperties
<1> HIDE DEF out
<1>4. CASE n < At(text)
  <2>1. Was(text, n) = n
    BY <1>4 DEF Was
  <2>2. n \in DOMAIN text /\ out[n] = text[n]
    <3>1. n \in 1 .. At(text) - 1
      BY <1>1, <1>3, <1>4
    <3>2. n \in 1 .. Len(text)
      BY ONLY <1>1, <3>1
    <3> QED  BY <1>1, <1>2, <3>1, <3>2
  <2> QED  BY <2>1, <2>2 DEF out
<1>5. CASE n > At(text) + 2
  <2>1. n \in At(text) + 3 .. Len(out) /\ ~(n < At(text))
    BY <1>1, <1>3, <1>5
  <2>2. n - 3 + Cut(text) \in 1 .. Len(text)
    <3>1. Cut(text) \in Nat /\ Len(text) \in Nat /\ At(text) \in Nat /\ n \in Nat
      BY <1>1, <1>3
    <3>2. n <= Len(text) - Cut(text) + 3 /\ n >= At(text) + 3 /\ At(text) >= 1
      BY <1>1, <1>2, <1>3, <2>1
    <3> QED  BY ONLY <3>1, <3>2
  <2> QED  BY <1>1, <1>2, <2>1, <2>2 DEF Was, out
<1> QED  BY <1>4, <1>5

LEMMA InBlock ==
  ASSUME NEW text \in Seq(Marks), NEW v \in Nat
  PROVE  /\ At(text) \in DOMAIN Upsert(text, v) /\ At(text) + 1 \in DOMAIN Upsert(text, v)
         /\ At(text) + 2 \in DOMAIN Upsert(text, v)
         /\ Upsert(text, v)[At(text)].kind = "begin" /\ Upsert(text, v)[At(text) + 1].kind = "rule"
         /\ Upsert(text, v)[At(text) + 2].kind = "end"
<1> DEFINE out == Upsert(text, v)
           s == At(text)
<1>1. /\ s \in 1 .. Len(text) + 1 /\ Cut(text) \in Nat /\ s + Cut(text) <= Len(text) + 1 /\ Len(text) \in Nat
  BY Room
<1>2. out \in Seq(Marks) /\ Len(out) = Len(text) - Cut(text) + 3
      /\ \A n \in 1 .. 3 : out[s - 1 + n] = Block(v)[n]
  BY UpsertIs
<1>3. DOMAIN out = 1 .. Len(out)
  BY <1>2, LenProperties
<1> HIDE DEF out, s
<1>4. out[s - 1 + 1] = Block(v)[1] /\ out[s - 1 + 2] = Block(v)[2] /\ out[s - 1 + 3] = Block(v)[3]
  BY <1>2
<1>5. s - 1 + 1 = s /\ s - 1 + 2 = s + 1 /\ s - 1 + 3 = s + 2
  BY <1>1
<1>6. Block(v)[1].kind = "begin" /\ Block(v)[2].kind = "rule" /\ Block(v)[3].kind = "end"
  BY DEF Block, Mark
<1>7. s \in DOMAIN out /\ s + 1 \in DOMAIN out /\ s + 2 \in DOMAIN out
  BY <1>1, <1>2, <1>3
<1> QED  BY <1>4, <1>5, <1>6, <1>7 DEF out, s

LEMMA MarksStayWhole ==
  ASSUME NEW text \in Seq(Marks), NEW v \in Nat, WellMarked(text)
  PROVE  WellMarked(Upsert(text, v))
<1> DEFINE out == Upsert(text, v)
           s == At(text)
<1>1. /\ s \in 1 .. Len(text) + 1 /\ Cut(text) \in Nat /\ s + Cut(text) <= Len(text) + 1
      /\ Len(text) \in Nat /\ DOMAIN text = 1 .. Len(text)
  BY Room
<1>2. out \in Seq(Marks) /\ Len(out) = Len(text) - Cut(text) + 3
  BY UpsertIs
<1>3. DOMAIN out = 1 .. Len(out)
  BY <1>2, LenProperties
<1>4. /\ s \in DOMAIN out /\ s + 1 \in DOMAIN out /\ s + 2 \in DOMAIN out
      /\ out[s].kind = "begin" /\ out[s + 1].kind = "rule" /\ out[s + 2].kind = "end"
  BY InBlock
<1>5. Clear(text)
  BY ClearBefore
<1>6. \A n \in DOMAIN out : n < s \/ n > s + 2 => Was(text, n) \in DOMAIN text /\ out[n] = text[Was(text, n)]
  BY Elsewhere
<1>7. SUFFICES ASSUME NEW b \in DOMAIN out, out[b].kind = "begin"
               PROVE  \E e \in DOMAIN out :
                        e > b /\ out[e].kind = "end" /\ \A n \in b + 1 .. e - 1 : out[n].kind = "rule"
  BY DEF WellMarked
<1> HIDE DEF out, s
<1>8. CASE b < s
  BY <1>1, <1>5, <1>6, <1>7, <1>8 DEF Clear, Was, s
<1>9. CASE b = s
  <2>1. s + 2 > b /\ b + 1 .. (s + 2) - 1 = {s + 1}
    BY <1>1, <1>9
  <2>2. \A n \in b + 1 .. (s + 2) - 1 : out[n].kind = "rule"
    BY <1>4, <2>1
  <2> DEFINE d == s + 2
  <2>3. \A n \in b + 1 .. d - 1 : out[n].kind = "rule"
    BY <2>2
  <2>4. d \in DOMAIN out /\ out[d].kind = "end"
    BY <1>4
  <2>5. d > b
    BY <2>1
  <2> HIDE DEF d
  <2> QED  BY <2>3, <2>4, <2>5
<1>10. CASE b > s /\ b <= s + 2
  BY <1>1, <1>3, <1>4, <1>7, <1>10
<1>11. CASE b > s + 2
  <2>1. Was(text, b) = b - 3 + Cut(text)
    BY <1>1, <1>3, <1>11 DEF Was, s
  <2>2. b - 3 + Cut(text) \in DOMAIN text /\ text[b - 3 + Cut(text)].kind = "begin"
    BY <1>6, <1>7, <1>11, <2>1
  <2>3. PICK e \in DOMAIN text :
          /\ e > b - 3 + Cut(text) /\ text[e].kind = "end"
          /\ \A n \in b - 3 + Cut(text) + 1 .. e - 1 : text[n].kind = "rule"
    BY <2>2 DEF WellMarked
  <2> DEFINE d == e + 3 - Cut(text)
  <2>4. d \in DOMAIN out /\ d > b /\ d > s + 2
    BY <1>1, <1>2, <1>3, <1>11, <2>3
  <2>5. Was(text, d) = e
    BY <1>1, <2>4 DEF Was, s
  <2>6. out[d].kind = "end"
    BY <1>6, <2>3, <2>4, <2>5
  <2>7. ASSUME NEW n \in b + 1 .. d - 1
        PROVE  out[n].kind = "rule"
    <3>0. n \in Int /\ b \in Int /\ s \in Int /\ d \in Int /\ Len(out) \in Int
      BY <1>1, <1>2, <1>3, <2>3
    <3>1. n \in DOMAIN out /\ n > s + 2 /\ Was(text, n) = n - 3 + Cut(text)
      <4> HIDE DEF d
      <4>1. n > b /\ n < d /\ d <= Len(out) /\ b >= 1
        BY <1>3, <2>4, <3>0
      <4>2. n \in DOMAIN out /\ n > s + 2
        BY <1>3, <1>11, <3>0, <4>1
      <4>3. ~(n < s)
        BY <3>0, <4>2
      <4> QED  BY <4>2, <4>3 DEF Was, s
    <3>2. n - 3 + Cut(text) \in b - 3 + Cut(text) + 1 .. e - 1
      <4>1. n \in Int /\ b \in Int /\ e \in Int /\ Cut(text) \in Int
        BY <1>1, <1>3, <2>3
      <4>2. b + 1 <= n /\ n <= e + 3 - Cut(text) - 1
        BY <4>1
      <4> QED  BY ONLY <4>1, <4>2
    <3> QED  BY <1>6, <2>3, <3>1, <3>2
  <2> QED  BY <2>4, <2>6, <2>7
<1> QED  BY <1>1, <1>3, <1>8, <1>9, <1>10, <1>11

LEMMA ProseStays ==
  ASSUME NEW text \in Seq(Marks), NEW v \in Nat, WellMarked(text)
  PROVE  SameProse(text, Upsert(text, v))
<1> DEFINE out == Upsert(text, v)
           s == At(text)
           Now(m) == IF m < s THEN m ELSE m + 3 - Cut(text)
           at == [m \in Prose(text) |-> Now(m)]
<1>1. /\ s \in 1 .. Len(text) + 1 /\ Cut(text) \in Nat /\ s + Cut(text) <= Len(text) + 1
      /\ Len(text) \in Nat /\ DOMAIN text = 1 .. Len(text)
  BY Room
<1>2. out \in Seq(Marks) /\ Len(out) = Len(text) - Cut(text) + 3
  BY UpsertIs
<1>3. DOMAIN out = 1 .. Len(out)
  BY <1>2, LenProperties
<1>4. /\ out[s].kind = "begin" /\ out[s + 1].kind = "rule" /\ out[s + 2].kind = "end"
  BY InBlock
<1>5. \A n \in DOMAIN out : n < s \/ n > s + 2 => Was(text, n) \in DOMAIN text /\ out[n] = text[Was(text, n)]
  BY Elsewhere
<1>6. \A n \in DOMAIN text : s <= n /\ n < s + Cut(text) => text[n].kind # "prose"
  BY RuleOnlyWithin
<1> HIDE DEF out, s
<1>7. ASSUME NEW m \in Prose(text)
      PROVE  /\ Now(m) \in Prose(out) /\ out[Now(m)] = text[m]
             /\ m < s \/ (m >= s + Cut(text) /\ Now(m) > s + 2)
  <2>1. m \in 1 .. Len(text) /\ text[m].kind = "prose" /\ (m < s \/ m >= s + Cut(text))
    BY <1>1, <1>6 DEF Prose
  <2>2. Now(m) \in DOMAIN out /\ (Now(m) < s \/ Now(m) > s + 2) /\ Was(text, Now(m)) = m
    BY <1>1, <1>2, <1>3, <2>1 DEF Was, s
  <2>3. out[Now(m)] = text[m]
    BY <1>5, <2>2
  <2>4. m < s \/ (m >= s + Cut(text) /\ Now(m) > s + 2)
    BY <1>1, <2>1
  <2> QED  BY <2>1, <2>2, <2>3, <2>4 DEF Prose
<1>8. ASSUME NEW n \in Prose(out)
      PROVE  \E m \in Prose(text) : Now(m) = n
  <2>1. n \in DOMAIN out /\ out[n].kind = "prose"
    BY DEF Prose
  <2>2. n < s \/ n > s + 2
    BY <1>1, <1>3, <1>4, <2>1
  <2>3. Was(text, n) \in DOMAIN text /\ out[n] = text[Was(text, n)]
    BY <1>5, <2>1, <2>2
  <2>4. Was(text, n) \in Prose(text)
    BY <2>1, <2>3 DEF Prose
  <2>5. Now(Was(text, n)) = n
    BY <1>1, <1>3, <2>1, <2>2 DEF Was, s
  <2> QED  BY <2>4, <2>5
<1>9. ASSUME NEW m \in Prose(text), NEW n \in Prose(text), m < n
      PROVE  Now(m) < Now(n)
  <2>1. m \in Nat /\ n \in Nat
    BY <1>1 DEF Prose
  <2>2. m < s \/ m >= s + Cut(text)
    BY <1>7
  <2>3. n < s \/ (n >= s + Cut(text) /\ Now(n) > s + 2)
    BY <1>7
  <2> QED  BY <1>1, <1>9, <2>1, <2>2, <2>3
<1> HIDE DEF Now
<1>10. at \in [Prose(text) -> Prose(out)]
  BY <1>7
<1>11. \A n \in Prose(out) : \E m \in Prose(text) : at[m] = n
  BY <1>8
<1>12. \A m, n \in Prose(text) : m < n => at[m] < at[n]
  BY <1>9
<1>13. \A m \in Prose(text) : out[at[m]] = text[m]
  BY <1>7
<1> HIDE DEF at
<1> QED  BY <1>10, <1>11, <1>12, <1>13 DEF SameProse, out

LEMMA ProseIsItself ==
  ASSUME NEW text \in Seq(Marks)
  PROVE  SameProse(text, text)
<1> DEFINE at == [m \in Prose(text) |-> m]
<1>1. /\ at \in [Prose(text) -> Prose(text)]
      /\ \A n \in Prose(text) : \E m \in Prose(text) : at[m] = n
      /\ \A m, n \in Prose(text) : m < n => at[m] < at[n]
      /\ \A m \in Prose(text) : text[at[m]] = text[m]
  OBVIOUS
<1> QED  BY <1>1 DEF SameProse

LEMMA ProseOverTwo ==
  ASSUME NEW a, NEW b, NEW c, SameProse(a, b), SameProse(b, c)
  PROVE  SameProse(a, c)
<1>1. PICK f \in [Prose(a) -> Prose(b)] :
        /\ \A n \in Prose(b) : \E m \in Prose(a) : f[m] = n
        /\ \A m, n \in Prose(a) : m < n => f[m] < f[n]
        /\ \A m \in Prose(a) : b[f[m]] = a[m]
  BY DEF SameProse
<1>2. PICK g \in [Prose(b) -> Prose(c)] :
        /\ \A n \in Prose(c) : \E m \in Prose(b) : g[m] = n
        /\ \A m, n \in Prose(b) : m < n => g[m] < g[n]
        /\ \A m \in Prose(b) : c[g[m]] = b[m]
  BY DEF SameProse
<1> DEFINE at == [m \in Prose(a) |-> g[f[m]]]
<1>3. at \in [Prose(a) -> Prose(c)]
  BY <1>1, <1>2
<1>4. \A n \in Prose(c) : \E m \in Prose(a) : at[m] = n
  <2> TAKE n \in Prose(c)
  <2>1. PICK k \in Prose(b) : g[k] = n
    BY <1>2
  <2>2. PICK m \in Prose(a) : f[m] = k
    BY <1>1
  <2> QED  BY <2>1, <2>2
<1>5. \A m, n \in Prose(a) : m < n => at[m] < at[n]
  BY <1>1, <1>2
<1>6. \A m \in Prose(a) : c[at[m]] = a[m]
  BY <1>1, <1>2
<1> HIDE DEF at
<1> QED  BY <1>3, <1>4, <1>5, <1>6 DEF SameProse
-----------------------------------------------------------------------------
(* The files, and what a run makes of each *)

LEMMA ContentIs ==
  /\ Content(Toml) = Scaffolds /\ Content(Framework) = Frameworks /\ Content(Native) = Hooks
  /\ \A f \in McpFiles : Content(f) = Configs
  /\ \A f \in RuleFiles : Content(f) = Texts
BY DEF Content, Toml, Framework, Native, McpFiles, RuleFiles

LEMMA NamesDiffer ==
  /\ Toml # Framework /\ Toml # Native /\ Framework # Native
  /\ Toml \notin McpFiles \union RuleFiles /\ Framework \notin McpFiles \union RuleFiles
  /\ Native \notin McpFiles \union RuleFiles /\ McpFiles \intersect RuleFiles = {}
BY DEF Toml, Framework, Native, McpFiles, RuleFiles

\* The kind of content that a run writes to a file.
Kind(f) ==
  CASE f = Toml -> "scaffold" [] f \in McpFiles -> "json" [] f \in RuleFiles -> "text"
    [] f = Framework -> "yaml" [] f = Native -> "hook"

LEMMA KindIs ==
  /\ Kind(Toml) = "scaffold" /\ Kind(Framework) = "yaml" /\ Kind(Native) = "hook"
  /\ \A f \in McpFiles : Kind(f) = "json"
  /\ \A f \in RuleFiles : Kind(f) = "text"
BY DEF Kind, Toml, Framework, Native, McpFiles, RuleFiles

LEMMA DecisionIs ==
  /\ Decision(Toml) = Scaffolded /\ Decision(Framework) = Framed /\ Decision(Native) = Hooked
  /\ \A f \in McpFiles : Decision(f) = Registered(f)
  /\ \A f \in RuleFiles : Decision(f) = Ruled(f)
BY DEF Decision, Toml, Framework, Native, McpFiles, RuleFiles

LEMMA NeverAbsent ==
  ASSUME NEW f \in Files, NEW c \in Content(f)
  PROVE  c # Absent /\ c.is # "absent"
<1>1. f = Toml => c.is \in {"users", "torn", "scaffold"}
  BY ContentIs DEF Scaffolds
<1>2. f \in McpFiles => c.is \in {"broken", "shape", "json"}
  BY ContentIs DEF Configs
<1>3. f \in RuleFiles => c.is = "text"
  <2>1. \A x \in Texts : x.is = "text"
    BY DEF Texts
  <2> QED  BY <2>1, ContentIs
<1>4. f = Framework => c.is \in {"broken", "yaml"}
  BY ContentIs DEF Frameworks
<1>5. f = Native => c.is \in {"foreign", "hook", "torn"}
  <2>1. \A x \in Hooks : x.is \in {"foreign", "hook", "torn"}
    BY DEF Hooks
  <2> QED  BY <2>1, ContentIs
<1>6. c.is # "absent"
  BY <1>1, <1>2, <1>3, <1>4, <1>5 DEF Files
<1> QED  BY <1>6 DEF Absent

\* What the files hold, and what the run is.
Held ==
  /\ origin \in Repos
  /\ DOMAIN fs = Files /\ \A f \in Files : fs[f] \in Content(f) \union {Absent}
  /\ version \in Versions

LEMMA ScaffoldCases ==
  ASSUME Held
  PROVE  \/ Scaffolded = Leave /\ There(Toml)
         \/ Scaffolded = Write([is |-> "scaffold", v |-> version])
BY DEF Scaffolded

LEMMA RegisteredCases ==
  ASSUME Held, NEW f \in McpFiles
  PROVE  \/ Registered(f) = Refuse
         \/ Registered(f) = Leave /\ fs[f].is = "json" /\ fs[f].ours = "current"
         \/ /\ fs[f] = Absent \/ fs[f].is = "json"
            /\ Registered(f) = Write([is |-> "json", others |-> IF There(f) THEN fs[f].others ELSE {}, ours |-> "current"])
<1>1. fs[f] \in Configs \union {Absent}
  BY ContentIs DEF Held, Files
<1>2. CASE fs[f].is \in {"broken", "shape"}
  BY <1>2 DEF Registered
<1>3. CASE fs[f].is \notin {"broken", "shape"}
  <2>1. fs[f] = Absent \/ fs[f].is = "json"
    BY <1>1, <1>3 DEF Configs
  <2> QED  BY <1>3, <2>1 DEF Registered, There
<1> QED  BY <1>2, <1>3

LEMMA Seeds ==
  /\ <<>> \in Seq(Marks) /\ WellMarked(<<>>) /\ ~Found(<<>>)
  /\ <<Mark("seed", 0)>> \in Seq(Marks) /\ WellMarked(<<Mark("seed", 0)>>) /\ ~Found(<<Mark("seed", 0)>>)
<1>1. <<>> \in Seq(Marks) /\ <<Mark("seed", 0)>> \in Seq(Marks)
  BY DEF Mark, Marks
<1>2. WellMarked(<<>>) /\ ~Found(<<>>)
  BY DEF WellMarked, Found, Begins
<1>3. \A n \in DOMAIN <<Mark("seed", 0)>> : <<Mark("seed", 0)>>[n].kind = "seed"
  BY DEF Mark
<1>4. WellMarked(<<Mark("seed", 0)>>) /\ ~Found(<<Mark("seed", 0)>>)
  BY <1>3 DEF WellMarked, Found, Begins
<1> QED  BY <1>1, <1>2, <1>4

LEMMA RuledCases ==
  ASSUME Held, NEW f \in RuleFiles
  PROVE  \/ /\ Ruled(f) = Leave /\ fs[f].is = "text" /\ fs[f].text \in Seq(Marks)
            /\ Found(fs[f].text) /\ Upsert(fs[f].text, version) = fs[f].text
         \/ \E text \in Seq(Marks) :
              /\ Ruled(f) = Write([is |-> "text", text |-> Upsert(text, version)])
              /\ There(f) => fs[f].is = "text" /\ text = fs[f].text
              /\ ~There(f) => WellMarked(text)
<1>1. fs[f] \in Texts \union {Absent}
  BY ContentIs DEF Held, Files
<1>2. CASE There(f)
  <2>1. fs[f].is = "text" /\ fs[f].text \in Seq(Marks)
    BY <1>1, <1>2 DEF There, Texts
  <2>2. CASE Found(fs[f].text) /\ Upsert(fs[f].text, version) = fs[f].text
    BY <1>2, <2>1, <2>2 DEF Ruled
  <2>3. CASE ~(Found(fs[f].text) /\ Upsert(fs[f].text, version) = fs[f].text)
    <3>1. Ruled(f) = Write([is |-> "text", text |-> Upsert(fs[f].text, version)])
      BY <1>2, <2>3 DEF Ruled
    <3> QED  BY <1>2, <2>1, <3>1
  <2> QED  BY <2>2, <2>3
<1>3. CASE ~There(f)
  <2> DEFINE seed == IF f = "rowshape.mdc" THEN <<Mark("seed", 0)>> ELSE <<>>
  <2>1. seed \in Seq(Marks) /\ WellMarked(seed) /\ ~Found(seed)
    BY Seeds
  <2>2. Ruled(f) = IF Found(seed) /\ Upsert(seed, version) = seed THEN Leave
                   ELSE Write([is |-> "text", text |-> Upsert(seed, version)])
    BY <1>3 DEF Ruled
  <2> HIDE DEF seed
  <2> QED  BY <1>3, <2>1, <2>2
<1> QED  BY <1>2, <1>3

LEMMA FramedCases ==
  ASSUME Held, There(Framework)
  PROVE  \/ Framed = Refuse
         \/ /\ fs[Framework].is = "yaml" /\ fs[Framework].repos \in Seq(Entries)
            /\ \/ /\ HookRepos(fs[Framework].repos) = {}
                  /\ Framed = Write([is |-> "yaml", repos |-> Append(fs[Framework].repos, OurEntry)])
               \/ \E n \in DOMAIN fs[Framework].repos :
                    /\ n = First(HookRepos(fs[Framework].repos)) /\ n \in HookRepos(fs[Framework].repos)
                    /\ \/ Framed = Leave /\ fs[Framework].repos[n] = OurEntry
                       \/ Framed = Write([is |-> "yaml", repos |-> [fs[Framework].repos EXCEPT ![n] = OurEntry]])
<1>1. fs[Framework] \in Frameworks
  BY ContentIs DEF Held, Files, There
<1>2. CASE fs[Framework].is = "broken"
  BY <1>2 DEF Framed
<1>3. CASE fs[Framework].is # "broken"
  <2> DEFINE repos == fs[Framework].repos
  <2>1. fs[Framework].is = "yaml" /\ repos \in Seq(Entries)
    BY <1>1, <1>3 DEF Frameworks, Entries
  <2>2. CASE HookRepos(repos) = {}
    BY <1>3, <2>1, <2>2 DEF Framed
  <2>3. CASE HookRepos(repos) # {}
    <3> DEFINE n == First(HookRepos(repos))
    <3>1. HookRepos(repos) \subseteq Nat /\ HookRepos(repos) \subseteq DOMAIN repos
      BY <2>1, LenProperties DEF HookRepos
    <3>2. n \in HookRepos(repos)
      BY <2>3, <3>1, FirstLeast
    <3>3. Framed = IF repos[n] = OurEntry THEN Leave
                   ELSE Write([is |-> "yaml", repos |-> [repos EXCEPT ![n] = OurEntry]])
      BY <1>3, <2>3 DEF Framed
    <3>4. n = First(HookRepos(repos)) /\ n \in DOMAIN repos
      BY <3>1, <3>2
    <3> HIDE DEF n
    <3> QED  BY <2>1, <3>2, <3>3, <3>4
  <2> QED  BY <2>2, <2>3
<1> QED  BY <1>2, <1>3

LEMMA HookedCases ==
  ASSUME Held
  PROVE  \/ Hooked = Refuse
         \/ /\ origin.git # "file"
            /\ There(Native) => fs[Native].marked
            /\ \/ Hooked = Leave /\ fs[Native].is = "hook" /\ fs[Native].v = version
               \/ \E b \in BOOLEAN : Hooked = Write([is |-> "hook", marked |-> TRUE, v |-> version, runs |-> b])
<1>1. fs[Native] \in Hooks \union {Absent}
  BY ContentIs DEF Held, Files
<1>2. CASE origin.git = "file" \/ (There(Native) /\ ~fs[Native].marked)
  BY <1>2 DEF Hooked
<1>3. CASE origin.git # "file" /\ ~(There(Native) /\ ~fs[Native].marked)
  <2> DEFINE b == IF There(Native) THEN fs[Native].runs ELSE TRUE
             want == [is |-> "hook", marked |-> TRUE, v |-> version, runs |-> b]
  <2>1. b \in BOOLEAN
    BY <1>1 DEF There, Hooks
  <2>2. Hooked = IF fs[Native] = want THEN Leave ELSE Write(want)
    BY <1>3 DEF Hooked
  <2>3. fs[Native] = want => fs[Native].is = "hook" /\ fs[Native].v = version
    OBVIOUS
  <2> HIDE DEF b
  <2> QED  BY <1>3, <2>1, <2>2, <2>3
<1> QED  BY <1>2, <1>3

\* What a run writes to a file.
Made(f) == {c \in Content(f) : c.is = Kind(f)}

LEMMA EntryIs ==
  ASSUME Held
  PROVE  OurEntry \in Entries /\ OurEntry.hooks = {"rowshape"} /\ version \in Nat
<1>1. version \in Nat
  BY VersionsAssumption DEF Held
<1>2. {"rowshape"} \in SUBSET (Theirs \union {"rowshape"})
  OBVIOUS
<1> QED  BY <1>1, <1>2 DEF OurEntry, Entries

LEMMA DecisionMakes ==
  ASSUME Held, NEW f \in Files, f = Framework => There(f)
  PROVE  Decision(f) = Leave \/ Decision(f) = Refuse \/ \E c \in Made(f) : Decision(f) = Write(c)
<1>0. version \in Versions /\ version \in Nat
  BY EntryIs DEF Held
<1>1. CASE f = Toml
  <2>1. [is |-> "scaffold", v |-> version] \in Made(f)
    BY <1>0, <1>1, ContentIs, KindIs DEF Made, Scaffolds
  <2> QED  BY <1>1, <2>1, ScaffoldCases, DecisionIs
<1>2. CASE f \in McpFiles
  <2> DEFINE c == [is |-> "json", others |-> IF There(f) THEN fs[f].others ELSE {}, ours |-> "current"]
  <2>1. ASSUME fs[f] = Absent \/ fs[f].is = "json"
        PROVE  c \in Made(f)
    <3>1. fs[f] \in Configs \union {Absent}
      BY <1>2, ContentIs DEF Held
    <3>2. (IF There(f) THEN fs[f].others ELSE {}) \in SUBSET Theirs
      BY <2>1, <3>1 DEF There, Configs
    <3>3. c \in Configs
      BY <3>2 DEF Configs
    <3> QED  BY <1>2, <3>3, ContentIs, KindIs DEF Made
  <2>2. Decision(f) = Registered(f)
    BY <1>2, DecisionIs
  <2> QED  BY <1>2, <2>1, <2>2, RegisteredCases
<1>3. CASE f \in RuleFiles
  <2>1. ASSUME NEW text \in Seq(Marks)
        PROVE  [is |-> "text", text |-> Upsert(text, version)] \in Made(f)
    <3>1. Upsert(text, version) \in Seq(Marks)
      BY <1>0, UpsertIs
    <3> QED  BY <1>3, <3>1, ContentIs, KindIs DEF Made, Texts
  <2>2. Decision(f) = Ruled(f)
    BY <1>3, DecisionIs
  <2> QED  BY <1>3, <2>1, <2>2, RuledCases
<1>4. CASE f = Framework
  <2> DEFINE repos == fs[Framework].repos
  <2>1. OurEntry \in Entries
    BY EntryIs
  <2>2. ASSUME NEW r \in Seq(Entries)
        PROVE  [is |-> "yaml", repos |-> r] \in Made(Framework)
    <3>1. [is |-> "yaml", repos |-> r] \in Frameworks
      BY DEF Frameworks, Entries
    <3> QED  BY <3>1, ContentIs, KindIs DEF Made
  <2>3. repos \in Seq(Entries) => Append(repos, OurEntry) \in Seq(Entries)
    BY <2>1, AppendProperties
  <2>4. ASSUME repos \in Seq(Entries), NEW n \in DOMAIN repos
        PROVE  [repos EXCEPT ![n] = OurEntry] \in Seq(Entries)
    <3>1. n \in 1 .. Len(repos)
      BY <2>4, LenProperties
    <3> QED  BY <2>1, <2>4, <3>1, ExceptSeq
  <2> HIDE DEF repos
  <2>5. \/ Framed = Refuse \/ Framed = Leave
        \/ repos \in Seq(Entries) /\ Framed = Write([is |-> "yaml", repos |-> Append(repos, OurEntry)])
        \/ repos \in Seq(Entries)
             /\ \E n \in DOMAIN repos : Framed = Write([is |-> "yaml", repos |-> [repos EXCEPT ![n] = OurEntry]])
    BY <1>4, FramedCases DEF repos
  <2>6. \/ Framed = Refuse \/ Framed = Leave
        \/ \E r \in Seq(Entries) : Framed = Write([is |-> "yaml", repos |-> r])
    BY <2>3, <2>4, <2>5
  <2> QED  BY <1>4, <2>2, <2>6, DecisionIs
<1>5. CASE f = Native
  <2>1. \A b \in BOOLEAN : [is |-> "hook", marked |-> TRUE, v |-> version, runs |-> b] \in Made(f)
    BY <1>0, <1>5, ContentIs, KindIs DEF Made, Hooks
  <2> QED  BY <1>5, <2>1, HookedCases, DecisionIs
<1> QED  BY <1>1, <1>2, <1>3, <1>4, <1>5 DEF Files

\* What a write that was cut off leaves is content of the file.
LEMMA TornIsContent ==
  ASSUME NEW f \in Files, NEW c \in Made(f), ~Atomic(f)
  PROVE  Emptied(f, c) \in Content(f) /\ Torn(f, c) \subseteq Content(f)
<1>1. CASE f = Toml
  <2>1. Emptied(f, c) = [is |-> "torn"] /\ Torn(f, c) = {Emptied(f, c)}
    BY <1>1, NamesDiffer DEF Emptied, Torn
  <2> QED  BY <1>1, <2>1, ContentIs DEF Scaffolds
<1>2. CASE f = Framework
  <2>1. c.is = "yaml" /\ c \in Frameworks
    BY <1>2, ContentIs, KindIs DEF Made
  <2>2. PICK r \in Seq(Entries) : c = [is |-> "yaml", repos |-> r]
    BY <2>1 DEF Frameworks, Entries
  <2>3. ASSUME NEW n \in 1 .. Len(c.repos) - 1
        PROVE  [c EXCEPT !.repos = SubSeq(c.repos, 1, n)] \in Frameworks
    <3>0. n \in 1 .. Len(r) - 1 /\ Len(r) \in Nat
      BY <2>2, LenProperties
    <3>1. \A m \in 1 .. n : r[m] \in Entries
      BY <3>0, ElementOfSeq
    <3>2. SubSeq(r, 1, n) \in Seq(Entries)
      BY <3>0, <3>1, SubSeqProperties
    <3>3. PICK cut : cut = SubSeq(r, 1, n)
      OBVIOUS
    <3>4. [c EXCEPT !.repos = cut] = [is |-> "yaml", repos |-> cut]
      BY ONLY <2>2
    <3>5. c.repos = r
      BY ONLY <2>2
    <3> QED  BY <3>2, <3>3, <3>4, <3>5 DEF Frameworks, Entries
  <2>4. Emptied(f, c) = [is |-> "broken"] /\ Emptied(f, c) \in Frameworks
    BY <1>2, NamesDiffer DEF Emptied, Frameworks
  <2>5. Torn(f, c) = {Emptied(f, c)} \union {[c EXCEPT !.repos = SubSeq(c.repos, 1, n)] : n \in 1 .. Len(c.repos) - 1}
    BY <1>2, NamesDiffer DEF Torn
  <2> QED  BY <1>2, <2>3, <2>4, <2>5, ContentIs
<1>3. CASE f = Native
  <2>1. c.is = "hook" /\ c \in Hooks
    BY <1>3, ContentIs, KindIs DEF Made
  <2>2. c.runs \in BOOLEAN
    BY <2>1 DEF Hooks
  <2>3. Emptied(f, c) = [is |-> "torn", marked |-> FALSE, runs |-> c.runs]
    BY <1>3, NamesDiffer DEF Emptied
  <2>4. Torn(f, c) = {Emptied(f, c)} \union {[is |-> "torn", marked |-> TRUE, runs |-> c.runs]}
    BY <1>3, NamesDiffer DEF Torn
  <2>5. \A b \in BOOLEAN : [is |-> "torn", marked |-> b, runs |-> c.runs] \in Hooks
    BY <2>2 DEF Hooks
  <2> QED  BY <1>3, <2>3, <2>4, <2>5, ContentIs
<1> QED  BY <1>1, <1>2, <1>3 DEF Files, Atomic

\* The files of a phase.
OfPhase(p) ==
  CASE p = "idle"    -> {}
    [] p = "scaffold" -> {Toml}
    [] p = "clients" -> McpFiles
    [] p = "rules"   -> RuleFiles
    [] p = "hook"    -> {Framework, Native}

Phases == {"idle", "scaffold", "clients", "rules", "hook"}

LEMMA PhaseFiles ==
  /\ OfPhase("scaffold") = {Toml} /\ OfPhase("clients") = McpFiles /\ OfPhase("rules") = RuleFiles
  /\ OfPhase("hook") = {Framework, Native} /\ OfPhase("idle") = {}
  /\ \A p \in Phases : OfPhase(p) \subseteq Files
BY DEF OfPhase, Phases, Files

LEMMA ClientsTyped == Clients \in Seq(McpFiles)
<1> DEFINE a == Client(".mcp.json")
           b == Client(".cursor/mcp.json")
           c == Client(".vscode/mcp.json")
<1>1. a \in Seq(McpFiles) /\ b \in Seq(McpFiles) /\ c \in Seq(McpFiles) /\ <<".mcp.json">> \in Seq(McpFiles)
  <2>1. \A f \in McpFiles : <<f>> \in Seq(McpFiles) /\ Client(f) \in Seq(McpFiles)
    BY DEF Client
  <2> QED  BY <2>1 DEF McpFiles
<1> HIDE DEF a, b, c
<1>2. (a \o b) \o c \in Seq(McpFiles)
  BY <1>1, ConcatProperties
<1>3. Clients = IF (a \o b) \o c = <<>> THEN <<".mcp.json">> ELSE (a \o b) \o c
  BY DEF Clients, a, b, c
<1> QED  BY <1>1, <1>2, <1>3

LEMMA TargetsTyped == Targets \in Seq(RuleFiles)
<1> DEFINE a == Target("AGENTS.md")
           b == Target("CLAUDE.md")
           c == Target("rowshape.mdc")
<1>1. a \in Seq(RuleFiles) /\ b \in Seq(RuleFiles) /\ c \in Seq(RuleFiles) /\ <<"AGENTS.md">> \in Seq(RuleFiles)
  <2>1. \A f \in RuleFiles : <<f>> \in Seq(RuleFiles) /\ Target(f) \in Seq(RuleFiles)
    BY DEF Target
  <2> QED  BY <2>1 DEF RuleFiles
<1> HIDE DEF a, b, c
<1>2. (a \o b) \o c \in Seq(RuleFiles)
  BY <1>1, ConcatProperties
<1>3. Targets = IF (a \o b) \o c = <<>> THEN <<"AGENTS.md">> ELSE (a \o b) \o c
  BY DEF Targets, a, b, c
<1> QED  BY <1>1, <1>2, <1>3
-----------------------------------------------------------------------------
(* The type of the state *)

TypeInv ==
  /\ TypeOK
  /\ todo \in Seq(OfPhase(pc))
  /\ pc = "idle" => io = "none" /\ todo = <<>>
  /\ io # "none" => new \in Made(Head(todo))
  /\ io \in {"temp", "rename"} => Atomic(Head(todo))
  /\ io \in {"truncate", "fill"} => ~Atomic(Head(todo))
  /\ \A n \in 1 .. Len(todo) : todo[n] = Framework => There(Framework)

LEMMA TypeHeld ==
  ASSUME TypeInv
  PROVE  Held /\ pc \in Phases
BY DEF TypeInv, TypeOK, Held, Phases

LEMMA Heads ==
  ASSUME TypeInv, todo # <<>>
  PROVE  /\ Head(todo) \in OfPhase(pc) /\ Head(todo) \in Files
         /\ Tail(todo) \in Seq(OfPhase(pc)) /\ Tail(todo) \in Seq(Files)
         /\ Head(todo) = Framework => There(Framework)
         /\ \A n \in 1 .. Len(Tail(todo)) : Tail(todo)[n] = Framework => There(Framework)
<1>1. todo \in Seq(OfPhase(pc)) /\ todo \in Seq(Files) /\ \A n \in 1 .. Len(todo) : todo[n] = Framework => There(Framework)
  BY DEF TypeInv, TypeOK
<1>2. OfPhase(pc) \subseteq Files
  BY TypeHeld, PhaseFiles
<1>3. /\ Head(todo) \in OfPhase(pc) /\ Tail(todo) \in Seq(OfPhase(pc)) /\ Len(Tail(todo)) = Len(todo) - 1
      /\ \A n \in 1 .. Len(Tail(todo)) : Tail(todo)[n] = todo[n + 1]
  BY <1>1, HeadTailProperties
<1>4. Tail(todo) \in Seq(Files)
  BY <1>1, HeadTailProperties
<1>5. Len(todo) \in Nat /\ Len(todo) > 0 /\ Head(todo) = todo[1]
  BY <1>1, EmptySeq, LenProperties
<1>6. Head(todo) = Framework => There(Framework)
  BY <1>1, <1>5
<1>7. ASSUME NEW n \in 1 .. Len(Tail(todo)), Tail(todo)[n] = Framework
      PROVE  There(Framework)
  <2>1. n + 1 \in 1 .. Len(todo) /\ todo[n + 1] = Framework
    BY <1>3, <1>5, <1>7
  <2> QED  BY <1>1, <2>1
<1> QED  BY <1>2, <1>3, <1>4, <1>6, <1>7

LEMMA Opened ==
  ASSUME TypeInv, io # "none"
  PROVE  todo # <<>> /\ pc # "idle" /\ new \in Made(Head(todo)) /\ Head(todo) \in Files
BY Heads DEF TypeInv, TypeOK

\* A step that sees to the first file and goes on to the others.
Onward == io' = "none" /\ todo' = Tail(todo) /\ UNCHANGED <<pc, exit, origin, run, args>>

FilesStay ==
  /\ DOMAIN fs' = Files /\ \A f \in Files : fs'[f] \in Content(f) \union {Absent}
  /\ There(Framework) => There(Framework)'

LEMMA OnwardTyped ==
  ASSUME TypeInv, todo # <<>>, Onward, FilesStay, failed' \in BOOLEAN, faults' \subseteq {Toml, Framework, Native}
  PROVE  TypeInv'
<1>1. /\ Tail(todo) \in Seq(OfPhase(pc)) /\ Tail(todo) \in Seq(Files)
      /\ \A n \in 1 .. Len(Tail(todo)) : Tail(todo)[n] = Framework => There(Framework)
  BY Heads
<1>2. pc # "idle"
  BY DEF TypeInv
<1>3. TypeOK'
  BY <1>1 DEF TypeInv, TypeOK, Onward, FilesStay, args
<1>4. todo' \in Seq(OfPhase(pc'))
  BY <1>1 DEF Onward
<1>5. \A n \in 1 .. Len(todo') : todo'[n] = Framework => There(Framework)'
  BY <1>1 DEF Onward, FilesStay
<1> QED  BY <1>2, <1>3, <1>4, <1>5 DEF TypeInv, Onward

LEMMA Unmoved ==
  ASSUME TypeInv, UNCHANGED fs
  PROVE  FilesStay
BY DEF TypeInv, TypeOK, FilesStay, There

LEMMA IdleTyped ==
  ASSUME TypeInv, FilesStay, pc' = "idle", todo' = <<>>, io' = "none", exit' \in {"0", "3", "killed"},
         failed' \in BOOLEAN, faults' \subseteq {Toml, Framework, Native}, UNCHANGED <<origin, run, args>>
  PROVE  TypeInv'
<1>1. <<>> \in Seq(Files) /\ <<>> \in Seq(OfPhase("idle")) /\ Len(<<>>) = 0
  BY EmptySeq
<1>2. TypeOK'
  BY <1>1 DEF TypeInv, TypeOK, FilesStay, args
<1>3. todo' \in Seq(OfPhase(pc'))
  BY <1>1
<1>4. \A n \in 1 .. Len(todo') : todo'[n] = Framework => There(Framework)'
  BY <1>1
<1> QED  BY <1>2, <1>3, <1>4 DEF TypeInv

LEMMA FailTyped ==
  ASSUME TypeInv, todo # <<>>, Fail, FilesStay, faults' \subseteq {Toml, Framework, Native}, UNCHANGED <<origin, run, args>>
  PROVE  TypeInv'
<1>1. CASE pc = "scaffold"
  BY <1>1, IdleTyped DEF Fail
<1>2. CASE pc # "scaffold"
  <2>1. Onward /\ failed' \in BOOLEAN
    BY <1>2 DEF Fail, Onward
  <2> QED  BY <2>1, OnwardTyped
<1> QED  BY <1>1, <1>2

\* A file is put in the place of the first one of todo.
LEMMA Placed ==
  ASSUME TypeInv, todo # <<>>, NEW c \in Content(Head(todo)), fs' = [fs EXCEPT ![Head(todo)] = c]
  PROVE  FilesStay
<1>1. Head(todo) \in Files
  BY Heads
<1>2. c # Absent
  BY <1>1, NeverAbsent
<1>3. DOMAIN fs = Files /\ \A f \in Files : fs[f] \in Content(f) \union {Absent}
  BY DEF TypeInv, TypeOK
<1>4. \A f \in Files : fs'[f] = IF f = Head(todo) THEN c ELSE fs[f]
  BY <1>1, <1>3
<1>5. DOMAIN fs' = Files
  BY <1>3
<1>6. Framework \in Files
  BY DEF Files
<1> QED  BY <1>2, <1>3, <1>4, <1>5, <1>6 DEF FilesStay, There

LEMMA CutTyped ==
  ASSUME TypeInv, io = "fill", \E c \in Torn(Head(todo), new) : fs' = [fs EXCEPT ![Head(todo)] = c],
         faults' = faults \union {Head(todo)}
  PROVE  FilesStay /\ faults' \subseteq {Toml, Framework, Native}
<1>1. todo # <<>> /\ new \in Made(Head(todo)) /\ Head(todo) \in Files /\ ~Atomic(Head(todo))
  BY Opened DEF TypeInv
<1>2. Torn(Head(todo), new) \subseteq Content(Head(todo))
  BY <1>1, TornIsContent
<1>3. Head(todo) \in {Toml, Framework, Native}
  BY <1>1 DEF Files, Atomic
<1>4. FilesStay
  BY <1>1, <1>2, Placed
<1> QED  BY <1>3, <1>4 DEF TypeInv, TypeOK

LEMMA TypeStep == TypeInv /\ [Next]_vars => TypeInv'
<1> SUFFICES ASSUME TypeInv, [Next]_vars
             PROVE  TypeInv'
  OBVIOUS
<1>0. faults \subseteq {Toml, Framework, Native} /\ failed \in BOOLEAN
  BY DEF TypeInv, TypeOK
<1>1. CASE UNCHANGED vars
  BY <1>1 DEF vars, args, TypeInv, TypeOK, There
<1>2. CASE Begin
  <2>1. <<Toml>> \in Seq(OfPhase("scaffold")) /\ <<Toml>> \in Seq(Files)
    BY PhaseFiles DEF Files
  <2>2. Len(<<Toml>>) = 1 /\ <<Toml>>[1] = Toml
    OBVIOUS
  <2>3. TypeOK'
    <3>1. run' \in 0 .. MaxRuns /\ run' # 0
      BY <1>2, VersionsAssumption DEF Begin, TypeInv, TypeOK
    <3>2. io' = "none" /\ todo' \in Seq(Files)
      BY <1>2, <2>1 DEF Begin, TypeInv
    <3> QED  BY <1>2, <3>1, <3>2 DEF Begin, TypeInv, TypeOK
  <2>4. \A n \in 1 .. Len(todo') : todo'[n] = Framework => There(Framework)'
    BY <1>2, <2>2, NamesDiffer DEF Begin
  <2>5. io = "none"
    BY <1>2 DEF Begin, TypeInv
  <2> QED  BY <1>2, <2>1, <2>3, <2>4, <2>5 DEF Begin, TypeInv
<1>3. CASE Advance
  <2>1. io = "none" /\ FilesStay /\ pc \in Phases \ {"idle"}
    BY <1>3, Unmoved, TypeHeld DEF Advance, Ready
  <2>2. ASSUME NEW p \in {"clients", "rules", "hook"}, pc' = p, UNCHANGED exit,
               todo' \in Seq(OfPhase(p)), \A n \in 1 .. Len(todo') : todo'[n] = Framework => There(Framework)
        PROVE  TypeInv'
    <3>1. OfPhase(p) \subseteq Files
      BY PhaseFiles DEF Phases
    <3>2. todo' \in Seq(Files)
      BY <2>2, <3>1
    <3>3. TypeOK'
      BY <1>3, <2>1, <2>2, <3>2 DEF Advance, TypeInv, TypeOK, args, FilesStay
    <3>4. \A n \in 1 .. Len(todo') : todo'[n] = Framework => There(Framework)'
      BY <2>1, <2>2 DEF FilesStay
    <3> QED  BY <1>3, <2>1, <2>2, <3>3, <3>4 DEF Advance, TypeInv
  <2>3. CASE pc = "scaffold"
    <3>1. todo' = Clients /\ pc' = "clients" /\ UNCHANGED exit
      BY <1>3, <2>3 DEF Advance
    <3>2. todo' \in Seq(McpFiles)
      BY <3>1, ClientsTyped
    <3>3. \A n \in 1 .. Len(todo') : todo'[n] # Framework
      BY <3>2, NamesDiffer, ElementOfSeq
    <3> QED  BY <2>2, <3>1, <3>2, <3>3, PhaseFiles
  <2>4. CASE pc = "clients"
    <3>1. todo' = Targets /\ pc' = "rules" /\ UNCHANGED exit
      BY <1>3, <2>4 DEF Advance
    <3>2. todo' \in Seq(RuleFiles)
      BY <3>1, TargetsTyped
    <3>3. \A n \in 1 .. Len(todo') : todo'[n] # Framework
      BY <3>2, NamesDiffer, ElementOfSeq
    <3> QED  BY <2>2, <3>1, <3>2, <3>3, PhaseFiles
  <2>5. CASE pc = "rules"
    <3>1. todo' = HookFiles /\ pc' = "hook" /\ UNCHANGED exit
      BY <1>3, <2>5 DEF Advance
    <3>2. CASE There(Framework)
      BY <2>2, <3>1, <3>2, PhaseFiles DEF HookFiles
    <3>3. CASE ~There(Framework) /\ todo' = <<>>
      <4>1. <<>> \in Seq(OfPhase("hook")) /\ Len(<<>>) = 0
        BY EmptySeq
      <4> QED  BY <2>2, <3>1, <3>3, <4>1
    <3>4. CASE ~There(Framework) /\ todo' = <<Native>>
      <4>1. <<Native>> \in Seq(OfPhase("hook")) /\ \A n \in 1 .. Len(<<Native>>) : <<Native>>[n] = Native
        BY PhaseFiles
      <4> QED  BY <2>2, <3>1, <3>4, <4>1, NamesDiffer
    <3> QED  BY <3>1, <3>2, <3>3, <3>4 DEF HookFiles
  <2>6. CASE pc = "hook"
    <3>1. todo' = <<>> /\ pc' = "idle" /\ exit' \in {"0", "3"} /\ io' = "none"
      BY <1>3, <2>1, <2>6 DEF Advance
    <3> QED  BY <1>0, <1>3, <2>1, <3>1, IdleTyped DEF Advance
  <2> QED  BY <2>1, <2>3, <2>4, <2>5, <2>6 DEF Phases
<1>4. CASE Read
  <2>1. todo # <<>> /\ FilesStay /\ io = "none" /\ pc # "idle"
    BY <1>4, Unmoved DEF Read, Ready
  <2>2. /\ Head(todo) \in Files
        /\ Held
        /\ Head(todo) = Framework => There(Head(todo))
    BY <2>1, Heads, TypeHeld
  <2>3. Decision(Head(todo)) = Leave \/ Decision(Head(todo)) = Refuse
          \/ \E c \in Made(Head(todo)) : Decision(Head(todo)) = Write(c)
    BY <2>2, DecisionMakes
  <2>4. CASE Decision(Head(todo)) = Leave
    <3>1. Onward /\ UNCHANGED <<failed, faults>>
      BY <1>4, <2>1, <2>4 DEF Read, Leave, Onward, args
    <3> QED  BY <1>0, <2>1, <3>1, OnwardTyped
  <2>5. CASE Decision(Head(todo)) = Refuse
    <3>1. Fail /\ UNCHANGED <<origin, run, args, faults>>
      BY <1>4, <2>5 DEF Read, Refuse
    <3> QED  BY <1>0, <2>1, <3>1, FailTyped
  <2>6. ASSUME NEW c \in Made(Head(todo)), Decision(Head(todo)) = Write(c)
        PROVE  TypeInv'
    <3>1. /\ new' = c /\ io' = (IF Atomic(Head(todo)) THEN "temp" ELSE "truncate")
          /\ UNCHANGED <<pc, todo, failed, exit, origin, fs, run, args, faults>>
      BY <1>4, <2>6 DEF Read, Write
    <3>2. c \in Content(Head(todo))
      BY DEF Made
    <3>3. TypeOK'
      BY <2>1, <3>1, <3>2 DEF TypeInv, TypeOK, args
    <3> QED  BY <2>1, <3>1, <3>3 DEF TypeInv, There
  <2> QED  BY <2>3, <2>4, <2>5, <2>6
<1>5. CASE ReadFails
  BY <1>0, <1>5, Unmoved, FailTyped DEF ReadFails
<1>6. CASE WriteTemp
  <2>1. TypeOK'
    BY <1>6 DEF WriteTemp, TypeInv, TypeOK, args
  <2> QED  BY <1>6, <2>1 DEF WriteTemp, TypeInv, There
<1>7. CASE Rename \/ Fill
  <2>1. Written /\ io # "none"
    BY <1>7 DEF Rename, Fill
  <2>2. todo # <<>> /\ new \in Content(Head(todo))
    BY <2>1, Opened DEF Made
  <2>3. FilesStay
    BY <2>1, <2>2, Placed DEF Written
  <2>4. Onward /\ UNCHANGED <<failed, faults>>
    BY <2>1 DEF Written, Onward
  <2> QED  BY <1>0, <2>2, <2>3, <2>4, OnwardTyped
<1>8. CASE Truncate
  <2>1. todo # <<>> /\ new \in Made(Head(todo)) /\ Head(todo) \in Files /\ ~Atomic(Head(todo)) /\ pc # "idle"
    BY <1>8, Opened DEF Truncate, TypeInv
  <2>2. Emptied(Head(todo), new) \in Content(Head(todo))
    BY <2>1, TornIsContent
  <2>3. FilesStay
    BY <1>8, <2>1, <2>2, Placed DEF Truncate
  <2>4. TypeOK'
    BY <1>8, <2>1, <2>3 DEF Truncate, TypeInv, TypeOK, args, FilesStay, Made
  <2>5. \A n \in 1 .. Len(todo') : todo'[n] = Framework => There(Framework)'
    BY <1>8, <2>3 DEF Truncate, TypeInv, FilesStay
  <2> QED  BY <1>8, <2>1, <2>4, <2>5 DEF Truncate, TypeInv
<1>9. CASE WriteFails
  <2>1. todo # <<>> /\ Fail /\ UNCHANGED <<origin, run, args>>
    BY <1>9, Opened DEF WriteFails
  <2>2. FilesStay /\ faults' \subseteq {Toml, Framework, Native}
    BY <1>0, <1>9, CutTyped, Unmoved DEF WriteFails
  <2> QED  BY <2>1, <2>2, FailTyped
<1>10. CASE Crash
  <2>1. FilesStay /\ faults' \subseteq {Toml, Framework, Native}
    BY <1>0, <1>10, CutTyped, Unmoved DEF Crash
  <2> QED  BY <1>0, <1>10, <2>1, IdleTyped DEF Crash
<1>11. CASE Ended
  BY <1>1, <1>11 DEF Ended
<1> QED  BY <1>1, <1>2, <1>3, <1>4, <1>5, <1>6, <1>7, <1>8, <1>9, <1>10, <1>11 DEF Next

LEMMA InitTyped == Init => TypeInv
<1> SUFFICES ASSUME Init
             PROVE  TypeInv
  OBVIOUS
<1>1. DOMAIN fs = Files /\ \A f \in Files : fs[f] \in Content(f) \union {Absent}
  BY ReposAssumption DEF Init
<1>2. <<>> \in Seq(Files) /\ <<>> \in Seq(OfPhase("idle")) /\ Len(<<>>) = 0
  BY EmptySeq
<1>3. TypeOK
  <2>1. run \in 0 .. MaxRuns
    BY VersionsAssumption DEF Init
  <2>2. todo \in Seq(Files) /\ io = "none" /\ pc = "idle" /\ run = 0
    BY <1>2 DEF Init
  <2> QED  BY <1>1, <2>1, <2>2 DEF Init, TypeOK
<1> QED  BY <1>2, <1>3 DEF Init, TypeInv

\* Each file holds what it may, a write under way has its content, and a run that is over
\* has an exit code, whatever the repositories and however often init is run.
THEOREM SetupTypeCorrect == Spec => []TypeOK
<1>1. TypeInv => TypeOK
  BY DEF TypeInv
<1> QED  BY <1>1, InitTyped, TypeStep, PTL DEF Spec
-----------------------------------------------------------------------------
(* What is the user's *)

\* The user has not broken the marks of a rule.
Fine(f) == origin.files[f].is = "text" => WellMarked(origin.files[f].text)

\* c has what the user had in f.
Kept(f, c) ==
  /\ f \in McpFiles =>
       /\ origin.files[f].is = "json" => c.is = "json" /\ c.others = origin.files[f].others
       /\ origin.files[f].is \in {"broken", "shape"} => c = origin.files[f]
  /\ f \in RuleFiles =>
       /\ Fine(f) /\ c.is = "text" => WellMarked(c.text)
       /\ origin.files[f].is = "text" =>
            c.is = "text" /\ (Fine(f) => SameProse(origin.files[f].text, c.text))
  /\ f = Native /\ origin.files[f].is = "foreign" => c = origin.files[f]
  /\ f = Framework /\ origin.files[f].is = "yaml" /\ Apart(origin.files[f].repos) /\ Framework \notin faults =>
       c.is = "yaml" /\ Apart(c.repos) /\ Foreign(c.repos) = Foreign(origin.files[f].repos)

\* Every file has it, but the one that is open for a write in place; so has what is written.
KeptInv ==
  /\ \A f \in Files : \A c \in {fs[f]} : Kept(f, c) \/ (f = Framework /\ io = "fill" /\ f = Head(todo))
  /\ \A f \in Files : \A c \in {new} : io # "none" /\ f = Head(todo) =>
       Kept(f, c) /\ (f = Native => origin.files[f].is # "foreign")

\* Entries in which all others' hooks are as they were hold the same foreign hooks.
LEMMA SameForeign ==
  ASSUME NEW r, NEW q,
         \A n : (n \in DOMAIN q /\ q[n].hooks \ {"rowshape"} # {}) <=> (n \in DOMAIN r /\ r[n].hooks \ {"rowshape"} # {}),
         \A n \in DOMAIN r : r[n].hooks \ {"rowshape"} # {} => q[n] = r[n]
  PROVE  Foreign(q) = Foreign(r)
<1>1. {n \in DOMAIN q : q[n].hooks \ {"rowshape"} # {}} = {n \in DOMAIN r : r[n].hooks \ {"rowshape"} # {}}
  OBVIOUS
<1> DEFINE P == {n \in DOMAIN r : r[n].hooks \ {"rowshape"} # {}}
<1>2. \A n \in P : q[n] = r[n]
  OBVIOUS
<1>3. Foreign(q) = {<<n, q[n].hooks \ {"rowshape"}>> : n \in P}
  BY <1>1 DEF Foreign
<1>4. Foreign(r) = {<<n, r[n].hooks \ {"rowshape"}>> : n \in P}
  BY DEF Foreign
<1> HIDE DEF P
<1> QED  BY <1>2, <1>3, <1>4

LEMMA AppendKeeps ==
  ASSUME NEW r \in Seq(Entries), Held, Apart(r)
  PROVE  Apart(Append(r, OurEntry)) /\ Foreign(Append(r, OurEntry)) = Foreign(r)
<1> DEFINE q == Append(r, OurEntry)
<1>1. OurEntry \in Entries /\ OurEntry.hooks = {"rowshape"}
  BY EntryIs
<1>2. /\ q \in Seq(Entries) /\ Len(q) = Len(r) + 1 /\ q[Len(r) + 1] = OurEntry
      /\ \A n \in 1 .. Len(r) : q[n] = r[n]
  BY <1>1, AppendProperties
<1>3. DOMAIN q = 1 .. Len(q) /\ DOMAIN r = 1 .. Len(r) /\ Len(r) \in Nat
  BY <1>2, LenProperties
<1> HIDE DEF q
<1>4. DOMAIN q = DOMAIN r \union {Len(r) + 1} /\ Len(r) + 1 \notin DOMAIN r
  BY <1>2, <1>3
<1>5. \A n \in DOMAIN r : q[n] = r[n]
  BY <1>2, <1>3
<1>6. q[Len(r) + 1].hooks \ {"rowshape"} = {} /\ q[Len(r) + 1].hooks = {"rowshape"}
  BY <1>1, <1>2
<1>7. Foreign(q) = Foreign(r)
  BY <1>4, <1>5, <1>6, SameForeign
<1>8. Apart(q)
  BY <1>4, <1>5, <1>6 DEF Apart
<1> QED  BY <1>7, <1>8 DEF q

LEMMA ReplaceKeeps ==
  ASSUME NEW r \in Seq(Entries), Held, Apart(r), NEW k \in HookRepos(r)
  PROVE  /\ Apart([r EXCEPT ![k] = OurEntry]) /\ Foreign([r EXCEPT ![k] = OurEntry]) = Foreign(r)
<1> DEFINE q == [r EXCEPT ![k] = OurEntry]
<1>1. k \in DOMAIN r /\ r[k].hooks = {"rowshape"}
  BY DEF HookRepos, Apart
<1>2. OurEntry.hooks = {"rowshape"}
  BY EntryIs
<1>3. DOMAIN q = DOMAIN r /\ \A n \in DOMAIN r : q[n] = IF n = k THEN OurEntry ELSE r[n]
  BY <1>1, LenProperties
<1> HIDE DEF q
<1>4. q[k].hooks \ {"rowshape"} = {} /\ r[k].hooks \ {"rowshape"} = {}
  BY <1>1, <1>2, <1>3
<1>5. Foreign(q) = Foreign(r)
  <2>1. \A n \in DOMAIN r : n # k => q[n] = r[n]
    BY <1>3
  <2> QED  BY <1>3, <1>4, <2>1, SameForeign
<1>6. Apart(q)
  BY <1>2, <1>3 DEF Apart
<1> QED  BY <1>5, <1>6 DEF q

\* What is decided to be written has what the user had.
LEMMA DecisionKeeps ==
  ASSUME Held, NEW f \in Files, f = Framework => There(f), \A c \in {fs[f]} : Kept(f, c),
         NEW d \in Made(f), Decision(f) = Write(d)
  PROVE  Kept(f, d) /\ (f = Native => origin.files[f].is # "foreign")
<1>0. Kept(f, fs[f]) /\ Decision(f).do = "write" /\ Decision(f).to = d
  BY DEF Write
<1>1. CASE f = Toml
  BY <1>1, NamesDiffer DEF Kept
<1>2. CASE f \in McpFiles
  <2>1. Registered(f).do = "write" /\ Registered(f).to = d
    BY <1>0, <1>2, DecisionIs
  <2>0. Registered(f) # Refuse /\ Registered(f) # Leave
    BY <2>1 DEF Leave, Refuse
  <2>2. fs[f] = Absent \/ fs[f].is = "json"
    BY <1>2, <2>0, RegisteredCases, Zenon
  <2>3. d = [is |-> "json", others |-> IF There(f) THEN fs[f].others ELSE {}, ours |-> "current"]
    BY <1>2, <2>1, RegisteredCases DEF Leave, Refuse, Write
  <2>4. origin.files[f].is = "json" => fs[f].is = "json" /\ fs[f].others = origin.files[f].others
    BY <1>0, <1>2 DEF Kept
  <2>5. origin.files[f].is \notin {"broken", "shape"}
    BY <1>0, <1>2, <2>2 DEF Kept, Absent
  <2>6. fs[f].is = "json" => There(f)
    BY DEF There, Absent
  <2> QED  BY <1>2, <2>3, <2>4, <2>5, <2>6, NamesDiffer DEF Kept
<1>3. CASE f \in RuleFiles
  <2>1. Ruled(f).do = "write" /\ Ruled(f).to = d
    BY <1>0, <1>3, DecisionIs
  <2>2. PICK text \in Seq(Marks) :
          /\ Ruled(f) = Write([is |-> "text", text |-> Upsert(text, version)])
          /\ There(f) => fs[f].is = "text" /\ text = fs[f].text
          /\ ~There(f) => WellMarked(text)
    BY <1>3, <2>1, RuledCases DEF Leave
  <2>3. d.is = "text" /\ d.text = Upsert(text, version)
    BY <2>1, <2>2 DEF Write
  <2>4. Fine(f) => WellMarked(text)
    BY <1>0, <1>3, <2>2 DEF Kept
  <2>5. version \in Nat
    BY EntryIs
  <2>6. Fine(f) => WellMarked(d.text)
    BY <2>3, <2>4, <2>5, MarksStayWhole
  <2>7. ASSUME origin.files[f].is = "text", Fine(f)
        PROVE  SameProse(origin.files[f].text, d.text)
    <3>1. fs[f].is = "text" /\ SameProse(origin.files[f].text, fs[f].text)
      BY <1>0, <1>3, <2>7 DEF Kept
    <3>2. There(f)
      BY <3>1 DEF There, Absent
    <3>3. SameProse(fs[f].text, d.text)
      BY <2>2, <2>3, <2>4, <2>5, <2>7, <3>2, ProseStays
    <3> QED  BY <3>1, <3>3, ProseOverTwo
  <2> QED  BY <1>3, <2>3, <2>6, <2>7, NamesDiffer DEF Kept
<1>4. CASE f = Framework
  <2> DEFINE r == fs[Framework].repos
  <2>1. Framed.do = "write" /\ Framed.to = d
    BY <1>0, <1>4, DecisionIs
  <2>2. /\ fs[Framework].is = "yaml" /\ r \in Seq(Entries)
        /\ \/ d = [is |-> "yaml", repos |-> Append(r, OurEntry)]
           \/ \E n \in HookRepos(r) : d = [is |-> "yaml", repos |-> [r EXCEPT ![n] = OurEntry]]
    BY <1>4, <2>1, FramedCases DEF Leave, Refuse, Write
  <2> HIDE DEF r
  <2>3. Apart(r) => d.is = "yaml" /\ Apart(d.repos) /\ Foreign(d.repos) = Foreign(r)
    <3>1. CASE d = [is |-> "yaml", repos |-> Append(r, OurEntry)]
      BY <2>2, <3>1, AppendKeeps
    <3>2. CASE \E n \in HookRepos(r) : d = [is |-> "yaml", repos |-> [r EXCEPT ![n] = OurEntry]]
      <4>1. PICK n \in HookRepos(r) : d = [is |-> "yaml", repos |-> [r EXCEPT ![n] = OurEntry]]
        BY <3>2
      <4>2. Apart(r) => Apart([r EXCEPT ![n] = OurEntry]) /\ Foreign([r EXCEPT ![n] = OurEntry]) = Foreign(r)
        BY <2>2, ReplaceKeeps
      <4>3. d.is = "yaml" /\ d.repos = [r EXCEPT ![n] = OurEntry]
        BY <4>1
      <4> QED  BY <4>2, <4>3
    <3> QED  BY <2>2, <3>1, <3>2
  <2> QED  BY <1>0, <1>4, <2>3, NamesDiffer DEF Kept, r
<1>5. CASE f = Native
  <2>1. Hooked.do = "write" /\ Hooked.to = d
    BY <1>0, <1>5, DecisionIs
  <2>2. There(Native) => fs[Native].marked
    BY <2>1, HookedCases DEF Refuse
  <2>3. origin.files[Native].is # "foreign"
    <3>1. SUFFICES ASSUME origin.files[Native].is = "foreign"
                   PROVE  FALSE
      OBVIOUS
    <3>2. fs[Native].is = "foreign"
      BY <1>0, <1>5, <3>1 DEF Kept
    <3>3. There(Native)
      BY <3>2 DEF There, Absent
    <3>4. fs[Native] \in Hooks
      BY <3>3, ContentIs DEF Held, Files, There
    <3>5. \A x \in Hooks : x.is = "foreign" => ~x.marked
      BY DEF Hooks
    <3> QED  BY <2>2, <3>2, <3>3, <3>4, <3>5
  <2> QED  BY <1>5, <2>3, NamesDiffer DEF Kept
<1> QED  BY <1>1, <1>2, <1>3, <1>4, <1>5 DEF Files

\* What was kept is kept by any step; faults only excuse more.
LEMMA KeptOn ==
  ASSUME UNCHANGED origin, faults \subseteq faults'
  PROVE  \A f, c : Kept(f, c) => Kept(f, c)'
<1>1. \A f : Fine(f) <=> Fine(f)'
  BY DEF Fine
<1> QED  BY <1>1 DEF Kept

LEMMA OriginStays ==
  ASSUME [Next]_vars
  PROVE  UNCHANGED origin /\ faults \subseteq faults'
BY DEF Next, vars, args, Begin, Advance, Read, ReadFails, WriteTemp, Rename, Fill, Written, Truncate,
       WriteFails, Crash, Ended

\* A step that changes no file and opens none, or only goes on with the write under way.
LEMMA QuietKeeps ==
  ASSUME KeptInv, UNCHANGED <<origin, fs>>, faults \subseteq faults', io # "fill",
         io' = "none" \/ (io # "none" /\ io' # "fill" /\ UNCHANGED <<todo, new>>)
  PROVE  KeptInv'
<1>1. \A f, c : Kept(f, c) => Kept(f, c)'
  BY KeptOn
<1> QED  BY <1>1 DEF KeptInv

\* A step that puts c in the place of the first file, and leaves no write open.
LEMMA PutKeeps ==
  ASSUME TypeInv, KeptInv, todo # <<>>, UNCHANGED origin, faults \subseteq faults', io' = "none",
         NEW c, fs' = [fs EXCEPT ![Head(todo)] = c], \A f \in Files : f = Head(todo) => Kept(f, c)'
  PROVE  KeptInv'
<1>1. \A f, d : Kept(f, d) => Kept(f, d)'
  BY KeptOn
<1>2. \A f \in Files : fs'[f] = IF f = Head(todo) THEN c ELSE fs[f]
  BY DEF TypeInv, TypeOK
<1>3. ASSUME NEW f \in Files, NEW d \in {fs[f]'}
      PROVE  Kept(f, d)'
  <2>1. CASE f = Head(todo)
    BY <1>2, <1>3, <2>1
  <2>2. CASE f # Head(todo)
    <3>1. Kept(f, d)
      BY <1>2, <1>3, <2>2 DEF KeptInv
    <3> QED  BY <1>1, <3>1
  <2> QED  BY <2>1, <2>2
<1> QED  BY <1>3 DEF KeptInv

LEMMA CutKeeps ==
  ASSUME TypeInv, KeptInv, io = "fill", UNCHANGED origin, io' = "none",
         \E c \in Torn(Head(todo), new) : fs' = [fs EXCEPT ![Head(todo)] = c],
         faults' = faults \union {Head(todo)}
  PROVE  KeptInv'
<1>1. todo # <<>> /\ Head(todo) \in Files /\ ~Atomic(Head(todo))
  BY Opened DEF TypeInv
<1>2. PICK c \in Torn(Head(todo), new) : fs' = [fs EXCEPT ![Head(todo)] = c]
  OBVIOUS
<1>3. ASSUME NEW f \in Files, f = Head(todo)
      PROVE  Kept(f, c)'
  <2>1. f \notin McpFiles /\ f \notin RuleFiles
    BY <1>1, <1>3 DEF Atomic
  <2>2. f = Native => origin.files[f].is # "foreign"
    BY <1>3 DEF KeptInv
  <2>3. f = Framework => Framework \in faults'
    BY <1>3
  <2> QED  BY <2>1, <2>2, <2>3 DEF Kept
<1> QED  BY <1>1, <1>2, <1>3, PutKeeps

LEMMA KeptStep ==
  ASSUME TypeInv, KeptInv, [Next]_vars
  PROVE  KeptInv'
<1>0. UNCHANGED origin /\ faults \subseteq faults' /\ \A f, c : Kept(f, c) => Kept(f, c)'
  BY OriginStays, KeptOn
<1>1. CASE UNCHANGED vars
  <2>1. UNCHANGED <<origin, fs, io, new, todo>>
    BY <1>1 DEF vars, args
  <2> QED  BY <1>0, <2>1 DEF KeptInv
<1>2. CASE Begin \/ Advance
  <2>1. io = "none" /\ io' = "none" /\ UNCHANGED fs
    BY <1>2 DEF Begin, Advance, Ready, TypeInv
  <2> QED  BY <1>0, <2>1, QuietKeeps
<1>3. CASE ReadFails
  <2>1. io = "none" /\ io' = "none" /\ UNCHANGED fs
    BY <1>3 DEF ReadFails, Ready, Fail
  <2> QED  BY <1>0, <2>1, QuietKeeps
<1>4. CASE Read
  <2>1. io = "none" /\ UNCHANGED fs /\ todo # <<>>
    BY <1>4 DEF Read, Ready
  <2>2. CASE io' = "none"
    BY <1>0, <2>1, <2>2, QuietKeeps
  <2>3. CASE io' # "none"
    <3>1. Decision(Head(todo)).do = "write" /\ new' = Decision(Head(todo)).to /\ UNCHANGED todo /\ io' # "fill"
      BY <1>4, <2>1, <2>3 DEF Read, Fail
    <3>2. ASSUME NEW f \in Files, f = Head(todo), NEW d \in {new'}
          PROVE  Kept(f, d) /\ (f = Native => origin.files[f].is # "foreign")
      <4>1. Held /\ (f = Framework => There(f))
        BY <2>1, <3>2, TypeHeld, Heads
      <4>2. \A c \in {fs[f]} : Kept(f, c)
        BY <2>1 DEF KeptInv
      <4>3. PICK c \in Made(f) : Decision(f) = Write(c)
        BY <3>1, <3>2, <4>1, DecisionMakes DEF Leave, Refuse
      <4>4. d = c
        BY <3>1, <3>2, <4>3 DEF Write
      <4> QED  BY <4>1, <4>2, <4>3, <4>4, DecisionKeeps
    <3>3. ASSUME NEW f \in Files, NEW c \in {fs[f]'}
          PROVE  Kept(f, c)'
      BY <1>0, <2>1 DEF KeptInv
    <3>4. ASSUME NEW f \in Files, NEW d \in {new'}, f = Head(todo')
          PROVE  (Kept(f, d) /\ (f = Native => origin.files[f].is # "foreign"))'
      BY <1>0, <3>1, <3>2, <3>4
    <3> QED  BY <3>3, <3>4 DEF KeptInv
  <2> QED  BY <2>2, <2>3
<1>5. CASE WriteTemp
  BY <1>0, <1>5, QuietKeeps DEF WriteTemp
<1>6. CASE Rename \/ Fill
  <2>1. Written /\ io # "none"
    BY <1>6 DEF Rename, Fill
  <2>2. todo # <<>>
    BY <2>1, Opened
  <2>3. PICK c : c = new
    OBVIOUS
  <2>4. \A f \in Files : f = Head(todo) => Kept(f, c)'
    BY <1>0, <2>1, <2>3 DEF KeptInv
  <2>5. fs' = [fs EXCEPT ![Head(todo)] = c] /\ io' = "none"
    BY <2>1, <2>3 DEF Written
  <2> QED  BY <1>0, <2>2, <2>4, <2>5, PutKeeps
<1>7. CASE Truncate
  <2>1. todo # <<>> /\ ~Atomic(Head(todo)) /\ Head(todo) \in Files
    BY <1>7, Opened DEF Truncate, TypeInv
  <2>2. /\ io = "truncate" /\ io' = "fill" /\ UNCHANGED <<todo, new>>
        /\ fs' = [fs EXCEPT ![Head(todo)] = Emptied(Head(todo), new)]
    BY <1>7 DEF Truncate
  <2>3. \A f \in Files : f # Head(todo) => fs'[f] = fs[f]
    BY <2>1, <2>2 DEF TypeInv, TypeOK
  <2>4. ASSUME NEW f \in Files, NEW c \in {fs[f]'}
        PROVE  Kept(f, c)' \/ (f = Framework /\ f = Head(todo))
    <3>1. CASE f # Head(todo)
      BY <1>0, <2>2, <2>3, <3>1 DEF KeptInv
    <3>2. CASE f = Head(todo)
      <4>1. f \notin McpFiles /\ f \notin RuleFiles
        BY <2>1, <3>2 DEF Atomic
      <4>2. f = Native => origin.files[f].is # "foreign"
        BY <2>2, <3>2 DEF KeptInv
      <4>3. f # Framework => Kept(f, c)
        BY <4>1, <4>2 DEF Kept
      <4> QED  BY <1>0, <3>2, <4>3
    <3> QED  BY <3>1, <3>2
  <2>5. ASSUME NEW f \in Files, NEW c \in {new'}, f = Head(todo')
        PROVE  (Kept(f, c) /\ (f = Native => origin.files[f].is # "foreign"))'
    BY <1>0, <2>2, <2>5 DEF KeptInv
  <2> QED  BY <2>2, <2>4, <2>5 DEF KeptInv
<1>8. CASE WriteFails \/ Crash
  <2>1. io' = "none" /\ (io = "fill" \/ UNCHANGED fs)
    BY <1>8 DEF WriteFails, Crash, Fail
  <2>2. CASE io = "fill"
    BY <1>0, <1>8, <2>1, <2>2, CutKeeps DEF WriteFails, Crash
  <2>3. CASE io # "fill"
    BY <1>0, <2>1, <2>3, QuietKeeps
  <2> QED  BY <2>2, <2>3
<1>9. CASE Ended
  BY <1>1, <1>9 DEF Ended
<1> QED  BY <1>1, <1>2, <1>3, <1>4, <1>5, <1>6, <1>7, <1>8, <1>9 DEF Next

LEMMA InitKept == Init => KeptInv
<1> SUFFICES ASSUME Init
             PROVE  KeptInv
  OBVIOUS
<1>1. \A f \in Files : fs[f] = origin.files[f] /\ fs[f] \in Content(f) \union {Absent}
  BY ReposAssumption DEF Init
<1>2. ASSUME NEW f \in Files
      PROVE  Kept(f, fs[f])
  <2>1. ASSUME f \in RuleFiles, fs[f].is = "text"
        PROVE  SameProse(fs[f].text, fs[f].text)
    <3>1. fs[f] \in Texts \union {Absent}
      BY <1>1, <2>1, ContentIs
    <3>2. fs[f].text \in Seq(Marks)
      BY <2>1, <3>1 DEF Texts, Absent
    <3> QED  BY <3>2, ProseIsItself
  <2>2. fs[f] = origin.files[f]
    BY <1>1
  <2> QED  BY <2>1, <2>2 DEF Kept, Fine
<1> QED  BY <1>2 DEF Init, KeptInv

\* The other servers, a config that does not parse, the prose around a rule, another's hook
\* and the other hooks of a framework are there at every moment, for any repository, any
\* texts and any number of runs, whatever is cut off or killed.
THEOREM UserContentIsKept == Spec => []UserContentSurvives
<1>1. Init => TypeInv /\ KeptInv
  BY InitTyped, InitKept
<1>2. TypeInv /\ KeptInv /\ [Next]_vars => (TypeInv /\ KeptInv)'
  BY TypeStep, KeptStep
<1>3. ASSUME KeptInv
      PROVE  UserContentSurvives
  <2>1. \A f \in Files : Kept(f, fs[f]) \/ (f = Framework /\ io = "fill" /\ f = Head(todo))
    BY <1>3 DEF KeptInv
  <2>2. \A f \in McpFiles \union RuleFiles \union {Native} : f \in Files /\ f # Framework
    BY NamesDiffer DEF Files
  <2>3. \A f \in McpFiles \union RuleFiles \union {Native} : Kept(f, fs[f])
    BY <2>1, <2>2
  <2>4. Kept(Framework, fs[Framework]) \/ (io = "fill" /\ Head(todo) = Framework)
    BY <2>1 DEF Files
  <2>5. \A f \in McpFiles :
          /\ origin.files[f].is = "json" => fs[f].is = "json" /\ fs[f].others = origin.files[f].others
          /\ origin.files[f].is \in {"broken", "shape"} => fs[f] = origin.files[f]
    BY <2>3 DEF Kept
  <2>6. \A f \in RuleFiles :
          origin.files[f].is = "text" /\ WellMarked(origin.files[f].text) =>
            SameProse(origin.files[f].text, fs[f].text)
    BY <2>3 DEF Kept, Fine
  <2>7. origin.files[Native].is = "foreign" => fs[Native] = origin.files[Native]
    BY <2>3 DEF Kept
  <2>8. (origin.files[Framework].is = "yaml" /\ Apart(origin.files[Framework].repos)
           /\ Framework \notin faults /\ ~(io = "fill" /\ Head(todo) = Framework)) =>
          Foreign(fs[Framework].repos) = Foreign(origin.files[Framework].repos)
    BY <2>4 DEF Kept
  <2> QED  BY <2>5, <2>6, <2>7, <2>8 DEF UserContentSurvives
<1> QED  BY <1>1, <1>2, <1>3, PTL DEF Spec
-----------------------------------------------------------------------------
(* What a run has seen to *)

\* c is what the version of this run leaves alone.
Current(f, c) ==
  CASE f = Toml        -> c # Absent
    [] f \in McpFiles  -> c.is = "json" /\ c.ours = "current"
    [] f \in RuleFiles -> c.is = "text" /\ (Fine(f) => Found(c.text) /\ Upsert(c.text, version) = c.text)
    [] f = Framework   -> c.is = "yaml" /\ HookRepos(c.repos) # {} /\ c.repos[First(HookRepos(c.repos))] = OurEntry
    [] f = Native      -> origin.git # "file" /\ c.is = "hook" /\ c.v = version

IsClient(f) ==
  f \in McpFiles /\ (ClientPresent(f) \/ (f = ".mcp.json" /\ \A g \in McpFiles : ~ClientPresent(g)))
IsTarget(f) ==
  f \in RuleFiles /\ (TargetPresent(f) \/ (f = "AGENTS.md" /\ \A g \in RuleFiles : ~TargetPresent(g)))
IsHook(f) ==
  IF There(Framework) THEN f = Framework ELSE f = Native /\ origin.git # "none"

In(f, s) == \E n \in 1 .. Len(s) : s[n] = f
Waiting(f) == In(f, todo)

\* The files of phase p that a client, target or hook is in are written, or still to be.
SeenTo(p, f) == (pc = p /\ Waiting(f)) \/ \A c \in {fs[f]} : Current(f, c)

Sound == (pc # "idle" \/ exit = "0") /\ ~failed

Listed ==
  /\ exit = "0" => ~failed /\ pc = "idle"
  /\ pc = "clients" => \A f \in McpFiles : Waiting(f) => IsClient(f)
  /\ pc = "rules" => \A f \in RuleFiles : Waiting(f) => IsTarget(f)
  /\ \A f \in Files : \A c \in {new} : io # "none" /\ f = Head(todo) => Current(f, c)

Handled ==
  Sound =>
    /\ pc # "scaffold" \/ todo = <<>> => There(Toml)
    /\ pc \in {"clients", "rules", "hook", "idle"} => \A f \in McpFiles : IsClient(f) => SeenTo("clients", f)
    /\ pc \in {"rules", "hook", "idle"} => \A f \in RuleFiles : IsTarget(f) => SeenTo("rules", f)
    /\ pc \in {"hook", "idle"} => \A f \in {Framework, Native} : IsHook(f) => SeenTo("hook", f)

SetupInv == TypeInv /\ KeptInv /\ Listed /\ Handled

\* What is current is left alone, and what is left alone or about to be written is current.
LEMMA CurrentIs ==
  ASSUME NEW c
  PROVE  /\ Current(Toml, c) <=> c # Absent
         /\ \A f \in McpFiles : Current(f, c) <=> c.is = "json" /\ c.ours = "current"
         /\ \A f \in RuleFiles :
              Current(f, c) <=> c.is = "text" /\ (Fine(f) => Found(c.text) /\ Upsert(c.text, version) = c.text)
         /\ Current(Framework, c) <=>
              c.is = "yaml" /\ HookRepos(c.repos) # {} /\ c.repos[First(HookRepos(c.repos))] = OurEntry
         /\ Current(Native, c) <=> origin.git # "file" /\ c.is = "hook" /\ c.v = version
BY DEF Current, Toml, Framework, Native, McpFiles, RuleFiles

LEMMA LeftIsCurrent ==
  ASSUME Held, NEW f \in Files, f = Framework => There(f), Decision(f) = Leave
  PROVE  Current(f, fs[f])
<1>0. Leave # Refuse /\ \A c : Leave # Write(c)
  BY DEF Leave, Refuse, Write
<1>1. CASE f = Toml
  BY <1>0, <1>1, DecisionIs, ScaffoldCases, CurrentIs DEF There
<1>2. CASE f \in McpFiles
  <2>1. Registered(f) = Leave
    BY <1>2, DecisionIs
  <2>2. fs[f].is = "json" /\ fs[f].ours = "current"
    BY <1>0, <1>2, <2>1, RegisteredCases
  <2> QED  BY <1>2, <2>2, CurrentIs
<1>3. CASE f \in RuleFiles
  <2>1. Ruled(f) = Leave
    BY <1>3, DecisionIs
  <2>2. fs[f].is = "text" /\ Found(fs[f].text) /\ Upsert(fs[f].text, version) = fs[f].text
    BY <1>0, <1>3, <2>1, RuledCases
  <2> QED  BY <1>3, <2>2, CurrentIs
<1>4. CASE f = Framework
  <2>1. Framed = Leave
    BY <1>4, DecisionIs
  <2>2. PICK n \in DOMAIN fs[Framework].repos :
          /\ n = First(HookRepos(fs[Framework].repos)) /\ n \in HookRepos(fs[Framework].repos)
          /\ fs[Framework].repos[n] = OurEntry
    BY <1>0, <1>4, <2>1, FramedCases
  <2>3. fs[Framework].is = "yaml"
    BY <1>0, <1>4, <2>1, FramedCases
  <2> QED  BY <1>4, <2>2, <2>3, CurrentIs
<1>5. CASE f = Native
  BY <1>0, <1>5, DecisionIs, HookedCases, CurrentIs
<1> QED  BY <1>1, <1>2, <1>3, <1>4, <1>5 DEF Files

LEMMA MadeIsCurrent ==
  ASSUME Held, NEW f \in Files, f = Framework => There(f), \A c \in {fs[f]} : Kept(f, c),
         NEW d \in Made(f), Decision(f) = Write(d)
  PROVE  Current(f, d)
<1>0. Kept(f, fs[f]) /\ Decision(f).do = "write" /\ Decision(f).to = d /\ d # Absent
  BY NeverAbsent DEF Write, Made
<1>1. CASE f = Toml
  BY <1>0, <1>1, CurrentIs
<1>2. CASE f \in McpFiles
  <2>1. Registered(f).do = "write" /\ Registered(f).to = d
    BY <1>0, <1>2, DecisionIs
  <2>2. Registered(f) # Refuse /\ Registered(f) # Leave
    BY <2>1 DEF Leave, Refuse
  <2>3. d = [is |-> "json", others |-> IF There(f) THEN fs[f].others ELSE {}, ours |-> "current"]
    BY <1>2, <2>1, <2>2, RegisteredCases DEF Write
  <2> QED  BY <1>2, <2>3, CurrentIs
<1>3. CASE f \in RuleFiles
  <2>1. Ruled(f).do = "write" /\ Ruled(f).to = d
    BY <1>0, <1>3, DecisionIs
  <2>2. PICK text \in Seq(Marks) :
          /\ Ruled(f) = Write([is |-> "text", text |-> Upsert(text, version)])
          /\ There(f) => fs[f].is = "text" /\ text = fs[f].text
          /\ ~There(f) => WellMarked(text)
    BY <1>3, <2>1, RuledCases DEF Leave
  <2>3. d.is = "text" /\ d.text = Upsert(text, version)
    BY <2>1, <2>2 DEF Write
  <2>4. Fine(f) => WellMarked(text)
    BY <1>0, <1>3, <2>2 DEF Kept
  <2>5. version \in Nat
    BY EntryIs
  <2>6. Fine(f) => Found(d.text) /\ Upsert(d.text, version) = d.text
    BY <2>3, <2>4, <2>5, ClearBefore, FoundAgain, UpsertIdempotent
  <2> QED  BY <1>3, <2>3, <2>6, CurrentIs
<1>4. CASE f = Framework
  <2> DEFINE r == fs[Framework].repos
  <2>0. OurEntry \in Entries /\ OurEntry.hooks = {"rowshape"}
    BY EntryIs
  <2>1. Framed.do = "write" /\ Framed.to = d
    BY <1>0, <1>4, DecisionIs
  <2>2. /\ r \in Seq(Entries)
        /\ \/ HookRepos(r) = {} /\ d = [is |-> "yaml", repos |-> Append(r, OurEntry)]
           \/ \E n \in HookRepos(r) :
                n = First(HookRepos(r)) /\ d = [is |-> "yaml", repos |-> [r EXCEPT ![n] = OurEntry]]
    BY <1>4, <2>1, FramedCases DEF Leave, Refuse, Write
  <2> HIDE DEF r
  <2>3. DOMAIN r = 1 .. Len(r) /\ Len(r) \in Nat
    BY <2>2, LenProperties
  <2>4. CASE HookRepos(r) = {} /\ d = [is |-> "yaml", repos |-> Append(r, OurEntry)]
    <3> DEFINE q == Append(r, OurEntry)
    <3>1. /\ q \in Seq(Entries) /\ Len(q) = Len(r) + 1 /\ q[Len(r) + 1] = OurEntry
          /\ \A n \in 1 .. Len(r) : q[n] = r[n]
      BY <2>0, <2>2, AppendProperties
    <3>2. DOMAIN q = 1 .. Len(q)
      BY <3>1, LenProperties
    <3> HIDE DEF q
    <3>3. HookRepos(q) = {Len(r) + 1}
      <4>1. \A n \in 1 .. Len(r) : n \notin HookRepos(q)
        BY <2>3, <2>4, <3>1 DEF HookRepos
      <4>2. Len(r) + 1 \in HookRepos(q)
        BY <2>0, <2>3, <3>1, <3>2 DEF HookRepos
      <4>3. HookRepos(q) \subseteq 1 .. Len(r) + 1
        BY <3>1, <3>2 DEF HookRepos
      <4> QED  BY <2>3, <4>1, <4>2, <4>3
    <3>4. First(HookRepos(q)) = Len(r) + 1
      BY <2>3, <3>3, FirstIs
    <3>5. d.is = "yaml" /\ d.repos = q
      BY <2>4 DEF q
    <3> QED  BY <1>4, <3>1, <3>3, <3>4, <3>5, CurrentIs
  <2>5. CASE \E n \in HookRepos(r) :
               n = First(HookRepos(r)) /\ d = [is |-> "yaml", repos |-> [r EXCEPT ![n] = OurEntry]]
    <3>1. PICK n \in HookRepos(r) : n = First(HookRepos(r)) /\ d = [is |-> "yaml", repos |-> [r EXCEPT ![n] = OurEntry]]
      BY <2>5
    <3> DEFINE q == [r EXCEPT ![n] = OurEntry]
    <3>2. n \in DOMAIN r /\ "rowshape" \in r[n].hooks
      BY DEF HookRepos
    <3>3. DOMAIN q = DOMAIN r /\ \A m \in DOMAIN r : q[m] = IF m = n THEN OurEntry ELSE r[m]
      BY <3>2
    <3> HIDE DEF q
    <3>4. HookRepos(q) = HookRepos(r)
      <4>1. \A m \in DOMAIN r : "rowshape" \in q[m].hooks <=> "rowshape" \in r[m].hooks
        BY <2>0, <3>2, <3>3
      <4> QED  BY <3>3, <4>1 DEF HookRepos
    <3>5. d.is = "yaml" /\ d.repos = q
      BY <3>1 DEF q
    <3>6. q[n] = OurEntry
      BY <3>2, <3>3
    <3> QED  BY <1>4, <3>1, <3>4, <3>5, <3>6, CurrentIs
  <2> QED  BY <2>2, <2>4, <2>5
<1>5. CASE f = Native
  <2>1. Hooked.do = "write" /\ Hooked.to = d
    BY <1>0, <1>5, DecisionIs
  <2>2. Hooked # Refuse /\ Hooked # Leave
    BY <2>1 DEF Leave, Refuse
  <2>3. origin.git # "file" /\ \E b \in BOOLEAN : Hooked = Write([is |-> "hook", marked |-> TRUE, v |-> version, runs |-> b])
    BY <2>2, HookedCases
  <2>4. d.is = "hook" /\ d.v = version
    BY <2>1, <2>3 DEF Write
  <2> QED  BY <1>5, <2>3, <2>4, CurrentIs
<1> QED  BY <1>1, <1>2, <1>3, <1>4, <1>5 DEF Files

LEMMA CurrentIsLeft ==
  ASSUME Held, NEW f \in Files, Current(f, fs[f]), f = Toml => ~force, f \in RuleFiles => Fine(f)
  PROVE  Decision(f) = Leave
<1>0. fs[f] \in Content(f) \union {Absent}
  BY DEF Held
<1>1. CASE f = Toml
  BY <1>1, CurrentIs, DecisionIs DEF Scaffolded, There
<1>2. CASE f \in McpFiles
  <2>1. fs[f].is = "json" /\ fs[f].ours = "current"
    BY <1>2, CurrentIs
  <2>2. There(f)
    BY <2>1 DEF There, Absent
  <2> QED  BY <1>2, <2>1, <2>2, DecisionIs DEF Registered
<1>3. CASE f \in RuleFiles
  <2>1. fs[f].is = "text" /\ Found(fs[f].text) /\ Upsert(fs[f].text, version) = fs[f].text
    BY <1>3, CurrentIs
  <2>2. There(f)
    BY <2>1 DEF There, Absent
  <2> QED  BY <1>3, <2>1, <2>2, DecisionIs DEF Ruled
<1>4. CASE f = Framework
  <2>1. /\ fs[f].is = "yaml" /\ HookRepos(fs[f].repos) # {}
        /\ fs[f].repos[First(HookRepos(fs[f].repos))] = OurEntry
    BY <1>4, CurrentIs
  <2> QED  BY <1>4, <2>1, DecisionIs DEF Framed
<1>5. CASE f = Native
  <2>1. origin.git # "file" /\ fs[Native].is = "hook" /\ fs[Native].v = version
    BY <1>5, CurrentIs
  <2>2. fs[Native] \in Hooks
    BY <1>0, <1>5, <2>1, ContentIs DEF Absent
  <2>3. fs[Native].marked = TRUE /\ fs[Native] = [is |-> "hook", marked |-> TRUE, v |-> version, runs |-> fs[Native].runs]
    BY <2>1, <2>2 DEF Hooks
  <2>4. There(Native)
    BY <2>1 DEF There, Absent
  <2> QED  BY <1>5, <2>1, <2>3, <2>4, DecisionIs DEF Hooked
<1> QED  BY <1>1, <1>2, <1>3, <1>4, <1>5 DEF Files

LEMMA InEither ==
  ASSUME NEW S, NEW a \in Seq(S), NEW b \in Seq(S), NEW f
  PROVE  In(f, a \o b) <=> In(f, a) \/ In(f, b)
<1>1. /\ Len(a \o b) = Len(a) + Len(b)
      /\ \A n \in 1 .. Len(a) + Len(b) : (a \o b)[n] = IF n <= Len(a) THEN a[n] ELSE b[n - Len(a)]
  BY ONLY ConcatProperties, a \in Seq(S), b \in Seq(S)
<1>2. Len(a) \in Nat /\ Len(b) \in Nat
  BY LenProperties
<1>3. ASSUME In(f, a \o b)
      PROVE  In(f, a) \/ In(f, b)
  <2>1. PICK n \in 1 .. Len(a) + Len(b) : (a \o b)[n] = f
    BY <1>1, <1>3 DEF In
  <2>2. CASE n <= Len(a)
    <3>1. n \in 1 .. Len(a) /\ a[n] = f
      BY <1>1, <1>2, <2>1, <2>2
    <3> QED  BY <3>1 DEF In
  <2>3. CASE n > Len(a)
    <3>1. n - Len(a) \in 1 .. Len(b) /\ ~(n <= Len(a))
      BY <1>2, <2>1, <2>3
    <3>2. b[n - Len(a)] = f
      BY <1>1, <2>1, <3>1
    <3> QED  BY <3>1, <3>2 DEF In
  <2> QED  BY <1>2, <2>1, <2>2, <2>3
<1>4. ASSUME In(f, a)
      PROVE  In(f, a \o b)
  <2>1. PICK n \in 1 .. Len(a) : a[n] = f
    BY <1>4 DEF In
  <2>2. n \in 1 .. Len(a) + Len(b) /\ n <= Len(a)
    BY <1>2
  <2>3. (a \o b)[n] = f
    BY <1>1, <2>1, <2>2
  <2> QED  BY <1>1, <2>2, <2>3 DEF In
<1>5. ASSUME In(f, b)
      PROVE  In(f, a \o b)
  <2>1. PICK n \in 1 .. Len(b) : b[n] = f
    BY <1>5 DEF In
  <2> DEFINE m == Len(a) + n
  <2>2. m \in 1 .. Len(a) + Len(b) /\ ~(m <= Len(a)) /\ m - Len(a) = n
    BY <1>2
  <2> HIDE DEF m
  <2>3. (a \o b)[m] = f
    BY <1>1, <2>1, <2>2
  <2> QED  BY <1>1, <2>2, <2>3 DEF In
<1> QED  BY <1>3, <1>4, <1>5

LEMMA InOne == \A f, g : In(f, <<g>>) <=> f = g
<1>1. \A g : Len(<<g>>) = 1 /\ <<g>>[1] = g
  OBVIOUS
<1>2. 1 .. 1 = {1}
  OBVIOUS
<1> QED  BY <1>1, <1>2 DEF In

LEMMA InNone == \A f : ~In(f, <<>>)
<1>1. Len(<<>>) = 0
  BY EmptySeq
<1> QED  BY <1>1 DEF In

LEMMA InSome ==
  ASSUME NEW S, NEW s \in Seq(S), s # <<>>
  PROVE  \E f : In(f, s)
<1>1. Len(s) \in Nat /\ Len(s) > 0
  BY EmptySeq
<1>2. 1 \in 1 .. Len(s)
  BY <1>1
<1> QED  BY <1>2 DEF In

\* Who is in the lists that a phase starts with.
LEMMA ClientsAre == \A f : In(f, Clients) <=> IsClient(f)
<1> DEFINE a == Client(".mcp.json")
           b == Client(".cursor/mcp.json")
           c == Client(".vscode/mcp.json")
           s == (a \o b) \o c
<1>1. a \in Seq(McpFiles) /\ b \in Seq(McpFiles) /\ c \in Seq(McpFiles)
  <2>1. \A f \in McpFiles : <<f>> \in Seq(McpFiles) /\ Client(f) \in Seq(McpFiles)
    BY DEF Client
  <2> QED  BY <2>1 DEF McpFiles
<1>2. \A f, g : In(f, Client(g)) <=> f = g /\ ClientPresent(g)
  BY InOne, InNone DEF Client
<1> HIDE DEF a, b, c
<1>3. a \o b \in Seq(McpFiles) /\ s \in Seq(McpFiles)
  BY <1>1, ConcatProperties
<1>4. \A f : In(f, s) <=> In(f, a) \/ In(f, b) \/ In(f, c)
  BY <1>1, <1>3, InEither
<1> HIDE DEF s
<1>5. \A f : In(f, s) <=> f \in McpFiles /\ ClientPresent(f)
  BY <1>2, <1>4 DEF a, b, c, McpFiles
<1>6. Clients = IF s = <<>> THEN <<".mcp.json">> ELSE s
  BY DEF Clients, a, b, c, s
<1>7. CASE s = <<>>
  <2>1. \A f \in McpFiles : ~ClientPresent(f)
    BY <1>5, <1>7, InNone
  <2>2. \A f : In(f, Clients) <=> f = ".mcp.json"
    BY <1>6, <1>7, InOne
  <2>3. ".mcp.json" \in McpFiles
    BY DEF McpFiles
  <2> QED  BY <2>1, <2>2, <2>3 DEF IsClient
<1>8. CASE s # <<>>
  <2>1. PICK g : g \in McpFiles /\ ClientPresent(g)
    BY <1>3, <1>5, <1>8, InSome
  <2>2. Clients = s
    BY <1>6, <1>8
  <2> QED  BY <1>5, <2>1, <2>2 DEF IsClient
<1> QED  BY <1>7, <1>8

LEMMA TargetsAre == \A f : In(f, Targets) <=> IsTarget(f)
<1> DEFINE a == Target("AGENTS.md")
           b == Target("CLAUDE.md")
           c == Target("rowshape.mdc")
           s == (a \o b) \o c
<1>1. a \in Seq(RuleFiles) /\ b \in Seq(RuleFiles) /\ c \in Seq(RuleFiles)
  <2>1. \A f \in RuleFiles : <<f>> \in Seq(RuleFiles) /\ Target(f) \in Seq(RuleFiles)
    BY DEF Target
  <2> QED  BY <2>1 DEF RuleFiles
<1>2. \A f, g : In(f, Target(g)) <=> f = g /\ TargetPresent(g)
  BY InOne, InNone DEF Target
<1> HIDE DEF a, b, c
<1>3. a \o b \in Seq(RuleFiles) /\ s \in Seq(RuleFiles)
  BY <1>1, ConcatProperties
<1>4. \A f : In(f, s) <=> In(f, a) \/ In(f, b) \/ In(f, c)
  BY <1>1, <1>3, InEither
<1> HIDE DEF s
<1>5. \A f : In(f, s) <=> f \in RuleFiles /\ TargetPresent(f)
  BY <1>2, <1>4 DEF a, b, c, RuleFiles
<1>6. Targets = IF s = <<>> THEN <<"AGENTS.md">> ELSE s
  BY DEF Targets, a, b, c, s
<1>7. CASE s = <<>>
  <2>1. \A f \in RuleFiles : ~TargetPresent(f)
    BY <1>5, <1>7, InNone
  <2>2. \A f : In(f, Targets) <=> f = "AGENTS.md"
    BY <1>6, <1>7, InOne
  <2>3. "AGENTS.md" \in RuleFiles
    BY DEF RuleFiles
  <2> QED  BY <2>1, <2>2, <2>3 DEF IsTarget
<1>8. CASE s # <<>>
  <2>1. PICK g : g \in RuleFiles /\ TargetPresent(g)
    BY <1>3, <1>5, <1>8, InSome
  <2>2. Targets = s
    BY <1>6, <1>8
  <2> QED  BY <1>5, <2>1, <2>2 DEF IsTarget
<1> QED  BY <1>7, <1>8

LEMMA HooksAre == \A f : In(f, HookFiles) <=> IsHook(f)
<1>1. CASE There(Framework)
  BY <1>1, InOne DEF HookFiles, IsHook
<1>2. CASE ~There(Framework)
  BY <1>2, InOne, InNone DEF HookFiles, IsHook
<1> QED  BY <1>1, <1>2

LEMMA InHeadTail ==
  ASSUME TypeInv, todo # <<>>
  PROVE  /\ In(Head(todo), todo)
         /\ \A f : In(f, todo) => f = Head(todo) \/ In(f, Tail(todo))
         /\ \A f : In(f, Tail(todo)) => In(f, todo)
<1>1. todo \in Seq(Files)
  BY DEF TypeInv, TypeOK
<1>2. /\ Len(Tail(todo)) = Len(todo) - 1
      /\ \A n \in 1 .. Len(Tail(todo)) : Tail(todo)[n] = todo[n + 1]
  BY <1>1, HeadTailProperties
<1>3. Len(todo) \in Nat /\ Len(todo) > 0 /\ Head(todo) = todo[1]
  BY <1>1, EmptySeq, LenProperties
<1>4. In(Head(todo), todo)
  <2>1. 1 \in 1 .. Len(todo)
    BY <1>3
  <2> QED  BY <1>3, <2>1 DEF In
<1>5. ASSUME NEW f, In(f, todo), f # Head(todo)
      PROVE  In(f, Tail(todo))
  <2>1. PICK n \in 1 .. Len(todo) : todo[n] = f
    BY <1>5 DEF In
  <2>2. n # 1
    BY <1>3, <1>5, <2>1
  <2> DEFINE m == n - 1
  <2>3. m \in 1 .. Len(Tail(todo)) /\ m + 1 = n
    BY <1>2, <1>3, <2>1, <2>2
  <2> HIDE DEF m
  <2>4. Tail(todo)[m] = f
    BY <1>2, <2>1, <2>3
  <2> QED  BY <2>3, <2>4 DEF In
<1>6. ASSUME NEW f, In(f, Tail(todo))
      PROVE  In(f, todo)
  <2>1. PICK n \in 1 .. Len(Tail(todo)) : Tail(todo)[n] = f
    BY <1>6 DEF In
  <2>2. n + 1 \in 1 .. Len(todo) /\ todo[n + 1] = f
    BY <1>2, <1>3, <2>1
  <2> QED  BY <2>2 DEF In
<1> QED  BY <1>4, <1>5, <1>6

LEMMA CurrentOn ==
  ASSUME UNCHANGED <<origin, version>>
  PROVE  \A f, c : Current(f, c) <=> Current(f, c)'
<1>1. \A f : Fine(f) <=> Fine(f)'
  BY DEF Fine
<1>2. OurEntry' = OurEntry
  BY DEF OurEntry
<1> QED  BY <1>1, <1>2 DEF Current

ListsStay == \A f : (IsClient(f) <=> IsClient(f)') /\ (IsTarget(f) <=> IsTarget(f)') /\ (IsHook(f) <=> IsHook(f)')

LEMMA ListsOn ==
  ASSUME UNCHANGED <<origin, env, fs>>
  PROVE  ListsStay
<1>1. \A f : There(f) <=> There(f)'
  BY DEF There
<1>2. \A f : (ClientPresent(f) <=> ClientPresent(f)') /\ (TargetPresent(f) <=> TargetPresent(f)')
  BY <1>1 DEF ClientPresent, TargetPresent
<1> QED  BY <1>1, <1>2 DEF ListsStay, IsClient, IsTarget, IsHook

\* A file comes to be only where the lists already have it: writing one of them adds none.
LEMMA ListsOverWrite ==
  ASSUME TypeInv, Listed, todo # <<>>, UNCHANGED <<origin, env>>,
         NEW c \in Content(Head(todo)), fs' = [fs EXCEPT ![Head(todo)] = c]
  PROVE  ListsStay
<1>1. PICK h \in Files : h = Head(todo)
  BY Heads
<1>2. c # Absent
  BY <1>1, NeverAbsent
<1>3. \A f \in Files : There(f)' <=> There(f) \/ f = h
  BY <1>1, <1>2 DEF There, TypeInv, TypeOK
<1>4. /\ h \in McpFiles => IsClient(h)
      /\ h \in RuleFiles => IsTarget(h)
      /\ h = Framework => There(Framework)
  <2>1. In(h, todo) /\ h \in OfPhase(pc) /\ pc \in Phases /\ (h = Framework => There(Framework))
    BY <1>1, InHeadTail, Heads, TypeHeld
  <2>2. (h \in McpFiles => pc = "clients") /\ (h \in RuleFiles => pc = "rules")
    BY <2>1, PhaseFiles, NamesDiffer DEF Phases
  <2> QED  BY <2>1, <2>2 DEF Listed, Waiting
<1>5. ".mcp.json" \in Files /\ ".cursor/mcp.json" \in Files /\ ".vscode/mcp.json" \in Files /\ Framework \in Files
        /\ "AGENTS.md" \in Files /\ "CLAUDE.md" \in Files /\ "rowshape.mdc" \in Files
  BY DEF Files, McpFiles, RuleFiles
<1>6. There("CLAUDE.md")' <=> There("CLAUDE.md")
  <2>1. h = "CLAUDE.md" => TargetPresent("CLAUDE.md")
    BY <1>4 DEF IsTarget, RuleFiles
  <2> QED  BY <1>3, <1>5, <2>1 DEF TargetPresent
<1>7. ClientPresent(".cursor/mcp.json")' <=> ClientPresent(".cursor/mcp.json")
  BY DEF ClientPresent
<1>8. ClientPresent(".vscode/mcp.json")' <=> ClientPresent(".vscode/mcp.json")
  BY DEF ClientPresent
<1>9. ClientPresent(".mcp.json")' <=> ClientPresent(".mcp.json") \/ h = ".mcp.json"
  BY <1>3, <1>5, <1>6 DEF ClientPresent
<1>10. \A f : IsClient(f) <=> IsClient(f)'
  BY <1>4, <1>7, <1>8, <1>9 DEF IsClient, McpFiles
<1>11. TargetPresent("CLAUDE.md")' <=> TargetPresent("CLAUDE.md")
  BY <1>6 DEF TargetPresent
<1>12. TargetPresent("rowshape.mdc")' <=> TargetPresent("rowshape.mdc")
  BY DEF TargetPresent
<1>13. TargetPresent("AGENTS.md")' <=> TargetPresent("AGENTS.md") \/ h = "AGENTS.md"
  BY <1>3, <1>5 DEF TargetPresent
<1>14. \A f : IsTarget(f) <=> IsTarget(f)'
  BY <1>4, <1>11, <1>12, <1>13 DEF IsTarget, RuleFiles
<1>15. \A f : IsHook(f) <=> IsHook(f)'
  BY <1>3, <1>4, <1>5 DEF IsHook
<1> QED  BY <1>10, <1>14, <1>15 DEF ListsStay

\* The first file is seen to, and the others are as they were.
LEMMA NextFile ==
  ASSUME TypeInv, Listed, Handled, todo # <<>>, pc # "idle", ListsStay,
         UNCHANGED <<pc, exit, failed, origin, args>>, todo' = Tail(todo), io' = "none",
         \A f \in Files : \A c \in {fs[f]'} :
           /\ f # Head(todo) => c = fs[f]
           /\ f = Head(todo) => Current(f, c)
  PROVE  Listed' /\ Handled'
<1>0. /\ UNCHANGED <<pc, exit, failed, origin, version>> /\ todo' = Tail(todo) /\ io' = "none"
      /\ \A f, c : Current(f, c) <=> Current(f, c)'
  BY CurrentOn DEF args
<1>1. /\ \A f : In(f, todo) => f = Head(todo) \/ In(f, Tail(todo))
      /\ \A f : In(f, Tail(todo)) => In(f, todo)
  BY InHeadTail
<1>2. Listed'
  <2>1. exit' = "0" => ~failed' /\ pc' = "idle"
    BY <1>0 DEF Listed
  <2>2. \A f : Waiting(f)' => Waiting(f)
    BY <1>0, <1>1 DEF Waiting
  <2>3. pc' = "clients" => \A f \in McpFiles : Waiting(f)' => IsClient(f)'
    BY <1>0, <2>2 DEF Listed, ListsStay
  <2>4. pc' = "rules" => \A f \in RuleFiles : Waiting(f)' => IsTarget(f)'
    BY <1>0, <2>2 DEF Listed, ListsStay
  <2> QED  BY <1>0, <2>1, <2>3, <2>4 DEF Listed
<1>3. ASSUME NEW p, NEW f \in Files, SeenTo(p, f)
      PROVE  SeenTo(p, f)'
  <2>1. CASE f = Head(todo)
    BY <1>0, <2>1 DEF SeenTo
  <2>2. CASE f # Head(todo)
    BY <1>0, <1>1, <1>3, <2>2 DEF SeenTo, Waiting
  <2> QED  BY <2>1, <2>2
<1>4. Sound' => Sound
  BY <1>0 DEF Sound
<1>5. ASSUME Sound', pc' # "scaffold" \/ todo' = <<>>
      PROVE  There(Toml)'
  <2>1. Toml \in Files /\ Toml \notin McpFiles /\ Toml \notin RuleFiles
    BY NamesDiffer DEF Files
  <2>2. CASE Toml = Head(todo)
    <3>1. ASSUME NEW c \in {fs[Toml]'}
          PROVE  c # Absent
      BY <2>1, <2>2, CurrentIs
    <3> QED  BY <3>1 DEF There
  <2>3. CASE Toml # Head(todo)
    <3>1. pc # "scaffold"
      BY <2>3, Heads, PhaseFiles
    <3>2. There(Toml)
      BY <1>4, <1>5, <3>1 DEF Handled
    <3> QED  BY <2>1, <2>3, <3>2 DEF There
  <2> QED  BY <2>2, <2>3
<1>6. McpFiles \subseteq Files /\ RuleFiles \subseteq Files /\ {Framework, Native} \subseteq Files
  BY DEF Files
<1>7. ASSUME Sound', pc' \in {"clients", "rules", "hook", "idle"}, NEW f \in McpFiles, IsClient(f)'
      PROVE  SeenTo("clients", f)'
  BY <1>0, <1>3, <1>4, <1>6, <1>7 DEF Handled, ListsStay
<1>8. ASSUME Sound', pc' \in {"rules", "hook", "idle"}, NEW f \in RuleFiles, IsTarget(f)'
      PROVE  SeenTo("rules", f)'
  BY <1>0, <1>3, <1>4, <1>6, <1>8 DEF Handled, ListsStay
<1>9. ASSUME Sound', pc' \in {"hook", "idle"}, NEW f \in {Framework, Native}, IsHook(f)'
      PROVE  SeenTo("hook", f)'
  BY <1>0, <1>3, <1>4, <1>6, <1>9 DEF Handled, ListsStay
<1> QED  BY <1>2, <1>5, <1>7, <1>8, <1>9 DEF Handled

\* A step that leaves the files and what is to be done as they are.
LEMMA SameFiles ==
  ASSUME TypeInv, Listed, Handled, UNCHANGED <<pc, exit, failed, origin, args, todo, fs>>,
         io' = "none" \/ \A f \in Files : \A c \in {new'} : f = Head(todo) => Current(f, c)
  PROVE  Listed' /\ Handled'
<1>0. /\ UNCHANGED <<pc, exit, failed, origin, version, todo, fs>>
      /\ \A f, c : Current(f, c) <=> Current(f, c)'
      /\ ListsStay /\ (There(Toml) <=> There(Toml)')
  BY CurrentOn, ListsOn DEF args, There
<1>1. (\A f : Waiting(f) <=> Waiting(f)') /\ (Sound <=> Sound')
  BY <1>0 DEF Waiting, Sound
<1>2. \A p, f : SeenTo(p, f) <=> SeenTo(p, f)'
  BY <1>0, <1>1 DEF SeenTo
<1>3. Listed'
  BY <1>0, <1>1 DEF Listed, ListsStay
<1>4. Handled'
  BY <1>0, <1>1, <1>2 DEF Handled, ListsStay
<1> QED  BY <1>3, <1>4

\* A step after which the run is no longer sound, or is over and told so.
LEMMA Unsound ==
  ASSUME TypeInv, Listed, ListsStay, exit' # "0", io' = "none",
         pc' = "idle" \/ (failed' /\ UNCHANGED pc /\ todo' = Tail(todo) /\ todo # <<>>)
  PROVE  Listed' /\ Handled'
<1>1. ~Sound'
  BY DEF Sound
<1>2. pc' # "idle" => \A f : Waiting(f)' => Waiting(f)
  BY InHeadTail DEF Waiting
<1>3. Listed'
  BY <1>2 DEF Listed, ListsStay
<1> QED  BY <1>1, <1>3 DEF Handled

LEMMA FailListed ==
  ASSUME TypeInv, Listed, ListsStay, Fail, todo # <<>>
  PROVE  Listed' /\ Handled'
<1>1. pc # "idle" /\ exit = "none"
  BY DEF TypeInv, TypeOK
<1> QED  BY <1>1, Unsound DEF Fail

LEMMA CutLists ==
  ASSUME TypeInv, Listed, UNCHANGED <<origin, args>>, io # "none",
         IF io = "fill"
         THEN /\ \E c \in Torn(Head(todo), new) : fs' = [fs EXCEPT ![Head(todo)] = c]
              /\ faults' = faults \union {Head(todo)}
         ELSE UNCHANGED <<fs, faults>>
  PROVE  ListsStay
<1>1. CASE io # "fill"
  BY <1>1, ListsOn DEF args
<1>2. CASE io = "fill"
  <2>1. todo # <<>> /\ Head(todo) \in Files /\ new \in Made(Head(todo)) /\ ~Atomic(Head(todo))
    BY <1>2, Opened DEF TypeInv
  <2>2. PICK c \in Torn(Head(todo), new) : fs' = [fs EXCEPT ![Head(todo)] = c]
    BY <1>2
  <2>3. c \in Content(Head(todo))
    BY <2>1, TornIsContent
  <2> QED  BY <2>1, <2>2, <2>3, ListsOverWrite DEF args
<1> QED  BY <1>1, <1>2

LEMMA HandledStep ==
  ASSUME TypeInv, KeptInv, Listed, Handled, [Next]_vars
  PROVE  Listed' /\ Handled'
<1>0. pc # "idle" => exit = "none"
  BY DEF TypeInv, TypeOK
<1>1. CASE UNCHANGED vars
  <2>1. UNCHANGED <<pc, exit, failed, origin, args, todo, fs, io, new>>
    BY <1>1 DEF vars
  <2>2. io' = "none" \/ \A f \in Files : \A c \in {new'} : f = Head(todo) => Current(f, c)
    BY <2>1 DEF Listed
  <2> QED  BY <2>1, <2>2, SameFiles
<1>2. CASE Begin
  <2>1. pc' = "scaffold" /\ todo' # <<>> /\ exit' = "none" /\ io' = "none"
    BY <1>2 DEF Begin, TypeInv
  <2> QED  BY <2>1 DEF Listed, Handled
<1>3. CASE Advance
  <2>1. /\ io = "none" /\ io' = "none" /\ todo = <<>> /\ pc \in Phases \ {"idle"}
        /\ UNCHANGED <<origin, fs, run, args, failed>>
    BY <1>3, TypeHeld DEF Advance, Ready
  <2>2. /\ ListsStay /\ (There(Toml) <=> There(Toml)') /\ \A f, c : Current(f, c) <=> Current(f, c)'
    BY <2>1, ListsOn, CurrentOn DEF args, There
  <2>3. \A f : ~Waiting(f)
    BY <2>1, InNone DEF Waiting
  <2>4. \A p, q, f : SeenTo(p, f) => SeenTo(q, f)'
    BY <2>1, <2>2, <2>3 DEF SeenTo
  <2>5. Sound' => Sound /\ There(Toml)'
    BY <2>1, <2>2 DEF Sound, Handled, Phases
  <2>6. CASE pc = "scaffold"
    <3>1. pc' = "clients" /\ todo' = Clients /\ exit' = exit
      BY <1>3, <2>6 DEF Advance
    <3>2. \A f : Waiting(f)' <=> IsClient(f)
      BY <3>1, ClientsAre DEF Waiting
    <3>3. Listed'
      BY <1>0, <2>1, <2>2, <2>6, <3>1, <3>2 DEF Listed, ListsStay
    <3>4. \A f : IsClient(f)' => SeenTo("clients", f)'
      BY <2>2, <3>1, <3>2 DEF SeenTo, ListsStay
    <3> QED  BY <2>5, <3>1, <3>3, <3>4 DEF Handled
  <2>7. CASE pc = "clients"
    <3>1. pc' = "rules" /\ todo' = Targets /\ exit' = exit
      BY <1>3, <2>7 DEF Advance
    <3>2. \A f : Waiting(f)' <=> IsTarget(f)
      BY <3>1, TargetsAre DEF Waiting
    <3>3. Listed'
      BY <1>0, <2>1, <2>2, <2>7, <3>1, <3>2 DEF Listed, ListsStay
    <3>4. \A f : IsTarget(f)' => SeenTo("rules", f)'
      BY <2>2, <3>1, <3>2 DEF SeenTo, ListsStay
    <3>5. Sound' => \A f \in McpFiles : IsClient(f)' => SeenTo("clients", f)'
      BY <2>2, <2>4, <2>5, <2>7 DEF Handled, ListsStay
    <3> QED  BY <2>5, <3>1, <3>3, <3>4, <3>5 DEF Handled
  <2>8. CASE pc = "rules"
    <3>1. pc' = "hook" /\ todo' = HookFiles /\ exit' = exit
      BY <1>3, <2>8 DEF Advance
    <3>2. \A f : Waiting(f)' <=> IsHook(f)
      BY <3>1, HooksAre DEF Waiting
    <3>3. Listed'
      BY <1>0, <2>1, <2>2, <2>8, <3>1, <3>2 DEF Listed, ListsStay
    <3>4. \A f : IsHook(f)' => SeenTo("hook", f)'
      BY <2>2, <3>1, <3>2 DEF SeenTo, ListsStay
    <3>5. Sound' => \A f \in McpFiles : IsClient(f)' => SeenTo("clients", f)'
      BY <2>2, <2>4, <2>5, <2>8 DEF Handled, ListsStay
    <3>6. Sound' => \A f \in RuleFiles : IsTarget(f)' => SeenTo("rules", f)'
      BY <2>2, <2>4, <2>5, <2>8 DEF Handled, ListsStay
    <3> QED  BY <2>5, <3>1, <3>3, <3>4, <3>5, <3>6 DEF Handled
  <2>9. CASE pc = "hook"
    <3>1. pc' = "idle" /\ exit' = (IF failed THEN "3" ELSE "0")
      BY <1>3, <2>9 DEF Advance
    <3>2. Listed'
      BY <2>1, <3>1 DEF Listed
    <3>3. Sound' => \A f \in McpFiles : IsClient(f)' => SeenTo("clients", f)'
      BY <2>2, <2>4, <2>5, <2>9 DEF Handled, ListsStay
    <3>4. Sound' => \A f \in RuleFiles : IsTarget(f)' => SeenTo("rules", f)'
      BY <2>2, <2>4, <2>5, <2>9 DEF Handled, ListsStay
    <3>5. Sound' => \A f \in {Framework, Native} : IsHook(f)' => SeenTo("hook", f)'
      BY <2>2, <2>4, <2>5, <2>9 DEF Handled, ListsStay
    <3> QED  BY <2>5, <3>2, <3>3, <3>4, <3>5 DEF Handled
  <2> QED  BY <2>1, <2>6, <2>7, <2>8, <2>9 DEF Phases
<1>4. CASE Read
  <2>1. todo # <<>> /\ UNCHANGED <<origin, fs, run, args>> /\ io = "none" /\ pc # "idle"
    BY <1>4 DEF Read, Ready
  <2>2. ListsStay
    BY <2>1, ListsOn DEF args
  <2>3. Held /\ Head(todo) \in Files
    BY <2>1, Heads, TypeHeld
  <2>4. Head(todo) = Framework => There(Head(todo))
    BY <2>1, Heads
  <2>5. CASE Decision(Head(todo)) = Leave
    <3>1. UNCHANGED <<pc, exit, failed, origin, args>> /\ todo' = Tail(todo) /\ io' = "none"
      BY <1>4, <2>1, <2>5 DEF Read, Leave
    <3>2. \A f \in Files : f = Head(todo) => Current(f, fs[f])
      BY <2>3, <2>4, <2>5, LeftIsCurrent
    <3>3. \A f \in Files : \A c \in {fs[f]'} :
            /\ f # Head(todo) => c = fs[f]
            /\ f = Head(todo) => Current(f, c)
      BY <2>1, <3>2
    <3> QED  BY <2>1, <2>2, <3>1, <3>3, NextFile
  <2>6. CASE Decision(Head(todo)) = Refuse
    BY <1>4, <2>1, <2>2, <2>6, FailListed DEF Read, Refuse
  <2>7. CASE \E c \in Made(Head(todo)) : Decision(Head(todo)) = Write(c)
    <3>1. PICK d \in Made(Head(todo)) : Decision(Head(todo)) = Write(d)
      BY <2>7
    <3>2. new' = d /\ UNCHANGED <<pc, todo, failed, exit>>
      BY <1>4, <3>1 DEF Read, Write
    <3>3. \A f \in Files : \A c \in {fs[f]} : Kept(f, c)
      BY <2>1 DEF KeptInv
    <3>4. ASSUME NEW f \in Files, NEW c \in {new'}, f = Head(todo)
          PROVE  Current(f, c)
      BY <2>3, <2>4, <3>1, <3>2, <3>3, <3>4, MadeIsCurrent
    <3> QED  BY <2>1, <3>2, <3>4, SameFiles
  <2> QED  BY <2>3, <2>4, <2>5, <2>6, <2>7, DecisionMakes
<1>5. CASE ReadFails
  <2>1. todo # <<>> /\ UNCHANGED <<origin, fs, run, args>> /\ Fail
    BY <1>5 DEF ReadFails
  <2> QED  BY <2>1, ListsOn, FailListed DEF args
<1>6. CASE WriteTemp
  <2>1. UNCHANGED <<pc, exit, failed, origin, args, todo, fs, new>> /\ io # "none"
    BY <1>6 DEF WriteTemp
  <2> QED  BY <2>1, SameFiles DEF Listed
<1>7. CASE Rename \/ Fill
  <2>1. Written /\ io # "none"
    BY <1>7 DEF Rename, Fill
  <2>2. todo # <<>> /\ pc # "idle" /\ new \in Content(Head(todo)) /\ Head(todo) \in Files
    BY <2>1, Opened DEF Made
  <2>3. /\ fs' = [fs EXCEPT ![Head(todo)] = new] /\ io' = "none" /\ todo' = Tail(todo)
        /\ UNCHANGED <<pc, exit, failed, origin, args>>
    BY <2>1 DEF Written
  <2>4. ListsStay
    BY <2>2, <2>3, ListsOverWrite DEF args
  <2>5. \A f \in Files : fs'[f] = IF f = Head(todo) THEN new ELSE fs[f]
    BY <2>3 DEF TypeInv, TypeOK
  <2>6. \A f \in Files : \A c \in {fs[f]'} :
          /\ f # Head(todo) => c = fs[f]
          /\ f = Head(todo) => Current(f, c)
    BY <2>1, <2>5 DEF Listed
  <2> QED  BY <2>2, <2>3, <2>4, <2>6, NextFile
<1>8. CASE Truncate
  <2>1. todo # <<>> /\ pc # "idle" /\ new \in Made(Head(todo)) /\ Head(todo) \in Files /\ ~Atomic(Head(todo))
    BY <1>8, Opened DEF Truncate, TypeInv
  <2>2. /\ fs' = [fs EXCEPT ![Head(todo)] = Emptied(Head(todo), new)] /\ io # "none"
        /\ UNCHANGED <<pc, exit, failed, origin, args, todo, new>>
    BY <1>8 DEF Truncate
  <2>3. Emptied(Head(todo), new) \in Content(Head(todo))
    BY <2>1, TornIsContent
  <2>4. ListsStay
    BY <2>1, <2>2, <2>3, ListsOverWrite DEF args
  <2>5. \A f, c : Current(f, c) <=> Current(f, c)'
    BY <2>2, CurrentOn DEF args
  <2>6. (\A f : Waiting(f) <=> Waiting(f)') /\ (Sound <=> Sound')
    BY <2>2 DEF Waiting, Sound
  <2>7. PICK h \in Files : h = Head(todo)
    BY <2>1
  <2>8. Waiting(h) /\ h \in OfPhase(pc) /\ pc \in Phases
    BY <2>1, <2>7, InHeadTail, Heads, TypeHeld DEF Waiting
  <2>9. \A f \in Files : f # h => fs'[f] = fs[f]
    BY <2>2, <2>7 DEF TypeInv, TypeOK
  <2>10. ASSUME NEW p, NEW f \in Files, SeenTo(p, f), f = h => pc = p
         PROVE  SeenTo(p, f)'
    <3>1. CASE f = h
      BY <2>2, <2>6, <2>8, <2>10, <3>1 DEF SeenTo
    <3>2. CASE f # h
      BY <2>2, <2>5, <2>6, <2>9, <2>10, <3>2 DEF SeenTo
    <3> QED  BY <3>1, <3>2
  <2>11. /\ h \in McpFiles => pc = "clients"
         /\ h \in RuleFiles => pc = "rules"
         /\ h \in {Framework, Native} => pc = "hook"
    BY <2>8, PhaseFiles, NamesDiffer DEF Phases
  <2>12. Listed'
    <3>1. ASSUME NEW f \in Files, NEW c \in {new'}, f = Head(todo')
          PROVE  Current(f, c)'
      BY <2>2, <2>5, <3>1 DEF Listed
    <3> QED  BY <2>2, <2>4, <2>6, <3>1 DEF Listed, ListsStay
  <2>13. There(Toml) => There(Toml)'
    <3>1. Emptied(Head(todo), new) # Absent
      BY <2>1, <2>3, NeverAbsent
    <3>2. Toml \in Files
      BY DEF Files
    <3> QED  BY <2>2, <3>1, <3>2 DEF There, TypeInv, TypeOK
  <2>14. McpFiles \subseteq Files /\ RuleFiles \subseteq Files /\ {Framework, Native} \subseteq Files
    BY DEF Files
  <2>15. ASSUME Sound', pc' \in {"clients", "rules", "hook", "idle"}, NEW f \in McpFiles, IsClient(f)'
         PROVE  SeenTo("clients", f)'
    <3>1. SeenTo("clients", f)
      BY <2>2, <2>4, <2>6, <2>15 DEF Handled, ListsStay
    <3> QED  BY <2>10, <2>11, <2>14, <3>1
  <2>16. ASSUME Sound', pc' \in {"rules", "hook", "idle"}, NEW f \in RuleFiles, IsTarget(f)'
         PROVE  SeenTo("rules", f)'
    <3>1. SeenTo("rules", f)
      BY <2>2, <2>4, <2>6, <2>16 DEF Handled, ListsStay
    <3> QED  BY <2>10, <2>11, <2>14, <3>1
  <2>17. ASSUME Sound', pc' \in {"hook", "idle"}, NEW f \in {Framework, Native}, IsHook(f)'
         PROVE  SeenTo("hook", f)'
    <3>1. SeenTo("hook", f)
      BY <2>2, <2>4, <2>6, <2>17 DEF Handled, ListsStay
    <3> QED  BY <2>10, <2>11, <2>14, <3>1
  <2>18. Sound' /\ (pc' # "scaffold" \/ todo' = <<>>) => There(Toml)'
    BY <2>2, <2>6, <2>13 DEF Handled
  <2> QED  BY <2>12, <2>15, <2>16, <2>17, <2>18 DEF Handled
<1>9. CASE WriteFails
  <2>1. todo # <<>> /\ ListsStay /\ Fail
    BY <1>9, Opened, CutLists DEF WriteFails
  <2> QED  BY <2>1, FailListed
<1>10. CASE Crash
  <2>1. ListsStay
    BY <1>10, CutLists, ListsOn DEF Crash, args
  <2>2. exit' = "killed" /\ io' = "none" /\ pc' = "idle"
    BY <1>10 DEF Crash
  <2> QED  BY <2>1, <2>2, Unsound
<1>11. CASE Ended
  BY <1>1, <1>11 DEF Ended
<1> QED  BY <1>1, <1>2, <1>3, <1>4, <1>5, <1>6, <1>7, <1>8, <1>9, <1>10, <1>11 DEF Next

\* A run that exits 0 leaves nothing for another of its version to do, in any repository and
\* after any history of runs of any versions, cut off or not.
THEOREM RunsSettle == Spec => []Settled
<1>1. Init => SetupInv
  <2>1. Init => Listed /\ Handled
    BY DEF Init, Listed, Handled, Sound
  <2> QED  BY <2>1, InitTyped, InitKept DEF SetupInv
<1>2. SetupInv /\ [Next]_vars => SetupInv'
  <2>1. SUFFICES ASSUME SetupInv, [Next]_vars
                 PROVE  SetupInv'
    OBVIOUS
  <2>2. TypeInv /\ KeptInv /\ Listed /\ Handled
    BY <2>1 DEF SetupInv
  <2>3. TypeInv' /\ KeptInv' /\ Listed' /\ Handled'
    BY <2>1, <2>2, TypeStep, KeptStep, HandledStep
  <2> QED  BY <2>3 DEF SetupInv
<1>3. ASSUME SetupInv
      PROVE  Settled
  <2>1. SUFFICES ASSUME pc = "idle", exit = "0", ~force
                 PROVE  /\ Scaffolded = Leave
                        /\ \A f \in Range(Clients) : Registered(f) = Leave
                        /\ \A f \in Range(Targets) :
                             (origin.files[f].is = "text" => WellMarked(origin.files[f].text)) => Ruled(f) = Leave
                        /\ \A f \in Range(HookFiles) : Decision(f) = Leave
    BY DEF Settled
  <2>2. Held /\ Sound
    BY <1>3, <2>1, TypeHeld DEF SetupInv, Sound, Listed
  <2>3. /\ There(Toml)
        /\ \A f \in McpFiles : IsClient(f) => Current(f, fs[f])
        /\ \A f \in RuleFiles : IsTarget(f) => Current(f, fs[f])
        /\ \A f \in {Framework, Native} : IsHook(f) => Current(f, fs[f])
    BY <1>3, <2>1, <2>2 DEF SetupInv, Handled, SeenTo
  <2>4. \A s, f : (\E S : s \in Seq(S)) /\ f \in Range(s) => In(f, s)
    BY LenProperties DEF Range, In
  <2>5. \A f \in Range(Clients) : IsClient(f) /\ f \in McpFiles
    BY <2>4, ClientsTyped, ClientsAre DEF IsClient
  <2>6. \A f \in Range(Targets) : IsTarget(f) /\ f \in RuleFiles
    BY <2>4, TargetsTyped, TargetsAre DEF IsTarget
  <2>7. \A f \in Range(HookFiles) : IsHook(f) /\ f \in {Framework, Native}
    <3>1. HookFiles \in Seq({Framework, Native})
      <4>1. <<Framework>> \in Seq({Framework, Native}) /\ <<Native>> \in Seq({Framework, Native})
        OBVIOUS
      <4>2. <<>> \in Seq({Framework, Native})
        BY EmptySeq
      <4> QED  BY <4>1, <4>2 DEF HookFiles
    <3> QED  BY <2>4, <3>1, HooksAre DEF IsHook
  <2>8. Toml \in Files /\ McpFiles \subseteq Files /\ RuleFiles \subseteq Files /\ {Framework, Native} \subseteq Files
    BY DEF Files
  <2>9. Scaffolded = Leave
    BY <2>1, <2>3 DEF Scaffolded
  <2>10. \A f \in Range(Clients) : Registered(f) = Leave
    BY <2>2, <2>3, <2>5, <2>8, CurrentIsLeft, DecisionIs, NamesDiffer
  <2>11. \A f \in Range(Targets) : Fine(f) => Ruled(f) = Leave
    BY <2>2, <2>3, <2>6, <2>8, CurrentIsLeft, DecisionIs, NamesDiffer
  <2>12. \A f \in Range(HookFiles) : Decision(f) = Leave
    BY <2>2, <2>3, <2>7, <2>8, CurrentIsLeft, NamesDiffer
  <2> QED  BY <2>9, <2>10, <2>11, <2>12 DEF Fine
<1> QED  BY <1>1, <1>2, <1>3, PTL DEF Spec
=============================================================================
