--------------------------- MODULE EngineLoopProofs ---------------------------
(***************************************************************************)
(* EngineLoop for all limits and lengths: what the rewritings of           *)
(* Conversation do to the pairing of tool calls and results, that no run   *)
(* ever sends a request with a call left unanswered, and how long a run    *)
(* can be.                                                                 *)
(***************************************************************************)
EXTENDS EngineLoop, SequenceTheorems, FiniteSetTheorems, WellFoundedInduction, TLAPS

\* The messages of a run that has received n replies.
Message(n) == [kind : Kind, reply : 0 .. n, media : Media]

(* Smallest and largest numbers. *)

LEMMA SmallestNat ==
    ASSUME NEW T \in SUBSET Nat, T # {}
    PROVE  \E x \in T : \A y \in T : x <= y
<1>1. PICK x \in T : \A y \in T : <<y, x>> \notin OpToRel(<, Nat)
  BY NatLessThanWellFounded, WFMin, Zenon
<1>2. ASSUME NEW y \in T PROVE x <= y
  <2>1. <<y, x>> \notin OpToRel(<, Nat)
    BY <1>1
  <2>2. ~(y < x)
    BY <2>1 DEF OpToRel
  <2> QED
    BY <2>2
<1> QED
  BY <1>2

LEMMA MinOK ==
    ASSUME NEW T \in SUBSET Nat, T # {}
    PROVE  Min(T) \in T /\ \A y \in T : Min(T) <= y
BY SmallestNat DEF Min

LEMMA MaxOK ==
    ASSUME NEW n \in Nat, NEW T \in SUBSET (0 .. n), T # {}
    PROVE  Max(T) \in T /\ \A y \in T : Max(T) >= y
<1> DEFINE U == {x \in 0 .. n : n - x \in T}
<1>1. U \in SUBSET Nat /\ U # {}
  <2>1. PICK y \in T : TRUE
    OBVIOUS
  <2>2. n - y \in 0 .. n /\ n - (n - y) = y
    OBVIOUS
  <2>3. n - y \in U
    BY <2>2, Zenon
  <2>4. U \subseteq Nat
    OBVIOUS
  <2> QED
    BY <2>3, <2>4, Zenon
<1>2. PICK x \in U : \A y \in U : x <= y
  BY <1>1, SmallestNat
<1>3. n - x \in T
  OBVIOUS
<1>4. ASSUME NEW y \in T PROVE n - x >= y
  <2>1. n - y \in 0 .. n /\ n - (n - y) = y
    OBVIOUS
  <2>2. x <= n - y
    BY <1>2, <2>1
  <2> QED
    BY <2>1, <2>2
<1> QED
  BY <1>3, <1>4 DEF Max

-----------------------------------------------------------------------------
(* Parts and concatenations of sequences, element by element. *)

LEMMA PartOK ==
    ASSUME NEW S, NEW s \in Seq(S), NEW i \in 1 .. Len(s) + 1, NEW j \in i - 1 .. Len(s)
    PROVE  /\ SubSeq(s, i, j) \in Seq(S)
           /\ Len(SubSeq(s, i, j)) = j - i + 1
           /\ \A k \in 1 .. j - i + 1 : SubSeq(s, i, j)[k] = s[i + k - 1]
<1>1. Len(s) \in Nat /\ i \in Int /\ j \in Int
  BY LenProperties
<1>2. \A k \in i .. j : k \in 1 .. Len(s)
  BY <1>1
<1>3. \A k \in i .. j : s[k] \in S
  BY <1>2, ElementOfSeq
<1>4. Len(SubSeq(s, i, j)) = IF i <= j THEN j - i + 1 ELSE 0
  BY <1>1, <1>3, SubSeqProperties
<1>5. Len(SubSeq(s, i, j)) = j - i + 1
  BY <1>1, <1>4
<1> QED
  BY <1>1, <1>3, <1>5, SubSeqProperties

LEMMA ConcatOK ==
    ASSUME NEW S, NEW s \in Seq(S), NEW t \in Seq(S)
    PROVE  /\ s \o t \in Seq(S)
           /\ Len(s \o t) = Len(s) + Len(t)
           /\ \A i \in 1 .. Len(s) : (s \o t)[i] = s[i]
           /\ \A i \in 1 .. Len(t) : (s \o t)[Len(s) + i] = t[i]
<1> DEFINE r == s \o t
<1>1. /\ s \o t \in Seq(S) /\ Len(s \o t) = Len(s) + Len(t)
      /\ \A i \in 1 .. Len(s) + Len(t) : (s \o t)[i] =
            IF i <= Len(s) THEN s[i] ELSE t[i - Len(s)]
  BY ConcatProperties, Zenon
<1>2. /\ r \in Seq(S) /\ Len(r) = Len(s) + Len(t)
      /\ \A i \in 1 .. Len(s) + Len(t) : r[i] = IF i <= Len(s) THEN s[i] ELSE t[i - Len(s)]
  BY <1>1, Zenon
<1> HIDE DEF r
<1>3. Len(s) \in Nat /\ Len(t) \in Nat
  BY LenProperties
<1>4. ASSUME NEW i \in 1 .. Len(s) PROVE r[i] = s[i]
  BY <1>2, <1>3
<1>5. ASSUME NEW i \in 1 .. Len(t) PROVE r[Len(s) + i] = t[i]
  <2>1. Len(s) + i \in 1 .. Len(s) + Len(t) /\ ~(Len(s) + i <= Len(s)) /\ (Len(s) + i) - Len(s) = i
    BY <1>3
  <2> QED
    BY <1>2, <2>1
<1> QED
  BY <1>2, <1>4, <1>5, Zenon DEF r

-----------------------------------------------------------------------------
(* The parts of a compaction. *)

LEMMA StripOK ==
    ASSUME NEW n \in Nat, NEW s \in Seq(Message(n))
    PROVE  /\ Strip(s) \in Seq(Message(n))
           /\ Len(Strip(s)) = Len(s)
           /\ \A i \in 1 .. Len(s) :
                /\ Strip(s)[i].kind = s[i].kind
                /\ Strip(s)[i].reply = s[i].reply
                /\ Strip(s)[i].media = "none" <=> s[i].media = "none"
<1> DEFINE strip(m) == IF m.media = "media" THEN [m EXCEPT !.media = "stripped"] ELSE m
<1>1. ASSUME NEW m \in Message(n)
      PROVE  /\ strip(m) \in Message(n)
             /\ strip(m).kind = m.kind /\ strip(m).reply = m.reply
             /\ strip(m).media = "none" <=> m.media = "none"
  BY DEF Message, Media
<1>2. s \in [1 .. Len(s) -> Message(n)] /\ Len(s) \in Nat /\ DOMAIN s = 1 .. Len(s)
  BY LenProperties
<1>3. Strip(s) = [i \in 1 .. Len(s) |-> strip(s[i])]
  BY <1>2 DEF Strip
<1> HIDE DEF strip
<1>4. \A i \in 1 .. Len(s) : s[i] \in Message(n) /\ strip(s[i]) \in Message(n)
  BY <1>1, <1>2
<1>5. Strip(s) \in [1 .. Len(s) -> Message(n)]
  BY <1>3, <1>4
<1>6. Strip(s) \in Seq(Message(n)) /\ Len(Strip(s)) = Len(s)
  BY <1>2, <1>5
<1> QED
  BY <1>1, <1>3, <1>4, <1>6

LEMMA AfterBoundaryOK ==
    ASSUME NEW n \in Nat, NEW s \in Seq(Message(n)), s # <<>>
    PROVE  \E b \in 1 .. Len(s) :
             /\ AfterBoundary(s) = SubSeq(s, b, Len(s))
             /\ b = 1 \/ s[b].kind = "boundary"
<1> DEFINE I == {i \in 1 .. Len(s) : s[i].kind = "boundary"}
           b == IF I # {} THEN Max(I) ELSE 0
<1>1. AfterBoundary(s) = IF b = 0 THEN s ELSE SubSeq(s, b, Len(s))
  BY DEF AfterBoundary, SelectLastInSeq
<1>2. Len(s) \in Nat /\ Len(s) >= 1
  BY EmptySeq
<1>3. CASE I = {}
  <2>1. AfterBoundary(s) = s
    BY <1>1, <1>3
  <2>2. s = SubSeq(s, 1, Len(s))
    BY SubSeqFull
  <2> QED
    BY <1>2, <2>1, <2>2
<1>4. CASE I # {}
  <2>1. I \in SUBSET (0 .. Len(s))
    OBVIOUS
  <2>2. Max(I) \in I
    BY <1>2, <1>4, <2>1, MaxOK
  <2>3. b = Max(I)
    BY <1>4
  <2>4. b \in 1 .. Len(s) /\ s[b].kind = "boundary" /\ b # 0
    BY <1>2, <2>2, <2>3
  <2> HIDE DEF b
  <2> QED
    BY <1>1, <2>4
<1> QED
  BY <1>3, <1>4

\* What a compaction works on: the messages since the last boundary, stripped
\* of their media.  They are the last messages of the history, with the same
\* kinds and numbers.
Recent(s) == AfterBoundary(Strip(s))

\* t is, but for media, what s ends with from place b on.
EndOf(s, b, t) ==
    /\ b \in 1 .. Len(s)
    /\ Len(t) = Len(s) - b + 1
    /\ \A i \in 1 .. Len(t) :
        /\ t[i].kind = s[b + i - 1].kind
        /\ t[i].reply = s[b + i - 1].reply
        /\ t[i].media = "none" <=> s[b + i - 1].media = "none"

LEMMA RecentOK ==
    ASSUME NEW n \in Nat, NEW s \in Seq(Message(n)), s # <<>>
    PROVE  /\ Recent(s) \in Seq(Message(n))
           /\ \E b \in 1 .. Len(s) :
                EndOf(s, b, Recent(s)) /\ (b = 1 \/ Recent(s)[1].kind = "boundary")
<1> DEFINE t == Strip(s)
<1>1. t \in Seq(Message(n)) /\ t # <<>> /\ Len(t) = Len(s) /\ Len(s) \in Nat /\ Len(s) >= 1
  BY StripOK, EmptySeq
<1>2. PICK b \in 1 .. Len(t) : /\ Recent(s) = SubSeq(t, b, Len(t))
                               /\ b = 1 \/ t[b].kind = "boundary"
  BY <1>1, AfterBoundaryOK DEF Recent
<1>3. \A i \in b .. Len(t) : t[i] \in Message(n)
  BY <1>1, ElementOfSeq
<1>4. /\ Recent(s) \in Seq(Message(n))
      /\ Len(Recent(s)) = Len(s) - b + 1
      /\ \A i \in 1 .. Len(s) - b + 1 : Recent(s)[i] = t[b + i - 1]
  BY <1>1, <1>2, <1>3, SubSeqProperties
<1>5. EndOf(s, b, Recent(s))
  BY <1>1, <1>4, StripOK DEF EndOf
<1>6. Recent(s)[1] = t[b]
  BY <1>1, <1>4
<1> QED
  BY <1>1, <1>2, <1>4, <1>5, <1>6

\* The API's demands look at kinds and numbers only, so that the end of a
\* history meets them if the history does and it does not begin with results.
LEMMA EndPaired ==
    ASSUME NEW n \in Nat, NEW s \in Seq(Message(n)), NEW t \in Seq(Message(n)),
           NEW b, EndOf(s, b, t)
    PROVE  /\ CallsHaveResults(s) => CallsHaveResults(t)
           /\ ResultsHaveCalls(s) /\ (b = 1 \/ t[1].kind # "results") => ResultsHaveCalls(t)
<1>1. /\ Len(s) \in Nat /\ Len(t) \in Nat /\ b \in Nat /\ b >= 1 /\ b <= Len(s)
      /\ DOMAIN s = 1 .. Len(s) /\ DOMAIN t = 1 .. Len(t) /\ Len(t) = Len(s) - b + 1
  BY LenProperties DEF EndOf
<1>2. \A i \in 1 .. Len(t) : t[i].kind = s[b + i - 1].kind /\ t[i].reply = s[b + i - 1].reply
  BY DEF EndOf
<1>3. ASSUME CallsHaveResults(s), NEW i \in 1 .. Len(t), t[i].kind = "calls"
      PROVE  i < Len(t) /\ t[i + 1].kind = "results" /\ t[i + 1].reply = t[i].reply
  <2> DEFINE j == b + i - 1
  <2>1. j \in 1 .. Len(s) /\ s[j].kind = "calls" /\ t[i].reply = s[j].reply
    BY <1>1, <1>2, <1>3
  <2>2. j < Len(s) /\ s[j + 1].kind = "results" /\ s[j + 1].reply = s[j].reply
    BY <1>1, <1>3, <2>1 DEF CallsHaveResults
  <2>3. i + 1 \in 1 .. Len(t) /\ b + (i + 1) - 1 = j + 1
    <3>1. j < Len(s)
      BY <2>2
    <3>2. i \in Nat /\ i >= 1 /\ i < Len(t)
      BY <1>1, <3>1
    <3> QED
      BY <1>1, <3>2
  <2>4. t[i + 1].kind = s[j + 1].kind /\ t[i + 1].reply = s[j + 1].reply
    BY <1>2, <2>3
  <2> QED
    BY <1>1, <2>1, <2>2, <2>3, <2>4
<1>4. ASSUME ResultsHaveCalls(s), b = 1 \/ t[1].kind # "results",
             NEW i \in 1 .. Len(t), t[i].kind = "results"
      PROVE  i > 1 /\ t[i - 1].kind = "calls" /\ t[i - 1].reply = t[i].reply
  <2> DEFINE j == b + i - 1
  <2>1. j \in 1 .. Len(s) /\ s[j].kind = "results" /\ t[i].reply = s[j].reply
    BY <1>1, <1>2, <1>4
  <2>2. j > 1 /\ s[j - 1].kind = "calls" /\ s[j - 1].reply = s[j].reply
    BY <1>1, <1>4, <2>1 DEF ResultsHaveCalls
  <2>3. i > 1
    BY <1>1, <1>4, <2>2
  <2>4. i - 1 \in 1 .. Len(t) /\ b + (i - 1) - 1 = j - 1
    BY <1>1, <2>3
  <2>5. t[i - 1].kind = s[j - 1].kind /\ t[i - 1].reply = s[j - 1].reply
    BY <1>2, <2>4
  <2> QED
    BY <2>1, <2>2, <2>3, <2>5
<1>5. CallsHaveResults(s) => CallsHaveResults(t)
  BY <1>1, <1>3 DEF CallsHaveResults
<1>6. ResultsHaveCalls(s) /\ (b = 1 \/ t[1].kind # "results") => ResultsHaveCalls(t)
  BY <1>1, <1>4 DEF ResultsHaveCalls
<1> QED
  BY <1>5, <1>6

-----------------------------------------------------------------------------
(* The preserved tail and the compacted history. *)

LEMMA PreservedCountOK ==
    ASSUME NEW n \in Nat, NEW c \in Seq(Message(n)), c # <<>>
    PROVE  /\ PreservedCount(c) \in {0, 1, 2} /\ PreservedCount(c) <= Len(c)
           /\ PreservedCount(c) = 0 <=> FromAssistant(Last(c))
           /\ PreservedCount(c) = 2 <=>
                /\ Last(c).kind = "results"
                /\ Len(c) > 1 /\ c[Len(c) - 1].kind = "calls"
<1>1. Len(c) \in Nat /\ Len(c) >= 1
  BY EmptySeq
<1> QED
  BY <1>1 DEF PreservedCount, FromAssistant, Last

Boundary(n) == Msg("boundary", n, "none")
Summary(n) == Msg("summary", n, "none")

\* m is s's last message, but for media.
LastOf(s, m) ==
    /\ m.kind = Last(s).kind
    /\ m.reply = Last(s).reply
    /\ m.media = "none" <=> Last(s).media = "none"

\* The last two messages of s are the calls y and results.
CallsBefore(s, y) ==
    /\ Last(s).kind = "results"
    /\ Len(s) > 1
    /\ y.kind = "calls" /\ y.kind = s[Len(s) - 1].kind /\ y.reply = s[Len(s) - 1].reply

\* What compaction makes of a history: boundary, summary and the user message
\* at its end, with the calls that it answers.
LEMMA CompactedOK ==
    ASSUME NEW n \in Nat, NEW s \in Seq(Message(n)), s # <<>>,
           NEW t, t = Compacted(s, n)
    PROVE  /\ t \in Seq(Message(n)) /\ Len(t) \in {2, 3, 4}
           /\ t[1] = Boundary(n) /\ t[2] = Summary(n)
           /\ Len(t) = 2 <=> FromAssistant(Last(s))
           /\ Len(t) > 2 => LastOf(s, t[Len(t)])
           /\ Len(t) = 3 => ~(Last(s).kind = "results" /\ ResultsHaveCalls(s))
           /\ Len(t) = 4 => CallsBefore(s, t[3])
<1> DEFINE c == Recent(s)
           k == PreservedCount(c)
           tail == SubSeq(c, Len(c) - k + 1, Len(c))
           head == <<Boundary(n), Summary(n)>>
<1>0. Len(s) \in Nat /\ Len(s) >= 1 /\ DOMAIN s = 1 .. Len(s)
  BY EmptySeq, LenProperties
<1>1. PICK b \in 1 .. Len(s) : EndOf(s, b, c) /\ (b = 1 \/ c[1].kind = "boundary")
  BY RecentOK
<1>2. /\ c \in Seq(Message(n)) /\ c # <<>> /\ Len(c) \in Nat /\ Len(c) >= 1
      /\ Len(c) = Len(s) - b + 1
  <2>1. c \in Seq(Message(n)) /\ Len(c) = Len(s) - b + 1
    BY <1>1, RecentOK DEF EndOf
  <2>2. Len(c) >= 1 /\ Len(c) \in Nat
    BY <1>0, <2>1
  <2> QED
    BY <2>1, <2>2, EmptySeq
<1>3. t = head \o tail
  BY DEF Compacted, Boundary, Summary, Recent
<1>4. LastOf(s, Last(c))
  <2>1. Len(c) \in 1 .. Len(c) /\ b + Len(c) - 1 = Len(s)
    BY <1>0, <1>2
  <2> QED
    BY <1>1, <2>1 DEF EndOf, LastOf, Last
<1>5. \A i \in 1 .. Len(c) : c[i] \in Message(n)
  BY <1>2, ElementOfSeq
<1>6. k \in {0, 1, 2} /\ k <= Len(c) /\ (k = 0 <=> FromAssistant(Last(s)))
  BY <1>2, <1>4, PreservedCountOK DEF LastOf, FromAssistant
<1>7. k = 2 <=> /\ Last(s).kind = "results"
                /\ Len(c) > 1 /\ c[Len(c) - 1].kind = "calls"
  BY <1>2, <1>4, PreservedCountOK DEF LastOf
<1>8. /\ head \in Seq(Message(n)) /\ Len(head) = 2
      /\ head[1] = Boundary(n) /\ head[2] = Summary(n)
  <2>1. Boundary(n) \in Message(n) /\ Summary(n) \in Message(n)
    BY DEF Boundary, Summary, Message, Msg, Kind, Media
  <2> QED
    BY <2>1
<1> HIDE DEF c, k, head
<1>9. /\ tail \in Seq(Message(n)) /\ Len(tail) = k
      /\ \A i \in 1 .. k : tail[i] = c[Len(c) - k + i]
  <2>1. Len(c) - k + 1 \in 1 .. Len(c) + 1 /\ Len(c) \in (Len(c) - k + 1) - 1 .. Len(c)
    BY <1>2, <1>6
  <2>2. /\ tail \in Seq(Message(n)) /\ Len(tail) = Len(c) - (Len(c) - k + 1) + 1
        /\ \A i \in 1 .. Len(c) - (Len(c) - k + 1) + 1 : tail[i] = c[(Len(c) - k + 1) + i - 1]
    BY <1>2, <2>1, PartOK
  <2>3. Len(c) - (Len(c) - k + 1) + 1 = k
    BY <1>2, <1>6
  <2>4. ASSUME NEW i \in 1 .. k PROVE tail[i] = c[Len(c) - k + i]
    <3>1. (Len(c) - k + 1) + i - 1 = Len(c) - k + i
      BY <1>2, <1>6
    <3> QED
      BY <2>2, <2>3, <3>1
  <2> QED
    BY <2>2, <2>3, <2>4
<1> HIDE DEF tail
<1>10. /\ t \in Seq(Message(n)) /\ Len(t) = 2 + k
       /\ \A i \in 1 .. 2 : t[i] = head[i]
       /\ \A i \in 1 .. k : t[2 + i] = tail[i]
  <2>1. /\ t \in Seq(Message(n)) /\ Len(t) = Len(head) + Len(tail)
        /\ \A i \in 1 .. Len(head) : t[i] = head[i]
        /\ \A i \in 1 .. Len(tail) : t[Len(head) + i] = tail[i]
    <3>1. head \in Seq(Message(n)) /\ tail \in Seq(Message(n)) /\ t = head \o tail
      BY <1>3, <1>8, <1>9
    <3>2. /\ head \o tail \in Seq(Message(n))
          /\ Len(head \o tail) = Len(head) + Len(tail)
          /\ \A i \in 1 .. Len(head) : (head \o tail)[i] = head[i]
          /\ \A i \in 1 .. Len(tail) : (head \o tail)[Len(head) + i] = tail[i]
      BY ONLY <3>1, ConcatOK
    <3> QED
      BY <3>1, <3>2, Zenon
  <2>2. Len(head) = 2 /\ Len(tail) = k
    BY <1>8, <1>9
  <2> QED
    BY <2>1, <2>2
<1>11. t[1] = Boundary(n) /\ t[2] = Summary(n)
  BY <1>6, <1>8, <1>10
<1>12. ASSUME k > 0 PROVE t[2 + k] = Last(c)
  <2>1. t[2 + k] = tail[k]
    BY <1>6, <1>10, <1>12
  <2>2. tail[k] = c[Len(c) - k + k]
    BY <1>6, <1>9, <1>12
  <2> QED
    BY <1>2, <1>6, <2>1, <2>2 DEF Last
<1>13. ASSUME k = 1, Last(s).kind = "results", ResultsHaveCalls(s) PROVE FALSE
  <2>1. Len(s) > 1 /\ s[Len(s) - 1].kind = "calls"
    <3>1. Len(s) \in DOMAIN s /\ s[Len(s)].kind = "results"
      BY <1>0, <1>13 DEF Last
    <3> QED
      BY <1>13, <3>1, Zenon DEF ResultsHaveCalls
  <2>2. c[1].kind = "results" => Len(c) > 1
    <3>1. ~(Len(c) > 1) => b # 1
      BY <1>0, <1>2, <2>1
    <3> QED
      BY <1>1, <3>1
  <2>3. Last(c).kind = "results"
    BY <1>4, <1>13 DEF LastOf
  <2>4. Len(c) > 1
    BY <1>2, <2>2, <2>3 DEF Last
  <2>5. Len(c) - 1 \in 1 .. Len(c) /\ b + (Len(c) - 1) - 1 = Len(s) - 1
    BY <1>0, <1>2, <2>4
  <2>6. c[Len(c) - 1].kind = "calls"
    BY <1>1, <2>1, <2>5 DEF EndOf
  <2> QED
    BY <1>7, <1>13, <2>4, <2>6
<1>14. ASSUME k = 2 PROVE CallsBefore(s, t[3])
  <2>1. t[3] = c[Len(c) - 2 + 1]
    BY <1>9, <1>10, <1>14
  <2>2. Len(c) - 2 + 1 = Len(c) - 1 /\ Len(c) - 1 \in 1 .. Len(c)
    BY <1>2, <1>7, <1>14
  <2>3. b + (Len(c) - 1) - 1 = Len(s) - 1 /\ Len(s) > 1
    BY <1>0, <1>1, <1>2, <2>2
  <2> QED
    BY <1>1, <1>7, <1>14, <2>1, <2>2, <2>3 DEF EndOf, CallsBefore
<1>15. Len(t) > 2 => LastOf(s, t[Len(t)])
  BY <1>4, <1>6, <1>10, <1>12
<1> QED
  BY <1>6, <1>10, <1>11, <1>13, <1>14, <1>15

\* t is what a compaction may make of s, but for the numbers of the summary and
\* for media: boundary, summary, the user message that s ends with, and before
\* it the calls if it answers any.
CompactOf(s, t) ==
    /\ Len(t) \in {2, 3, 4}
    /\ t[1].kind = "boundary" /\ t[2].kind = "summary"
    /\ Len(t) = 2 <=> FromAssistant(Last(s))
    /\ Len(t) > 2 => t[Len(t)].kind = Last(s).kind /\ t[Len(t)].reply = Last(s).reply
    /\ Len(t) = 3 => ~(Last(s).kind = "results" /\ ResultsHaveCalls(s))
    /\ Len(t) = 4 => CallsBefore(s, t[3])

\* Compaction keeps what the API demands.
LEMMA CompactPaired ==
    ASSUME NEW n \in Nat, NEW s \in Seq(Message(n)), NEW t \in Seq(Message(n)), s # <<>>,
           CompactOf(s, t)
    PROVE  /\ t # <<>> /\ ~FromAssistant(t[Len(t)])
           /\ CallsHaveResults(s) => CallsHaveResults(t)
           /\ Paired(s) => Paired(t)
<1>1. /\ Len(s) \in Nat /\ Len(s) >= 1 /\ DOMAIN s = 1 .. Len(s)
      /\ Len(t) \in {2, 3, 4} /\ DOMAIN t = 1 .. Len(t)
      /\ t[1].kind = "boundary" /\ t[2].kind = "summary"
  BY EmptySeq, LenProperties DEF CompactOf
<1>2. t # <<>>
  BY <1>1, EmptySeq
<1>3. ~FromAssistant(t[Len(t)])
  BY <1>1 DEF CompactOf, FromAssistant
<1>4. CASE Len(t) \in {2, 3}
  <2>1. \A i \in 1 .. Len(t) : t[i].kind # "calls"
    <3>1. t[Len(t)].kind # "calls"
      BY <1>3, Zenon DEF FromAssistant
    <3>2. \A i \in 1 .. Len(t) : i = 1 \/ i = 2 \/ i = Len(t)
      <4>1. (\A i \in 1 .. 2 : i = 1 \/ i = 2) /\ (\A i \in 1 .. 3 : i = 1 \/ i = 2 \/ i = 3)
        OBVIOUS
      <4>2. Len(t) = 2 \/ Len(t) = 3
        BY <1>4
      <4> QED
        BY <4>1, <4>2, Zenon
    <3>3. t[1].kind # "calls" /\ t[2].kind # "calls"
      BY <1>1
    <3> QED
      BY <3>1, <3>2, <3>3, Zenon
  <2>2. CallsHaveResults(t) /\ CallsOnce(t)
    BY <1>1, <2>1 DEF CallsHaveResults, CallsOnce
  <2>3. ASSUME ResultsHaveCalls(s), NEW i \in 1 .. Len(t) PROVE t[i].kind # "results"
    BY <1>1, <1>4, <2>3 DEF CompactOf
  <2>4. ResultsHaveCalls(s) => ResultsHaveCalls(t)
    BY <1>1, <2>3 DEF ResultsHaveCalls
  <2> QED
    BY <1>2, <1>3, <2>2, <2>4 DEF Paired
<1>5. CASE Len(t) = 4
  <2>1. /\ t[3].kind = "calls" /\ t[4].kind = "results" /\ t[4].reply = s[Len(s)].reply
        /\ s[Len(s)].kind = "results" /\ Len(s) > 1
        /\ s[Len(s) - 1].kind = "calls" /\ t[3].reply = s[Len(s) - 1].reply
    BY <1>5 DEF CompactOf, CallsBefore, Last
  <2>2. Len(s) - 1 \in 1 .. Len(s) /\ Len(s) - 1 + 1 = Len(s) /\ Len(s) \in 1 .. Len(s)
    BY <1>1, <2>1
  <2>3. ASSUME CallsHaveResults(s) \/ ResultsHaveCalls(s) PROVE t[3].reply = t[4].reply
    BY <1>1, <2>1, <2>2, <2>3 DEF CallsHaveResults, ResultsHaveCalls
  <2>4. \A i \in 1 .. Len(t) : (t[i].kind = "calls" <=> i = 3) /\ (t[i].kind = "results" <=> i = 4)
    BY <1>1, <1>5, <2>1
  <2>5. CallsHaveResults(s) => CallsHaveResults(t)
    BY <1>1, <1>5, <2>1, <2>3, <2>4 DEF CallsHaveResults
  <2>6. ResultsHaveCalls(s) => ResultsHaveCalls(t)
    BY <1>1, <1>5, <2>1, <2>3, <2>4 DEF ResultsHaveCalls
  <2>7. CallsOnce(t)
    BY <1>1, <2>4 DEF CallsOnce
  <2> QED
    BY <1>2, <1>3, <2>5, <2>6, <2>7 DEF Paired
<1> QED
  BY <1>1, <1>4, <1>5

LEMMA CompactedIsCompact ==
    ASSUME NEW n \in Nat, NEW s \in Seq(Message(n)), s # <<>>
    PROVE  Compacted(s, n) \in Seq(Message(n)) /\ CompactOf(s, Compacted(s, n))
<1> DEFINE t == Compacted(s, n)
<1>1. /\ t \in Seq(Message(n)) /\ Len(t) \in {2, 3, 4}
      /\ t[1] = Boundary(n) /\ t[2] = Summary(n)
      /\ Len(t) = 2 <=> FromAssistant(Last(s))
      /\ Len(t) > 2 => LastOf(s, t[Len(t)])
      /\ Len(t) = 3 => ~(Last(s).kind = "results" /\ ResultsHaveCalls(s))
      /\ Len(t) = 4 => CallsBefore(s, t[3])
  BY CompactedOK, Zenon
<1> HIDE DEF t
<1>2. t[1].kind = "boundary" /\ t[2].kind = "summary"
  BY <1>1 DEF Boundary, Summary, Msg
<1>3. Len(t) > 2 => t[Len(t)].kind = Last(s).kind /\ t[Len(t)].reply = Last(s).reply
  BY <1>1 DEF LastOf
<1>4. CompactOf(s, t)
  BY <1>1, <1>2, <1>3 DEF CompactOf
<1> QED
  BY <1>1, <1>4 DEF t

\* An emergency compaction outside a continuation is a compaction whose last
\* message may have been restored.
LEMMA RecoveredTurn ==
    ASSUME NEW n \in Nat, NEW s \in Seq(Message(n)), s # <<>>
    PROVE  Recovered(s, FALSE, n) \in Seq(Message(n)) /\ CompactOf(s, Recovered(s, FALSE, n))
<1> DEFINE c == Compacted(s, n)
           last == Last(s)
           r == Append(Front(c), last)
<1>1. c \in Seq(Message(n)) /\ CompactOf(s, c)
  BY CompactedIsCompact
<1>2. /\ Len(c) \in {2, 3, 4} /\ (Len(c) > 2 => LastOf(s, c[Len(c)]))
      /\ Len(c) = 2 <=> FromAssistant(Last(s))
  BY CompactedOK, Zenon
<1>3. last \in Message(n) /\ Len(s) \in Nat /\ Len(s) >= 1
  <2>1. Len(s) \in Nat /\ Len(s) >= 1
    BY EmptySeq
  <2> QED
    BY <2>1, ElementOfSeq DEF Last
<1> HIDE DEF c, last
<1>4. CASE ~(UserTurn(last) /\ ~Contains(c, last))
  BY <1>1, <1>4 DEF Recovered, c, last
<1>5. CASE UserTurn(last) /\ ~Contains(c, last)
  <2>0. ~FromAssistant(Last(s))
    BY <1>5 DEF UserTurn, last
  <2>1. Len(c) > 2
    <3>1. Len(c) # 2
      BY <1>2, <2>0, Zenon
    <3> QED
      BY <1>2, <3>1
  <2>2. UserTurn(Last(c))
    <3>1. LastOf(s, Last(c))
      BY <1>2, <2>1 DEF Last
    <3> QED
      BY <1>5, <3>1 DEF UserTurn, ToolResultOnly, FromAssistant, LastOf, last
  <2>3. Recovered(s, FALSE, n) = r
    BY <1>5, <2>2 DEF Recovered, c, last
  <2>4. /\ Front(c) \in Seq(Message(n)) /\ Len(Front(c)) = Len(c) - 1
        /\ \A i \in 1 .. Len(c) - 1 : Front(c)[i] = c[i]
    <3>1. 1 \in 1 .. Len(c) + 1 /\ Len(c) - 1 \in 1 - 1 .. Len(c) /\ (Len(c) - 1) - 1 + 1 = Len(c) - 1
      BY <1>2
    <3>2. /\ SubSeq(c, 1, Len(c) - 1) \in Seq(Message(n))
          /\ Len(SubSeq(c, 1, Len(c) - 1)) = (Len(c) - 1) - 1 + 1
          /\ \A i \in 1 .. (Len(c) - 1) - 1 + 1 : SubSeq(c, 1, Len(c) - 1)[i] = c[1 + i - 1]
      BY <1>1, <3>1, PartOK
    <3>3. \A i \in 1 .. Len(c) - 1 : 1 + i - 1 = i
      BY <1>2
    <3> QED
      BY <3>1, <3>2, <3>3 DEF Front
  <2> HIDE DEF r
  <2>5. /\ r \in Seq(Message(n)) /\ Len(r) = Len(c) /\ r[Len(c)] = last
        /\ \A i \in 1 .. Len(c) - 1 : r[i] = c[i]
    <3>1. /\ r \in Seq(Message(n)) /\ Len(r) = Len(Front(c)) + 1
          /\ r[Len(Front(c)) + 1] = last
          /\ \A i \in 1 .. Len(Front(c)) : r[i] = Front(c)[i]
      BY <1>3, <2>4, AppendProperties DEF r
    <3> QED
      BY <1>2, <2>4, <3>1
  <2>6. CompactOf(s, r)
    <3>1. r[1].kind = "boundary" /\ r[2].kind = "summary"
      BY <1>1, <1>2, <2>1, <2>5 DEF CompactOf
    <3>2. Len(r) = 2 <=> FromAssistant(Last(s))
      BY <1>2, <2>5, Zenon
    <3>3. Len(r) > 2 => r[Len(r)].kind = Last(s).kind /\ r[Len(r)].reply = Last(s).reply
      BY <2>5 DEF last
    <3>4. Len(r) = 3 => ~(Last(s).kind = "results" /\ ResultsHaveCalls(s))
      BY <1>1, <2>5, Zenon DEF CompactOf
    <3>5. ASSUME Len(r) = 4 PROVE CallsBefore(s, r[3])
      <4>1. Len(c) = 4 /\ r[3] = c[3]
        BY <2>5, <3>5
      <4> QED
        BY <1>1, <4>1, Zenon DEF CompactOf
    <3> QED
      BY <1>2, <2>5, <3>1, <3>2, <3>3, <3>4, <3>5, Zenon DEF CompactOf
  <2> QED
    BY <2>3, <2>5, <2>6
<1> QED
  BY <1>4, <1>5

-----------------------------------------------------------------------------
(* Histories put together. *)

LEMMA ConcatCalls ==
    ASSUME NEW n \in Nat, NEW s \in Seq(Message(n)), NEW t \in Seq(Message(n)),
           CallsHaveResults(s), CallsHaveResults(t)
    PROVE  CallsHaveResults(s \o t)
<1> DEFINE r == s \o t
<1>1. /\ Len(r) = Len(s) + Len(t)
      /\ \A i \in 1 .. Len(s) : r[i] = s[i]
      /\ \A i \in 1 .. Len(t) : r[Len(s) + i] = t[i]
      /\ r \in Seq(Message(n))
  BY ConcatOK
<1>2. /\ Len(s) \in Nat /\ Len(t) \in Nat /\ DOMAIN s = 1 .. Len(s) /\ DOMAIN t = 1 .. Len(t)
      /\ DOMAIN r = 1 .. Len(r)
  BY <1>1, LenProperties
<1> HIDE DEF r
<1>3. ASSUME NEW i \in 1 .. Len(r), r[i].kind = "calls"
      PROVE  i < Len(r) /\ r[i + 1].kind = "results" /\ r[i + 1].reply = r[i].reply
  <2>1. CASE i <= Len(s)
    <3>1. i \in 1 .. Len(s) /\ s[i] = r[i]
      BY <1>1, <1>2, <2>1
    <3>2. i < Len(s) /\ s[i + 1].kind = "results" /\ s[i + 1].reply = s[i].reply
      BY <1>2, <1>3, <3>1 DEF CallsHaveResults
    <3>3. i + 1 \in 1 .. Len(s)
      BY <1>2, <3>1, <3>2
    <3> QED
      BY <1>1, <1>2, <3>1, <3>2, <3>3
  <2>2. CASE ~(i <= Len(s))
    <3> DEFINE j == i - Len(s)
    <3>1. j \in 1 .. Len(t) /\ Len(s) + j = i
      BY <1>1, <1>2, <2>2
    <3>2. t[j] = r[i]
      BY <1>1, <3>1
    <3> HIDE DEF j
    <3>3. j < Len(t) /\ t[j + 1].kind = "results" /\ t[j + 1].reply = t[j].reply
      BY <1>2, <1>3, <3>1, <3>2 DEF CallsHaveResults
    <3>4. j + 1 \in 1 .. Len(t) /\ Len(s) + (j + 1) = i + 1 /\ i < Len(r)
      <4>1. j \in Nat /\ j >= 1 /\ j < Len(t)
        BY <1>2, <3>1, <3>3
      <4>2. Len(r) = Len(s) + Len(t)
        BY <1>1
      <4> QED
        BY <1>2, <3>1, <4>1, <4>2
    <3>5. r[i + 1] = t[j + 1]
      BY <1>1, <3>4
    <3> QED
      BY <3>2, <3>3, <3>4, <3>5
  <2> QED
    BY <2>1, <2>2
<1>4. CallsHaveResults(r)
  BY <1>2, <1>3 DEF CallsHaveResults
<1> QED
  BY <1>4 DEF r

LEMMA ConcatResults ==
    ASSUME NEW n \in Nat, NEW s \in Seq(Message(n)), NEW t \in Seq(Message(n)),
           ResultsHaveCalls(s), ResultsHaveCalls(t)
    PROVE  ResultsHaveCalls(s \o t)
<1> DEFINE r == s \o t
<1>1. /\ Len(r) = Len(s) + Len(t)
      /\ \A i \in 1 .. Len(s) : r[i] = s[i]
      /\ \A i \in 1 .. Len(t) : r[Len(s) + i] = t[i]
      /\ r \in Seq(Message(n))
  BY ConcatOK
<1>2. /\ Len(s) \in Nat /\ Len(t) \in Nat /\ DOMAIN s = 1 .. Len(s) /\ DOMAIN t = 1 .. Len(t)
      /\ DOMAIN r = 1 .. Len(r)
  BY <1>1, LenProperties
<1> HIDE DEF r
<1>3. ASSUME NEW i \in 1 .. Len(r), r[i].kind = "results"
      PROVE  i > 1 /\ r[i - 1].kind = "calls" /\ r[i - 1].reply = r[i].reply
  <2>1. CASE i <= Len(s)
    <3>1. i \in 1 .. Len(s) /\ s[i] = r[i]
      BY <1>1, <1>2, <2>1
    <3>2. i > 1 /\ s[i - 1].kind = "calls" /\ s[i - 1].reply = s[i].reply
      BY <1>2, <1>3, <3>1 DEF ResultsHaveCalls
    <3>3. i - 1 \in 1 .. Len(s)
      BY <1>2, <3>1, <3>2
    <3> QED
      BY <1>1, <1>2, <3>1, <3>2, <3>3
  <2>2. CASE ~(i <= Len(s))
    <3> DEFINE j == i - Len(s)
    <3>1. j \in 1 .. Len(t) /\ Len(s) + j = i
      BY <1>1, <1>2, <2>2
    <3>2. t[j] = r[i]
      BY <1>1, <3>1
    <3> HIDE DEF j
    <3>3. j > 1 /\ t[j - 1].kind = "calls" /\ t[j - 1].reply = t[j].reply
      BY <1>2, <1>3, <3>1, <3>2 DEF ResultsHaveCalls
    <3>4. j - 1 \in 1 .. Len(t) /\ Len(s) + (j - 1) = i - 1 /\ i > 1
      BY <1>1, <1>2, <3>1, <3>3
    <3>5. r[i - 1] = t[j - 1]
      BY <1>1, <3>4
    <3> QED
      BY <3>2, <3>3, <3>4, <3>5
  <2> QED
    BY <2>1, <2>2
<1>4. ResultsHaveCalls(r)
  BY <1>2, <1>3 DEF ResultsHaveCalls
<1> QED
  BY <1>4 DEF r

\* What a reply adds to a history of n replies.
Addition(n, h) ==
    /\ h \in Seq(Message(n + 1))
    /\ \A i \in 1 .. Len(h) : h[i].kind = "calls" => h[i].reply = n + 1
    /\ Paired(h)

LEMMA MoreReplies ==
    ASSUME NEW n \in Nat, NEW s \in Seq(Message(n))
    PROVE  s \in Seq(Message(n + 1))
<1>1. 0 .. n \subseteq 0 .. n + 1
  OBVIOUS
<1>2. Message(n) \subseteq Message(n + 1)
  BY <1>1 DEF Message
<1> QED
  BY <1>2, SeqMonotonic

\* A new reply leaves calls and results paired: its calls have a new number.
LEMMA AdditionPaired ==
    ASSUME NEW n \in Nat, NEW s \in Seq(Message(n)), NEW h, Addition(n, h)
    PROVE  /\ s \o h \in Seq(Message(n + 1))
           /\ CallsHaveResults(s) => CallsHaveResults(s \o h)
           /\ Paired(s) => Paired(s \o h)
<1> DEFINE r == s \o h
<1>0. n + 1 \in Nat /\ s \in Seq(Message(n + 1)) /\ h \in Seq(Message(n + 1))
  BY MoreReplies DEF Addition
<1>1. /\ Len(r) = Len(s) + Len(h)
      /\ \A i \in 1 .. Len(s) : r[i] = s[i]
      /\ \A i \in 1 .. Len(h) : r[Len(s) + i] = h[i]
      /\ r \in Seq(Message(n + 1))
  BY <1>0, ConcatOK
<1>2. /\ Len(s) \in Nat /\ Len(h) \in Nat /\ DOMAIN s = 1 .. Len(s) /\ DOMAIN h = 1 .. Len(h)
      /\ DOMAIN r = 1 .. Len(r)
  BY <1>0, <1>1, LenProperties
<1>3. CallsHaveResults(s) => CallsHaveResults(r)
  BY <1>0, ConcatCalls DEF Addition, Paired
<1>4. ResultsHaveCalls(s) => ResultsHaveCalls(r)
  BY <1>0, ConcatResults DEF Addition, Paired
<1> HIDE DEF r
<1>5. ASSUME CallsOnce(s) PROVE CallsOnce(r)
  <2>1. ASSUME NEW i \in 1 .. Len(s) PROVE r[i].reply # n + 1
    <3>1. s[i] \in Message(n)
      BY ElementOfSeq
    <3> QED
      BY <1>1, <3>1 DEF Message
  <2>2. ASSUME NEW i \in 1 .. Len(r), NEW j \in 1 .. Len(r), r[i].kind = "calls", r[j] = r[i]
        PROVE  i = j
    <3>1. CASE i <= Len(s) /\ j <= Len(s)
      <4>1. i \in 1 .. Len(s) /\ j \in 1 .. Len(s)
        BY <1>2, <3>1
      <4> QED
        BY <1>1, <1>2, <1>5, <2>2, <4>1 DEF CallsOnce
    <3>2. CASE ~(i <= Len(s)) /\ ~(j <= Len(s))
      <4> DEFINE k == i - Len(s)
                 l == j - Len(s)
      <4>1. /\ k \in 1 .. Len(h) /\ Len(s) + k = i
            /\ l \in 1 .. Len(h) /\ Len(s) + l = j
        BY <1>1, <1>2, <3>2
      <4>2. h[k] = r[i] /\ h[l] = r[j]
        BY <1>1, <4>1
      <4> HIDE DEF k, l
      <4>3. k = l
        BY <1>2, <2>2, <4>1, <4>2 DEF Addition, Paired, CallsOnce
      <4> QED
        BY <4>1, <4>3
    <3>3. CASE i <= Len(s) /\ ~(j <= Len(s))
      <4>1. i \in 1 .. Len(s) /\ j - Len(s) \in 1 .. Len(h) /\ Len(s) + (j - Len(s)) = j
        BY <1>1, <1>2, <3>3
      <4>2. r[j].reply = n + 1
        BY <1>1, <2>2, <4>1 DEF Addition
      <4> QED
        BY <2>1, <2>2, <4>1, <4>2
    <3>4. CASE ~(i <= Len(s)) /\ j <= Len(s)
      <4>1. j \in 1 .. Len(s) /\ i - Len(s) \in 1 .. Len(h) /\ Len(s) + (i - Len(s)) = i
        BY <1>1, <1>2, <3>4
      <4>2. r[i].reply = n + 1
        BY <1>1, <2>2, <4>1 DEF Addition
      <4> QED
        BY <2>1, <2>2, <4>1, <4>2
    <3> QED
      BY <3>1, <3>2, <3>3, <3>4
  <2> QED
    BY <1>2, <2>2 DEF CallsOnce
<1> QED
  BY <1>1, <1>3, <1>4, <1>5 DEF Paired, r

\* An emergency compaction while a continuation is pending: the turn since the
\* user's last own message follows, and the history ends as it did.
LEMMA RecoveredContinuation ==
    ASSUME NEW n \in Nat, NEW s \in Seq(Message(n)), s # <<>>,
           s[1].kind \in {"prompt", "boundary"},
           NEW r, r = Recovered(s, TRUE, n)
    PROVE  /\ r \in Seq(Message(n)) /\ r # <<>> /\ r[1].kind = "boundary"
           /\ r[Len(r)] = s[Len(s)]
           /\ CallsHaveResults(s) => CallsHaveResults(r)
<1> DEFINE c == Compacted(s, n)
           I == {i \in 1 .. Len(s) : UserTurn(s[i])}
           u == LastUserTurn(s)
           tail == RecoveryTail(s)
           overlaps == {k \in 0 .. Min({Len(c), Len(tail)}) :
                            SubSeq(c, Len(c) - k + 1, Len(c)) = SubSeq(tail, 1, k)}
           m == Max(overlaps)
           e == SubSeq(tail, m + 1, Len(tail))
<1>1. /\ Len(s) \in Nat /\ Len(s) >= 1 /\ DOMAIN s = 1 .. Len(s)
      /\ c \in Seq(Message(n)) /\ CompactOf(s, c)
      /\ Len(c) \in Nat /\ Len(c) >= 1 /\ c[1].kind = "boundary"
  <2>1. c \in Seq(Message(n)) /\ CompactOf(s, c)
    BY CompactedIsCompact
  <2>2. Len(c) \in {2, 3, 4} /\ c[1].kind = "boundary"
    BY <2>1, Zenon DEF CompactOf
  <2>3. Len(c) \in Nat /\ Len(c) >= 1
    BY <2>2
  <2> QED
    BY <2>1, <2>2, <2>3, EmptySeq, LenProperties
<1>2. u \in 1 .. Len(s) /\ tail = SubSeq(s, u, Len(s))
  <2>1. 1 \in I
    BY <1>1 DEF UserTurn, FromAssistant, ToolResultOnly
  <2>2. I \in SUBSET (0 .. Len(s)) /\ I # {}
    BY <2>1
  <2>3. Max(I) \in I
    BY <1>1, <2>2, MaxOK
  <2>4. u = IF I # {} THEN Max(I) ELSE 0
    BY DEF LastUserTurn, SelectLastInSeq
  <2>5. u \in 1 .. Len(s) /\ u # 0
    BY <2>2, <2>3, <2>4
  <2> QED
    BY <2>5 DEF RecoveryTail
<1> HIDE DEF c, u, tail
<1>3. /\ tail \in Seq(Message(n)) /\ Len(tail) = Len(s) - u + 1 /\ Len(tail) \in Nat
      /\ Len(tail) >= 1
      /\ \A i \in 1 .. Len(tail) : tail[i] = s[u + i - 1]
  <2>1. u \in 1 .. Len(s) + 1 /\ Len(s) \in u - 1 .. Len(s)
    BY <1>1, <1>2
  <2>2. /\ tail \in Seq(Message(n)) /\ Len(tail) = Len(s) - u + 1
        /\ \A i \in 1 .. Len(s) - u + 1 : tail[i] = s[u + i - 1]
    BY <1>2, <2>1, PartOK
  <2> QED
    BY <1>1, <1>2, <2>2
<1>4. /\ m \in 0 .. Len(tail) /\ m <= Len(c)
      /\ SubSeq(c, Len(c) - m + 1, Len(c)) = SubSeq(tail, 1, m)
  <2> DEFINE small == Min({Len(c), Len(tail)})
  <2>1. {Len(c), Len(tail)} \in SUBSET Nat /\ {Len(c), Len(tail)} # {}
    BY <1>1, <1>3
  <2>2. small \in Nat /\ small <= Len(c) /\ small <= Len(tail)
    BY <2>1, MinOK
  <2> HIDE DEF small
  <2>3. SubSeq(c, Len(c) - 0 + 1, Len(c)) = SubSeq(tail, 1, 0)
    BY <1>1, SubSeqEmpty
  <2>4. 0 \in overlaps
    BY <2>2, <2>3 DEF small
  <2>5. overlaps \in SUBSET (0 .. small) /\ overlaps # {}
    BY <2>4 DEF small
  <2>6. m \in overlaps
    BY <2>2, <2>5, MaxOK
  <2>7. m \in 0 .. small
    BY <2>5, <2>6
  <2>8. \A k \in overlaps : SubSeq(c, Len(c) - k + 1, Len(c)) = SubSeq(tail, 1, k)
    OBVIOUS
  <2> HIDE DEF m, overlaps
  <2>9. m \in 0 .. Len(tail) /\ m <= Len(c)
    BY <1>1, <1>3, <2>2, <2>7
  <2> QED
    BY <2>6, <2>8, <2>9
<1>5. r = c \o e
  BY DEF Recovered, AppendMissingTail, c, tail
<1> HIDE DEF m, e, overlaps
<1>6. /\ e \in Seq(Message(n)) /\ Len(e) = Len(tail) - m /\ Len(e) \in Nat
      /\ \A i \in 1 .. Len(e) : e[i] = tail[m + i]
  <2>1. m + 1 \in 1 .. Len(tail) + 1 /\ Len(tail) \in (m + 1) - 1 .. Len(tail)
    BY <1>3, <1>4
  <2>2. /\ e \in Seq(Message(n)) /\ Len(e) = Len(tail) - (m + 1) + 1
        /\ \A i \in 1 .. Len(tail) - (m + 1) + 1 : e[i] = tail[(m + 1) + i - 1]
    BY <1>3, <2>1, PartOK DEF e
  <2>3. Len(tail) - (m + 1) + 1 = Len(tail) - m /\ Len(tail) - m \in Nat
    BY <1>3, <1>4
  <2>4. \A i \in 1 .. Len(tail) - m : (m + 1) + i - 1 = m + i
    BY <1>3, <1>4
  <2> QED
    BY <2>2, <2>3, <2>4
<1>7. /\ c \o e \in Seq(Message(n)) /\ Len(c \o e) = Len(c) + Len(e)
      /\ \A i \in 1 .. Len(c) : (c \o e)[i] = c[i]
      /\ \A i \in 1 .. Len(e) : (c \o e)[Len(c) + i] = e[i]
  <2>1. c \in Seq(Message(n)) /\ e \in Seq(Message(n))
    BY <1>1, <1>6
  <2> QED
    BY ONLY <2>1, ConcatOK
<1>8. /\ r \in Seq(Message(n)) /\ Len(r) = Len(c) + Len(e)
      /\ \A i \in 1 .. Len(c) : r[i] = c[i]
      /\ \A i \in 1 .. Len(e) : r[Len(c) + i] = e[i]
  BY <1>5, <1>7, Zenon
<1>9. r # <<>> /\ r[1].kind = "boundary"
  <2>1. Len(c) \in Nat /\ Len(c) >= 1 /\ Len(e) \in Nat
    BY <1>1, <1>6
  <2>2. Len(c) + Len(e) # 0 /\ 1 \in 1 .. Len(c)
    BY <2>1
  <2>3. Len(r) # 0
    BY <1>8, <2>2, Zenon
  <2>4. r # <<>>
    BY <2>3
  <2>5. r[1] = c[1]
    BY <1>8, <2>2, Zenon
  <2> QED
    BY <1>1, <2>4, <2>5
<1>10. r[Len(r)] = s[Len(s)]
  <2>1. tail[Len(tail)] = s[Len(s)]
    <3>1. Len(tail) \in 1 .. Len(tail) /\ u + Len(tail) - 1 = Len(s)
      BY <1>1, <1>2, <1>3
    <3> QED
      BY <1>3, <3>1
  <2>2. CASE m = Len(tail)
    <3>0. Len(e) = 0 /\ Len(c) \in 1 .. Len(c) /\ Len(c) + 0 = Len(c)
      BY <1>1, <1>3, <1>6, <2>2
    <3>1. Len(r) = Len(c) /\ Len(c) \in 1 .. Len(c)
      BY <1>8, <3>0, Zenon
    <3>2. r[Len(r)] = c[Len(c)]
      BY <1>8, <3>1, Zenon
    <3>3. m \in 1 .. m /\ m \in Nat
      BY <1>3, <2>2
    <3>4. SubSeq(c, Len(c) - m + 1, Len(c))[m] = c[Len(c)]
      <4>1. Len(c) - m + 1 \in 1 .. Len(c) + 1 /\ Len(c) \in (Len(c) - m + 1) - 1 .. Len(c)
        BY <1>1, <1>4, <3>3
      <4>2. \A i \in 1 .. Len(c) - (Len(c) - m + 1) + 1 :
                SubSeq(c, Len(c) - m + 1, Len(c))[i] = c[(Len(c) - m + 1) + i - 1]
        BY <1>1, <4>1, PartOK
      <4>3. m \in 1 .. Len(c) - (Len(c) - m + 1) + 1 /\ (Len(c) - m + 1) + m - 1 = Len(c)
        BY <1>1, <1>4, <3>3
      <4> QED
        BY <4>2, <4>3
    <3>5. SubSeq(tail, 1, m)[m] = tail[m]
      <4>1. 1 \in 1 .. Len(tail) + 1 /\ m \in 1 - 1 .. Len(tail)
        BY <1>3, <1>4
      <4>2. \A i \in 1 .. m - 1 + 1 : SubSeq(tail, 1, m)[i] = tail[1 + i - 1]
        BY <1>3, <4>1, PartOK
      <4>3. m \in 1 .. m - 1 + 1 /\ 1 + m - 1 = m
        BY <3>3
      <4> QED
        BY <4>2, <4>3
    <3> QED
      BY <1>4, <2>1, <2>2, <3>2, <3>4, <3>5
  <2>3. CASE m # Len(tail)
    <3>1. Len(e) \in 1 .. Len(e) /\ m + Len(e) = Len(tail)
      BY <1>3, <1>4, <1>6, <2>3
    <3>2. r[Len(r)] = e[Len(e)] /\ e[Len(e)] = tail[m + Len(e)]
      BY <1>6, <1>8, <3>1
    <3> QED
      BY <2>1, <3>1, <3>2
  <2> QED
    BY <2>2, <2>3
<1>11. ASSUME CallsHaveResults(s) PROVE CallsHaveResults(r)
  <2>1. CallsHaveResults(c)
    BY <1>1, <1>11, CompactPaired
  <2>2. CallsHaveResults(e)
    <3>1. CASE m = Len(tail)
      <4>1. Len(e) = 0
        BY <1>3, <1>6, <3>1
      <4>2. e = <<>>
        BY <1>6, <4>1, EmptySeq
      <4> QED
        BY <4>2 DEF CallsHaveResults
    <3>2. CASE m # Len(tail)
      <4> DEFINE b == u + m
      <4>1. b \in 1 .. Len(s) /\ Len(e) = Len(s) - b + 1
        BY <1>1, <1>2, <1>3, <1>4, <1>6, <3>2
      <4>2. ASSUME NEW i \in 1 .. Len(e) PROVE e[i] = s[b + i - 1]
        <5>1. m + i \in 1 .. Len(tail) /\ u + (m + i) - 1 = b + i - 1
          BY <1>1, <1>2, <1>3, <1>4, <1>6
        <5> QED
          BY <1>3, <1>6, <5>1
      <4> HIDE DEF b
      <4>3. EndOf(s, b, e)
        BY <4>1, <4>2 DEF EndOf
      <4> QED
        BY <1>6, <1>11, <4>3, EndPaired
    <3> QED
      BY <3>1, <3>2
  <2>3. CallsHaveResults(c \o e)
    BY <1>1, <1>6, <2>1, <2>2, ConcatCalls
  <2> QED
    BY <1>5, <2>3, Zenon
<1> QED
  BY <1>8, <1>9, <1>10, <1>11

-----------------------------------------------------------------------------
(* The run. *)

\* The history begins with a message of the user, or with a boundary.
BeginsWithUser == history # <<>> /\ history[1].kind \in {"prompt", "boundary"}

\* In a run that goes on, calls have their results, and a history that does not
\* end with the user's message is about to be continued, or a stop hook blocked.
Answerable ==
    pc \in {"top", "sent"} =>
        /\ CallsHaveResults(history)
        /\ transient = "none" /\ blocked = 0 => ~FromAssistant(Last(history))

\* TypeOK without the history.
Counters ==
    /\ pc \in {"top", "sent", "done", "failed"}
    /\ transient \in {"none", "resume", "nudge"}
    /\ replies \in Nat
    /\ toolLoops \in 0 .. MaxToolIterations
    /\ continuations \in 0 .. MaxContinuations
    /\ recovered \in BOOLEAN
    /\ compactFailures \in 0 .. MaxCompactFailures
    /\ tokens \in Nat
    /\ tracker \in [count : Nat, lastDelta : Nat, lastTokens : Nat]
    /\ blocked \in 0 .. MaxBlocks

LEMMA TypeParts == TypeOK <=> Counters /\ history \in Seq(Message(replies))
BY Zenon DEF TypeOK, Counters, Message

LEMMA NextTypeParts == TypeOK' <=> Counters' /\ history' \in Seq(Message(replies'))
BY Zenon DEF TypeOK, Counters, Message

LEMMA Limits ==
    /\ MaxToolIterations \in Nat /\ MaxContinuations \in Nat /\ MaxCompactFailures \in Nat
    /\ MaxBlocks \in Nat /\ Lengths \subseteq Nat
    /\ TokenBudget \in Nat /\ DiminishingMinCount \in Nat
    /\ DiminishingThreshold \in Nat /\ DiminishingThreshold > 0
BY LimitsAssumption

\* The inductive invariant.
IInv ==
    /\ TypeOK
    /\ tracker.lastTokens <= tokens
    /\ BeginsWithUser
    /\ Answerable

\* The messages of one reply: text and what a stop hook wrote.
Plain(n, h) ==
    /\ h \in Seq(Message(n + 1))
    /\ \A i \in 1 .. Len(h) : h[i].kind \notin {"calls", "results"}

LEMMA PlainAddition ==
    ASSUME NEW n \in Nat, NEW h, Plain(n, h)
    PROVE  Addition(n, h)
<1>1. DOMAIN h = 1 .. Len(h)
  BY LenProperties DEF Plain
<1>2. \A i \in 1 .. Len(h) : h[i].kind # "calls" /\ h[i].kind # "results"
  BY DEF Plain
<1>3. CallsHaveResults(h) /\ ResultsHaveCalls(h) /\ CallsOnce(h)
  BY <1>1, <1>2 DEF CallsHaveResults, ResultsHaveCalls, CallsOnce
<1> QED
  BY <1>2, <1>3 DEF Addition, Paired, Plain

LEMMA AnswerPlain ==
    ASSUME TypeOK, NEW h \in Answer, NEW stderr \in {<<Msg("feedback", replies + 1, "none")>>, <<>>}
    PROVE  Plain(replies, h) /\ Plain(replies, h \o stderr)
<1> DEFINE n == replies
<1>1. n \in Nat /\ n + 1 \in 0 .. n + 1
  BY DEF TypeOK
<1>2. ASSUME NEW k \in {"text", "feedback"} PROVE Plain(n, <<Msg(k, n + 1, "none")>>)
  <2> DEFINE x == Msg(k, n + 1, "none")
  <2>1. x \in Message(n + 1) /\ x.kind = k
    BY <1>1 DEF Msg, Message, Kind, Media
  <2> HIDE DEF x
  <2>2. <<x>> \in Seq(Message(n + 1)) /\ Len(<<x>>) = 1 /\ <<x>>[1] = x
    BY <2>1
  <2>3. \A i \in 1 .. Len(<<x>>) : i = 1
    BY <2>2
  <2> QED
    BY <2>1, <2>2, <2>3 DEF Plain, x
<1>3. Plain(n, <<>>)
  <2>1. <<>> \in Seq(Message(n + 1)) /\ Len(<<>>) = 0
    BY EmptySeq
  <2> QED
    BY <2>1 DEF Plain
<1>4. Plain(n, h)
  BY <1>2, <1>3 DEF Answer
<1>5. Plain(n, stderr)
  BY <1>2, <1>3
<1>6. Plain(n, h \o stderr)
  <2> DEFINE r == h \o stderr
  <2>1. /\ h \in Seq(Message(n + 1)) /\ stderr \in Seq(Message(n + 1))
        /\ \A i \in 1 .. Len(h) : h[i].kind \notin {"calls", "results"}
        /\ \A i \in 1 .. Len(stderr) : stderr[i].kind \notin {"calls", "results"}
        /\ Len(h) \in Nat /\ Len(stderr) \in Nat
    BY <1>4, <1>5, LenProperties DEF Plain
  <2>2. /\ r \in Seq(Message(n + 1)) /\ Len(r) = Len(h) + Len(stderr)
        /\ \A i \in 1 .. Len(h) : r[i] = h[i]
        /\ \A i \in 1 .. Len(stderr) : r[Len(h) + i] = stderr[i]
    BY <2>1, ConcatOK
  <2> HIDE DEF r
  <2>3. ASSUME NEW i \in 1 .. Len(r) PROVE r[i].kind \notin {"calls", "results"}
    <3>1. CASE i <= Len(h)
      <4>1. i \in 1 .. Len(h)
        BY <2>1, <3>1
      <4> QED
        BY <2>1, <2>2, <4>1
    <3>2. CASE ~(i <= Len(h))
      <4>1. i - Len(h) \in 1 .. Len(stderr) /\ Len(h) + (i - Len(h)) = i
        BY <2>1, <2>2, <3>2
      <4> QED
        BY <2>1, <2>2, <4>1
    <3> QED
      BY <3>1, <3>2
  <2>4. Plain(n, r)
    BY <2>2, <2>3 DEF Plain
  <2> QED
    BY <2>4 DEF r
<1> QED
  BY <1>4, <1>6

LEMMA RoundAddition ==
    ASSUME NEW n \in Nat, NEW m \in {"none", "media"},
           NEW h, h = <<Msg("calls", n + 1, "none"), Msg("results", n + 1, m)>>
    PROVE  Addition(n, h) /\ Len(h) = 2 /\ ~FromAssistant(h[2])
<1> DEFINE x == Msg("calls", n + 1, "none")
           y == Msg("results", n + 1, m)
<1>1. /\ x \in Message(n + 1) /\ x.kind = "calls" /\ x.reply = n + 1
      /\ y \in Message(n + 1) /\ y.kind = "results" /\ y.reply = n + 1
  <2>1. n + 1 \in 0 .. n + 1
    OBVIOUS
  <2> QED
    BY <2>1 DEF Msg, Message, Kind, Media
<1> HIDE DEF x, y
<1>2. h \in Seq(Message(n + 1)) /\ Len(h) = 2 /\ h[1] = x /\ h[2] = y /\ DOMAIN h = 1 .. 2
  <2>1. h = <<x, y>>
    BY DEF x, y
  <2> QED
    BY <1>1, <2>1
<1>3. \A i \in 1 .. 2 : (h[i].kind = "calls" <=> i = 1) /\ (h[i].kind = "results" <=> i = 2)
  BY <1>1, <1>2
<1>4. CallsHaveResults(h) /\ ResultsHaveCalls(h) /\ CallsOnce(h)
  <2>1. CallsHaveResults(h)
    BY <1>1, <1>2, <1>3 DEF CallsHaveResults
  <2>2. ResultsHaveCalls(h)
    BY <1>1, <1>2, <1>3 DEF ResultsHaveCalls
  <2>3. CallsOnce(h)
    BY <1>2, <1>3 DEF CallsOnce
  <2> QED
    BY <2>1, <2>2, <2>3
<1> QED
  BY <1>1, <1>2, <1>3, <1>4 DEF Addition, Paired, FromAssistant

\* A reply adds to the history and keeps what it was.
LEMMA ReplyOK ==
    ASSUME IInv, NEW h, Addition(replies, h), Reply(h)
    PROVE  /\ replies' \in Nat /\ replies' # replies
           /\ recovered' = FALSE /\ compactFailures' = compactFailures
           /\ history' \in Seq(Message(replies')) /\ BeginsWithUser'
           /\ pc = "sent"
           /\ CallsHaveResults(history')
           /\ Paired(history) => Paired(history')
           /\ Len(h) > 0 => history'[Len(history')] = h[Len(h)]
<1>1. /\ replies \in Nat /\ history \in Seq(Message(replies)) /\ history # <<>>
      /\ Len(history) \in Nat /\ Len(history) >= 1
  <2>1. replies \in Nat /\ history \in Seq(Message(replies)) /\ history # <<>>
    BY DEF IInv, TypeOK, BeginsWithUser, Message
  <2> QED
    BY <2>1, EmptySeq
<1>2. pc = "sent" /\ replies' = replies + 1 /\ history' = history \o h
      /\ recovered' = FALSE /\ compactFailures' = compactFailures
  BY DEF Reply
<1>3. /\ history \o h \in Seq(Message(replies + 1))
      /\ CallsHaveResults(history) => CallsHaveResults(history \o h)
      /\ Paired(history) => Paired(history \o h)
  BY <1>1, AdditionPaired
<1>4. CallsHaveResults(history)
  BY <1>2 DEF IInv, Answerable
<1>5. /\ Len(history \o h) = Len(history) + Len(h)
      /\ \A i \in 1 .. Len(history) : (history \o h)[i] = history[i]
      /\ \A i \in 1 .. Len(h) : (history \o h)[Len(history) + i] = h[i]
      /\ Len(h) \in Nat
  <2>1. history \in Seq(Message(replies + 1)) /\ h \in Seq(Message(replies + 1))
    BY <1>1, MoreReplies DEF Addition
  <2>2. Len(h) \in Nat
    BY <2>1, LenProperties
  <2> QED
    BY <2>1, <2>2, ConcatOK
<1>6. /\ Len(history') = Len(history) + Len(h)
      /\ \A i \in 1 .. Len(history) : history'[i] = history[i]
      /\ \A i \in 1 .. Len(h) : history'[Len(history) + i] = h[i]
  BY <1>2, <1>5, Zenon
<1>7. BeginsWithUser'
  <2>1. 1 \in 1 .. Len(history) /\ Len(history) + Len(h) # 0
    BY <1>1, <1>5
  <2>2. history'[1] = history[1] /\ Len(history') # 0
    BY <1>6, <2>1, Zenon
  <2> QED
    BY <2>2 DEF IInv, BeginsWithUser
<1>8. ASSUME Len(h) > 0 PROVE history'[Len(history')] = h[Len(h)]
  <2>1. Len(h) \in 1 .. Len(h)
    BY <1>5, <1>8
  <2> QED
    BY <1>6, <2>1, Zenon
<1>9. replies' \in Nat /\ replies' # replies
  BY <1>1, <1>2
<1>10. /\ history' \in Seq(Message(replies'))
       /\ CallsHaveResults(history')
       /\ Paired(history) => Paired(history')
  BY <1>2, <1>3, <1>4, Zenon
<1> QED
  BY <1>2, <1>7, <1>8, <1>9, <1>10

\* What a step may do to pairs, and to the message that is being continued: the
\* bodies of OnlyRecoveryUnpairs and CutOffKept.
UnpairsOnlyInRecovery ==
    pc' # "failed" /\ Paired(history) /\ ~Paired(history') =>
            ~recovered /\ recovered' /\ transient # "none"

KeepsCutOff == transient # "none" /\ replies' = replies => Last(history') = Last(history)

StepOK == IInv' /\ UnpairsOnlyInRecovery /\ KeepsCutOff

LEMMA InitOK == Init => IInv
<1> SUFFICES ASSUME Init PROVE IInv
  OBVIOUS
<1>1. \A k \in Kind, m \in {"none", "media"} : Msg(k, 0, m) \in Message(0) /\ Msg(k, 0, m).kind = k
  BY DEF Msg, Message, Media
<1>2. /\ history \in Seq(Message(0)) /\ history # <<>> /\ history[1].kind = "prompt"
      /\ CallsHaveResults(history)
      /\ ~FromAssistant(Last(history))
  <2>1. ASSUME NEW m \in {"none", "media"}, history = <<Msg("prompt", 0, m)>>
        PROVE  <1>2!:
    <3> DEFINE x == Msg("prompt", 0, m)
    <3>1. x \in Message(0) /\ x.kind = "prompt"
      BY <1>1 DEF Kind
    <3>2. history = <<x>>
      BY <2>1
    <3> HIDE DEF x
    <3>3. history \in Seq(Message(0)) /\ Len(history) = 1 /\ history[1] = x /\ DOMAIN history = 1 .. 1
      BY <3>1, <3>2
    <3>4. history # <<>>
      BY <3>3
    <3> QED
      BY <3>1, <3>3, <3>4 DEF CallsHaveResults, FromAssistant, Last
  <2>2. ASSUME NEW m \in {"none", "media"},
               history = <<Msg("prompt", 0, "none"), Msg("calls", 0, "none"), Msg("results", 0, "none"),
                           Msg("text", 0, "none"), Msg("feedback", 0, m)>>
        PROVE  <1>2!:
    <3> DEFINE a == Msg("prompt", 0, "none")
               b == Msg("calls", 0, "none")
               c == Msg("results", 0, "none")
               d == Msg("text", 0, "none")
               e == Msg("feedback", 0, m)
    <3>1. /\ {a, b, c, d, e} \subseteq Message(0)
          /\ a.kind = "prompt" /\ b.kind = "calls" /\ c.kind = "results" /\ d.kind = "text"
          /\ e.kind = "feedback" /\ b.reply = c.reply
      <4>1. {a, b, c, d, e} \subseteq Message(0)
        BY <1>1 DEF Kind
      <4> QED
        BY <4>1 DEF Msg
    <3>2. history = <<a, b, c, d, e>>
      BY <2>2
    <3> HIDE DEF a, b, c, d, e
    <3>3. /\ history \in Seq(Message(0)) /\ Len(history) = 5 /\ DOMAIN history = 1 .. 5
          /\ history[1] = a /\ history[2] = b /\ history[3] = c /\ history[4] = d /\ history[5] = e
      BY <3>1, <3>2
    <3>4. history # <<>>
      <4>1. Len(history) # 0
        BY <3>3
      <4> QED
        BY <4>1, EmptySeq
    <3>5. CallsHaveResults(history)
      BY <3>1, <3>3 DEF CallsHaveResults
    <3> QED
      BY <3>1, <3>3, <3>4, <3>5 DEF FromAssistant, Last
  <2> QED
    BY <2>1, <2>2 DEF Init, InitialHistories
<1>3. TypeOK /\ tracker.lastTokens <= tokens
  <2>1. Counters /\ tracker.lastTokens <= tokens
    <3>1. /\ tracker \in [count : Nat, lastDelta : Nat, lastTokens : Nat]
          /\ tracker.lastTokens = 0 /\ tokens = 0
      BY DEF Init, NewBudgetTracker
    <3>2. /\ toolLoops \in 0 .. MaxToolIterations /\ continuations \in 0 .. MaxContinuations
          /\ compactFailures \in 0 .. MaxCompactFailures /\ blocked \in 0 .. MaxBlocks
      BY Limits DEF Init
    <3>3. pc = "top" /\ transient = "none" /\ replies \in Nat /\ recovered \in BOOLEAN /\ tokens \in Nat
      BY DEF Init
    <3>4. tracker.lastTokens <= tokens
      BY <3>1
    <3>5. Counters
      BY <3>1, <3>2, <3>3 DEF Counters
    <3> QED
      BY <3>4, <3>5
  <2>2. replies = 0
    BY DEF Init
  <2> QED
    BY <1>2, <2>1, <2>2, TypeParts, Zenon
<1> QED
  BY <1>2, <1>3 DEF IInv, BeginsWithUser, Answerable

\* A compaction of the history between two requests.
LEMMA AutoCompactOK == IInv /\ AutoCompact => StepOK
<1> SUFFICES ASSUME IInv, AutoCompact PROVE StepOK
  OBVIOUS
<1>1. /\ replies \in Nat /\ history \in Seq(Message(replies)) /\ history # <<>>
      /\ CallsHaveResults(history)
      /\ blocked = 0 => ~FromAssistant(Last(history))
  BY DEF IInv, TypeOK, BeginsWithUser, Message, AutoCompact, Answerable
<1>0. Counters
  BY TypeParts DEF IInv
<1> DEFINE c == Compacted(history, replies)
<1>2. /\ c \in Seq(Message(replies)) /\ c # <<>> /\ c[1].kind = "boundary"
      /\ ~FromAssistant(Last(c)) /\ CallsHaveResults(c)
      /\ Paired(history) => Paired(c)
  <2>1. c \in Seq(Message(replies)) /\ CompactOf(history, c)
    BY <1>1, CompactedIsCompact
  <2>2. /\ c # <<>> /\ ~FromAssistant(c[Len(c)])
        /\ CallsHaveResults(history) => CallsHaveResults(c)
        /\ Paired(history) => Paired(c)
    BY <1>1, <2>1, CompactPaired
  <2>3. c[1].kind = "boundary"
    BY <2>1, Zenon DEF CompactOf
  <2> HIDE DEF c
  <2> QED
    BY <1>1, <2>1, <2>2, <2>3, Zenon DEF Last
<1> HIDE DEF c
<1>3. CASE history' = c
  <2>1. TypeOK'
    <3>1. Counters'
      BY <1>0, Limits DEF AutoCompact, Counters
    <3>2. history' \in Seq(Message(replies'))
      BY <1>2, <1>3, Zenon DEF AutoCompact
    <3> QED
      BY <3>1, <3>2, NextTypeParts
  <2>2. BeginsWithUser' /\ Answerable'
    <3>1. /\ history' # <<>> /\ history'[1].kind = "boundary"
          /\ ~FromAssistant(Last(history')) /\ CallsHaveResults(history')
      BY <1>2, <1>3, Zenon
    <3> QED
      BY <3>1 DEF BeginsWithUser, Answerable
  <2>3. Paired(history) => Paired(history')
    BY <1>2, <1>3, Zenon
  <2>4. (tracker.lastTokens <= tokens)'
    BY DEF IInv, AutoCompact
  <2> QED
    BY <2>1, <2>2, <2>3, <2>4 DEF StepOK, IInv, UnpairsOnlyInRecovery, KeepsCutOff, AutoCompact
<1>4. CASE history' = history /\ compactFailures' = compactFailures + 1
  <2>1. TypeOK'
    BY <1>4, Limits DEF AutoCompact, IInv, TypeOK
  <2>2. BeginsWithUser' /\ Answerable'
    BY <1>1, <1>4 DEF BeginsWithUser, Answerable, IInv, AutoCompact
  <2>3. (tracker.lastTokens <= tokens)'
    BY DEF IInv, AutoCompact
  <2> QED
    BY <1>4, <2>1, <2>2, <2>3 DEF StepOK, IInv, UnpairsOnlyInRecovery, KeepsCutOff
<1> QED
  BY <1>3, <1>4 DEF AutoCompact, c

LEMMA SendOK == IInv /\ (Send \/ Fail) => StepOK
<1> SUFFICES ASSUME IInv, Send \/ Fail PROVE StepOK
  OBVIOUS
<1>1. UNCHANGED <<history, transient, replies, toolLoops, continuations, recovered,
                  compactFailures, tokens, tracker, blocked>>
  BY DEF Send, Fail
<1>2. pc \in {"top", "sent"} /\ pc' \in {"sent", "failed"}
  BY DEF Send, Fail
<1>3. TypeOK'
  BY <1>1, <1>2 DEF IInv, TypeOK
<1>4. Answerable' /\ BeginsWithUser'
  BY <1>1, <1>2 DEF IInv, Answerable, BeginsWithUser
<1> QED
  BY <1>1, <1>3, <1>4 DEF StepOK, IInv, UnpairsOnlyInRecovery, KeepsCutOff

LEMMA RecoverOK == IInv /\ Recover => StepOK
<1> SUFFICES ASSUME IInv, Recover PROVE StepOK
  OBVIOUS
<1> DEFINE continuing == transient # "none"
           r == Recovered(history, continuing, replies)
<1>1. /\ replies \in Nat /\ history \in Seq(Message(replies)) /\ history # <<>>
      /\ history[1].kind \in {"prompt", "boundary"}
      /\ CallsHaveResults(history)
  BY DEF IInv, TypeOK, BeginsWithUser, Message, Recover, Answerable
<1>2. /\ r \in Seq(Message(replies)) /\ r # <<>> /\ r[1].kind = "boundary"
      /\ CallsHaveResults(r)
      /\ continuing => Last(r) = Last(history)
      /\ ~continuing => ~FromAssistant(Last(r)) /\ (Paired(history) => Paired(r))
  <2>1. CASE continuing
    <3>1. r = Recovered(history, TRUE, replies)
      BY <2>1
    <3> HIDE DEF r
    <3>2. /\ r \in Seq(Message(replies)) /\ r # <<>> /\ r[1].kind = "boundary"
          /\ r[Len(r)] = history[Len(history)]
          /\ CallsHaveResults(history) => CallsHaveResults(r)
      BY <1>1, <3>1, RecoveredContinuation
    <3> QED
      BY <1>1, <2>1, <3>2, Zenon DEF Last
  <2>2. CASE ~continuing
    <3>1. r = Recovered(history, FALSE, replies)
      BY <2>2
    <3> HIDE DEF r
    <3>2. r \in Seq(Message(replies)) /\ CompactOf(history, r)
      BY <1>1, <3>1, RecoveredTurn
    <3>3. /\ r # <<>> /\ ~FromAssistant(r[Len(r)])
          /\ CallsHaveResults(history) => CallsHaveResults(r)
          /\ Paired(history) => Paired(r)
      BY <1>1, <3>2, CompactPaired
    <3>4. r[1].kind = "boundary"
      BY <3>2, Zenon DEF CompactOf
    <3> QED
      BY <1>1, <2>2, <3>2, <3>3, <3>4, Zenon DEF Last
  <2> QED
    BY <2>1, <2>2
<1> HIDE DEF r
<1>3. /\ history' = r /\ recovered' = TRUE /\ ~recovered /\ pc = "sent" /\ pc' = "top"
      /\ UNCHANGED <<transient, replies, toolLoops, continuations, compactFailures, tokens,
                     tracker, blocked>>
  BY DEF Recover, r
<1>4. TypeOK'
  BY <1>2, <1>3 DEF IInv, TypeOK, Message
<1>5. /\ history' # <<>> /\ history'[1].kind = "boundary"
      /\ CallsHaveResults(history')
      /\ continuing => Last(history') = Last(history)
      /\ ~continuing => ~FromAssistant(Last(history')) /\ (Paired(history) => Paired(history'))
  BY <1>2, <1>3, Zenon
<1>6. BeginsWithUser' /\ Answerable'
  <2>1. BeginsWithUser'
    BY <1>5 DEF BeginsWithUser
  <2>2. Answerable'
    BY <1>3, <1>5 DEF Answerable
  <2> QED
    BY <2>1, <2>2
<1>7. (tracker.lastTokens <= tokens)'
  BY <1>3 DEF IInv
<1>8. UnpairsOnlyInRecovery /\ KeepsCutOff
  <2>1. UnpairsOnlyInRecovery
    BY <1>3, <1>5, Zenon DEF UnpairsOnlyInRecovery
  <2>2. KeepsCutOff
    BY <1>5, Zenon DEF KeepsCutOff
  <2> QED
    BY <2>1, <2>2
<1> QED
  BY <1>4, <1>6, <1>7, <1>8 DEF StepOK, IInv

LEMMA ToolRoundOK ==
    ASSUME IInv, NEW m \in {"none", "media"}, ToolRound(m)
    PROVE  StepOK
<1> DEFINE h == <<Msg("calls", replies + 1, "none"), Msg("results", replies + 1, m)>>
<1>1. Counters
  BY TypeParts DEF IInv
<1>2. Addition(replies, h) /\ Len(h) = 2 /\ ~FromAssistant(h[2])
  BY <1>1, RoundAddition DEF Counters
<1>3. /\ Reply(h) /\ toolLoops < MaxToolIterations
      /\ pc' = "top" /\ transient' = "none" /\ toolLoops' = toolLoops + 1
      /\ continuations' = 0 /\ tokens' = 0 /\ tracker' = NewBudgetTracker /\ blocked' = blocked
  BY DEF ToolRound
<1> HIDE DEF h
<1>4. /\ replies' \in Nat /\ replies' # replies
      /\ recovered' = FALSE /\ compactFailures' = compactFailures
      /\ history' \in Seq(Message(replies')) /\ BeginsWithUser'
      /\ pc = "sent"
      /\ CallsHaveResults(history')
      /\ Paired(history) => Paired(history')
      /\ Len(h) > 0 => history'[Len(history')] = h[Len(h)]
  BY <1>2, <1>3, ReplyOK
<1>5. Counters'
  <2>1. tracker' \in [count : Nat, lastDelta : Nat, lastTokens : Nat]
    BY <1>3 DEF NewBudgetTracker
  <2>2. toolLoops' \in 0 .. MaxToolIterations /\ continuations' \in 0 .. MaxContinuations
    BY <1>1, <1>3, Limits DEF Counters
  <2> QED
    BY <1>1, <1>3, <1>4, <2>1, <2>2 DEF Counters
<1>6. TypeOK'
  BY <1>4, <1>5, NextTypeParts
<1>7. Answerable'
  <2>1. Len(h) > 0 /\ Last(history') = history'[Len(history')]
    BY <1>2 DEF Last
  <2>2. ~FromAssistant(Last(history'))
    BY <1>2, <1>4, <2>1, Zenon
  <2> QED
    BY <1>4, <2>2 DEF Answerable
<1>8. (tracker.lastTokens <= tokens)'
  BY <1>3 DEF NewBudgetTracker
<1> QED
  BY <1>4, <1>6, <1>7, <1>8 DEF StepOK, IInv, UnpairsOnlyInRecovery, KeepsCutOff

\* The run has failed: the types are all that is left to keep.
LEMMA TooManyRoundsOK == IInv /\ TooManyRounds => StepOK
<1> SUFFICES ASSUME IInv, TooManyRounds PROVE StepOK
  OBVIOUS
<1> DEFINE x == Msg("calls", replies + 1, "none")
<1>1. /\ Counters /\ replies \in Nat /\ history \in Seq(Message(replies))
      /\ history # <<>> /\ Len(history) \in Nat /\ Len(history) >= 1
  <2>1. Counters /\ history \in Seq(Message(replies)) /\ history # <<>>
    BY TypeParts DEF IInv, BeginsWithUser
  <2> QED
    BY <2>1, EmptySeq DEF Counters
<1>2. /\ history' = history \o <<x>> /\ replies' = replies + 1 /\ recovered' = FALSE
      /\ pc' = "failed" /\ transient' = "none"
      /\ UNCHANGED <<compactFailures, toolLoops, continuations, tokens, tracker, blocked>>
  BY DEF TooManyRounds, Reply
<1>3. x \in Message(replies + 1)
  <2>1. replies + 1 \in 0 .. replies + 1
    BY <1>1
  <2> QED
    BY <2>1 DEF Msg, Message, Kind, Media
<1> HIDE DEF x
<1>4. /\ history \o <<x>> \in Seq(Message(replies + 1))
      /\ Len(history \o <<x>>) = Len(history) + Len(<<x>>)
      /\ \A i \in 1 .. Len(history) : (history \o <<x>>)[i] = history[i]
  <2>1. history \in Seq(Message(replies + 1)) /\ <<x>> \in Seq(Message(replies + 1))
    BY <1>1, <1>3, MoreReplies
  <2> QED
    BY ONLY <2>1, ConcatOK
<1>5. /\ history' \in Seq(Message(replies')) /\ history'[1] = history[1]
      /\ Len(history') = Len(history) + Len(<<x>>)
  <2>1. 1 \in 1 .. Len(history)
    BY <1>1
  <2> QED
    BY <1>2, <1>4, <2>1, Zenon
<1>6. BeginsWithUser'
  <2>1. Len(history') # 0
    BY <1>1, <1>5
  <2> QED
    BY <1>5, <2>1, EmptySeq DEF IInv, BeginsWithUser
<1>7. TypeOK'
  <2>1. replies + 1 \in Nat
    BY <1>1
  <2>2. /\ replies' \in Nat /\ recovered' = FALSE /\ pc' = "failed" /\ transient' = "none"
        /\ UNCHANGED <<compactFailures, toolLoops, continuations, tokens, tracker, blocked>>
    BY <1>2, <2>1, Zenon
  <2>3. Counters'
    BY <1>1, <2>2 DEF Counters
  <2> QED
    BY <1>5, <2>3, NextTypeParts
<1>8. Answerable' /\ (tracker.lastTokens <= tokens)'
  BY <1>2 DEF IInv, Answerable
<1>9. replies' # replies
  BY <1>1, <1>2
<1> QED
  BY <1>2, <1>6, <1>7, <1>8, <1>9 DEF StepOK, IInv, UnpairsOnlyInRecovery, KeepsCutOff

\* A reply without tool calls, whatever the engine does next.
LEMMA AnsweredOK ==
    ASSUME IInv, Answered
    PROVE  StepOK
<1>1. Counters /\ tracker.lastTokens <= tokens
  BY TypeParts DEF IInv
<1>2. PICK h \in Answer, n \in Lengths :
        Resume(h, n) \/ Nudge(h, n) \/ Block(h, n) \/ Finish(h, n)
  BY Zenon DEF Answered
<1>3. n \in Nat /\ tokens + n \in Nat /\ tokens <= tokens + n /\ tracker.lastTokens <= tokens + n
  BY <1>1, Limits DEF Counters
<1>4. PICK g : Plain(replies, g) /\ Reply(g)
  <2>1. ASSUME Block(h, n) PROVE \E g : Plain(replies, g) /\ Reply(g)
    <3>1. PICK stderr \in {<<Msg("feedback", replies + 1, "none")>>, <<>>} : Reply(h \o stderr)
      BY <2>1, Zenon DEF Block
    <3>2. Plain(replies, h \o stderr)
      BY AnswerPlain, Zenon DEF IInv
    <3> QED
      BY <3>1, <3>2, Zenon
  <2>2. ASSUME Reply(h) PROVE \E g : Plain(replies, g) /\ Reply(g)
    <3>1. Plain(replies, h)
      BY AnswerPlain, Zenon DEF IInv
    <3> QED
      BY <2>2, <3>1, Zenon
  <2> QED
    BY <1>2, <2>1, <2>2, Zenon DEF Resume, Nudge, Finish
<1>5. Addition(replies, g)
  BY <1>1, <1>4, PlainAddition DEF Counters
<1>6. /\ replies' \in Nat /\ replies' # replies
      /\ recovered' = FALSE /\ compactFailures' = compactFailures
      /\ history' \in Seq(Message(replies')) /\ BeginsWithUser'
      /\ CallsHaveResults(history')
      /\ Paired(history) => Paired(history')
  BY <1>4, <1>5, ReplyOK
<1>7. /\ Counters' /\ (tracker.lastTokens <= tokens)'
      /\ pc' \in {"top", "sent"} /\ transient' = "none" => blocked' # 0
  <2>0. toolLoops' = toolLoops /\ tokens' = tokens + n
    BY <1>2, Zenon DEF Resume, Nudge, Block, Finish
  <2>1. CASE Resume(h, n)
    <3>1. continuations' = continuations + 1 /\ continuations < MaxContinuations
          /\ pc' = "top" /\ transient' = "resume" /\ UNCHANGED <<tracker, blocked>>
      BY <2>1 DEF Resume
    <3>2. continuations' \in 0 .. MaxContinuations
      BY <1>1, <3>1, Limits DEF Counters
    <3>3. Counters'
      BY <1>1, <1>3, <1>6, <2>0, <3>1, <3>2 DEF Counters
    <3> QED
      BY <1>3, <2>0, <3>1, <3>3
  <2>2. CASE Nudge(h, n)
    <3>1. tracker' = Nudged(tracker, tokens + n)
          /\ pc' = "top" /\ transient' = "nudge" /\ UNCHANGED <<continuations, blocked>>
      BY <2>2 DEF Nudge
    <3>2. /\ tracker' \in [count : Nat, lastDelta : Nat, lastTokens : Nat]
          /\ tracker'.lastTokens = tokens + n
      <4>1. /\ tracker.count + 1 \in Nat /\ (tokens + n) - tracker.lastTokens \in Nat
        <5>1. tracker.count \in Nat /\ tracker.lastTokens \in Nat
          BY <1>1 DEF Counters
        <5> QED
          BY <1>3, <5>1
      <4> QED
        BY <1>3, <3>1, <4>1 DEF Nudged
    <3>3. Counters'
      BY <1>1, <1>3, <1>6, <2>0, <3>1, <3>2 DEF Counters
    <3> QED
      BY <1>1, <1>3, <2>0, <3>1, <3>2, <3>3
  <2>3. CASE Block(h, n)
    <3>1. blocked' = blocked + 1 /\ blocked < MaxBlocks
          /\ pc' = "top" /\ transient' = "none" /\ UNCHANGED <<continuations, tracker>>
      BY <2>3 DEF Block
    <3>2. blocked' \in 0 .. MaxBlocks /\ blocked' # 0
      BY <1>1, <3>1, Limits DEF Counters
    <3>3. Counters'
      BY <1>1, <1>3, <1>6, <2>0, <3>1, <3>2 DEF Counters
    <3> QED
      BY <1>1, <1>3, <2>0, <3>1, <3>2, <3>3
  <2>4. CASE Finish(h, n)
    <3>1. pc' = "done" /\ transient' = "none" /\ UNCHANGED <<continuations, tracker, blocked>>
      BY <2>4 DEF Finish
    <3> QED
      BY <1>1, <1>3, <1>6, <2>0, <3>1 DEF Counters
  <2> QED
    BY <1>2, <2>1, <2>2, <2>3, <2>4
<1>8. TypeOK'
  BY <1>6, <1>7, NextTypeParts
<1>9. Answerable'
  BY <1>6, <1>7 DEF Answerable
<1> QED
  BY <1>6, <1>7, <1>8, <1>9 DEF StepOK, IInv, UnpairsOnlyInRecovery, KeepsCutOff

LEMMA StutterOK == IInv /\ UNCHANGED vars => StepOK
<1> SUFFICES ASSUME IInv, UNCHANGED vars PROVE StepOK
  OBVIOUS
<1>1. UNCHANGED <<pc, history, transient, replies, toolLoops, continuations, recovered,
                  compactFailures, tokens, tracker, blocked>>
  BY DEF vars
<1>2. TypeOK'
  BY <1>1 DEF IInv, TypeOK
<1>3. BeginsWithUser' /\ Answerable' /\ (tracker.lastTokens <= tokens)'
  BY <1>1 DEF IInv, BeginsWithUser, Answerable
<1> QED
  BY <1>1, <1>2, <1>3 DEF StepOK, IInv, UnpairsOnlyInRecovery, KeepsCutOff

LEMMA NextOK == IInv /\ [Next]_vars => StepOK
<1> SUFFICES ASSUME IInv, [Next]_vars PROVE StepOK
  OBVIOUS
<1>1. CASE \E m \in IF MediaResults THEN {"none", "media"} ELSE {"none"} : ToolRound(m)
  <2>1. PICK m \in {"none", "media"} : ToolRound(m)
    BY <1>1
  <2> QED
    BY <2>1, ToolRoundOK
<1> QED
  BY <1>1, AutoCompactOK, SendOK, RecoverOK, TooManyRoundsOK, AnsweredOK, StutterOK DEF Next

LEMMA Invariance == Spec => []IInv
<1>1. IInv /\ [Next]_vars => IInv'
  BY NextOK DEF StepOK
<1> QED
  BY InitOK, <1>1, PTL DEF Spec

-----------------------------------------------------------------------------
(* Requests to the summarizer. *)

\* What SummaryRequestsPaired demands of the messages of one request.
WellFormed(s) ==
    s # <<>> => CallsHaveResults(s) /\ ResultsHaveCalls(s) /\ ~FromAssistant(s[1])

\* The first request: it ends in front of calls that are preserved with their
\* results.
LEMMA FirstRequestOK ==
    ASSUME NEW n \in Nat, NEW s \in Seq(Message(n)), s # <<>>,
           s[1].kind \in {"prompt", "boundary"}, Paired(s),
           NEW p, p = SubSeq(Recent(s), 1, Len(Recent(s)) - PreservedCount(Recent(s)))
    PROVE  p \in Seq(Message(n)) /\ WellFormed(p)
<1> DEFINE c == Recent(s)
           k == PreservedCount(c)
           l == Len(c) - k
<1>1. PICK b \in 1 .. Len(s) : EndOf(s, b, c) /\ (b = 1 \/ c[1].kind = "boundary")
  BY RecentOK
<1>2. c \in Seq(Message(n)) /\ Len(c) \in Nat /\ Len(c) >= 1 /\ DOMAIN c = 1 .. Len(c) /\ c # <<>>
  <2>1. c \in Seq(Message(n)) /\ Len(c) = Len(s) - b + 1
    BY <1>1, RecentOK DEF EndOf
  <2>2. Len(s) \in Nat
    BY LenProperties
  <2>3. Len(c) \in Nat /\ Len(c) >= 1
    BY <2>1, <2>2
  <2> QED
    BY <2>1, <2>3, EmptySeq, LenProperties
<1>3. CallsHaveResults(c) /\ ResultsHaveCalls(c)
  <2>1. b = 1 \/ c[1].kind # "results"
    BY <1>1
  <2> QED
    BY <1>1, <1>2, <2>1, EndPaired, Zenon DEF Paired
<1>4. ~FromAssistant(c[1])
  <2>1. c[1].kind = s[b + 1 - 1].kind
    BY <1>1, <1>2 DEF EndOf
  <2>2. c[1].kind \in {"prompt", "boundary"}
    BY <1>1, <2>1
  <2> QED
    BY <2>2 DEF FromAssistant
<1>5. /\ k \in {0, 1, 2} /\ k <= Len(c)
      /\ k = 0 => FromAssistant(Last(c))
      /\ k = 2 <=> Last(c).kind = "results" /\ Len(c) > 1 /\ c[Len(c) - 1].kind = "calls"
  BY <1>2, PreservedCountOK, Zenon
<1>6. p = SubSeq(c, 1, l)
  OBVIOUS
<1> HIDE DEF c, k
<1>7. l \in Nat /\ l <= Len(c) /\ l = Len(c) - k
  BY <1>2, <1>5
<1>8. /\ p \in Seq(Message(n)) /\ Len(p) = l /\ DOMAIN p = 1 .. l
      /\ \A i \in 1 .. l : p[i] = c[i]
  <2>1. 1 \in 1 .. Len(c) + 1 /\ l \in 1 - 1 .. Len(c)
    BY <1>2, <1>7
  <2>2. /\ SubSeq(c, 1, l) \in Seq(Message(n)) /\ Len(SubSeq(c, 1, l)) = l - 1 + 1
        /\ \A i \in 1 .. l - 1 + 1 : SubSeq(c, 1, l)[i] = c[1 + i - 1]
    BY <1>2, <2>1, PartOK
  <2>3. l - 1 + 1 = l /\ \A i \in 1 .. l : 1 + i - 1 = i
    BY <1>7
  <2>4. /\ SubSeq(c, 1, l) \in Seq(Message(n)) /\ Len(SubSeq(c, 1, l)) = l
        /\ \A i \in 1 .. l : SubSeq(c, 1, l)[i] = c[i]
    BY <2>2, <2>3
  <2>5. DOMAIN SubSeq(c, 1, l) = 1 .. l
    BY <2>4, LenProperties
  <2> HIDE DEF l
  <2> QED
    BY <1>6, <2>4, <2>5, Zenon
<1> HIDE DEF l
<1>9. ASSUME NEW i \in 1 .. l, p[i].kind = "calls"
      PROVE  i < l /\ p[i + 1].kind = "results" /\ p[i + 1].reply = p[i].reply
  <2>0. i \in 1 .. Len(c) /\ i \in Nat /\ i <= l
    BY <1>2, <1>7
  <2>1. i \in 1 .. Len(c) /\ i \in Nat /\ i <= l /\ p[i] = c[i]
    BY <1>8, <2>0, Zenon
  <2>2. i < Len(c) /\ c[i + 1].kind = "results" /\ c[i + 1].reply = c[i].reply
    BY <1>2, <1>3, <1>9, <2>1 DEF CallsHaveResults
  <2>3. i # l
    <3>1. ASSUME i = l, k = 1 PROVE FALSE
      <4>1. i + 1 = Len(c) /\ i = Len(c) - 1 /\ Len(c) > 1
        BY <1>2, <1>7, <2>1, <3>1
      <4>2. Last(c).kind = "results" /\ c[Len(c) - 1].kind = "calls"
        BY <1>9, <2>1, <2>2, <4>1 DEF Last
      <4> QED
        BY <1>5, <3>1, <4>1, <4>2
    <3>2. ASSUME i = l, k = 2 PROVE FALSE
      <4>1. i + 1 = Len(c) - 1
        BY <1>2, <1>7, <3>2
      <4> QED
        BY <1>5, <2>2, <3>2, <4>1
    <3>3. ASSUME i = l, k = 0 PROVE FALSE
      BY <1>2, <1>7, <2>1, <2>2, <3>3
    <3> QED
      BY <1>5, <3>1, <3>2, <3>3
  <2>4. i < l /\ i + 1 \in 1 .. l
    BY <1>7, <2>1, <2>3
  <2> QED
    BY <1>8, <2>1, <2>2, <2>4
<1>10. ASSUME NEW i \in 1 .. l, p[i].kind = "results"
       PROVE  i > 1 /\ p[i - 1].kind = "calls" /\ p[i - 1].reply = p[i].reply
  <2>0. i \in 1 .. Len(c) /\ i \in Nat /\ i <= l
    BY <1>2, <1>7
  <2>1. i \in 1 .. Len(c) /\ i \in Nat /\ i <= l /\ p[i] = c[i]
    BY <1>8, <2>0, Zenon
  <2>2. i > 1 /\ c[i - 1].kind = "calls" /\ c[i - 1].reply = c[i].reply
    BY <1>2, <1>3, <1>10, <2>1 DEF ResultsHaveCalls
  <2>3. i - 1 \in 1 .. l
    BY <1>7, <2>1, <2>2
  <2> QED
    BY <1>8, <2>1, <2>2, <2>3
<1>11. CallsHaveResults(p) /\ ResultsHaveCalls(p)
  <2>1. CallsHaveResults(p)
    BY <1>8, <1>9 DEF CallsHaveResults
  <2>2. ResultsHaveCalls(p)
    BY <1>8, <1>10 DEF ResultsHaveCalls
  <2> QED
    BY <2>1, <2>2
<1>12. ASSUME p # <<>> PROVE ~FromAssistant(p[1])
  <2>1. l # 0
    BY <1>8, <1>12, EmptySeq
  <2>2. 1 \in 1 .. l
    BY <1>7, <2>1
  <2>3. p[1] = c[1]
    BY <1>8, <2>2
  <2> QED
    BY <1>4, <2>3, Zenon
<1> QED
  BY <1>8, <1>11, <1>12, Zenon DEF WellFormed

\* Where TruncateHead cuts: at a message of the assistant that is not the
\* first, because at least one group is dropped and one is kept.
LEMMA CutOK ==
    ASSUME NEW L \in Nat, NEW starts \in SUBSET (1 .. L), 1 \in starts,
           Cardinality(starts) >= 2,
           NEW drop, drop = Max({1, Cardinality(starts) \div 5}),
           NEW kept, kept = {i \in starts : Cardinality({j \in starts : j < i}) >= drop}
    PROVE  Min(kept) \in starts \ {1}
<1> DEFINE n == Cardinality(starts)
<1>0. \A j \in starts : j \in Nat /\ j >= 1
  OBVIOUS
<1>1. IsFiniteSet(starts) /\ n \in Nat
  <2>1. IsFiniteSet(1 .. L)
    BY FS_Interval
  <2> QED
    BY <2>1, FS_Subset, FS_CardinalityType
<1>2. drop \in Nat /\ drop >= 1 /\ drop <= n - 1
  <2> DEFINE q == n \div 5
  <2>1. q \in Nat /\ q <= n - 1
    BY <1>1
  <2> HIDE DEF q
  <2>2. {1, q} \in SUBSET (0 .. n) /\ {1, q} # {}
    BY <1>1, <2>1
  <2>3. Max({1, q}) \in {1, q} /\ \A y \in {1, q} : Max({1, q}) >= y
    BY <1>1, <2>2, MaxOK
  <2>4. drop = Max({1, q})
    BY DEF q
  <2> HIDE DEF n
  <2>5. drop \in {1, q} /\ drop >= 1
    BY <2>3, <2>4
  <2> QED
    BY <1>1, <2>1, <2>5 DEF n
<1> DEFINE last == Max(starts)
<1>3. last \in starts /\ \A y \in starts : last >= y
  <2>1. starts \in SUBSET (0 .. L) /\ starts # {}
    OBVIOUS
  <2> QED
    BY <2>1, MaxOK
<1> HIDE DEF last
<1>4. {j \in starts : j < last} = starts \ {last}
  <2>1. \A j \in starts : j < last <=> j # last
    BY <1>0, <1>3
  <2> QED
    BY <2>1, Zenon
<1>5. Cardinality(starts \ {last}) = n - 1
  BY <1>1, <1>3, FS_RemoveElement
<1>6. last \in kept
  BY <1>2, <1>3, <1>4, <1>5
<1>7. kept \in SUBSET Nat /\ kept # {}
  <2>1. kept \subseteq starts
    OBVIOUS
  <2> QED
    BY <1>0, <1>6, <2>1, Zenon
<1>8. Min(kept) \in kept
  BY <1>7, MinOK
<1>9. 1 \notin kept
  <2>0. \A j \in starts : ~(j < 1)
    BY <1>0
  <2>1. {j \in starts : j < 1} = {}
    BY <2>0, Zenon
  <2>2. Cardinality({j \in starts : j < 1}) = 0
    BY <2>1, FS_EmptySet
  <2>3. ~(0 >= drop)
    BY <1>2
  <2> QED
    BY <2>2, <2>3
<1> HIDE DEF n
<1> QED
  BY <1>8, <1>9

LEMMA TruncateHeadOK ==
    ASSUME NEW n \in Nat, NEW s \in Seq(Message(n)), WellFormed(s),
           NEW r, r = TruncateHead(s)
    PROVE  r \in Seq(Message(n)) /\ WellFormed(r)
<1> DEFINE t == IF s # <<>> /\ s[1].kind = "marker" THEN Tail(s) ELSE s
           starts == {1} \cup {i \in DOMAIN t : FromAssistant(t[i])}
           drop == Max({1, Cardinality(starts) \div 5})
           kept == {i \in starts : Cardinality({j \in starts : j < i}) >= drop}
           x == Msg("marker", 0, "none")
           e == SubSeq(t, Min(kept), Len(t))
<1>1. /\ t \in Seq(Message(n)) /\ Len(t) \in Nat /\ DOMAIN t = 1 .. Len(t)
      /\ t # <<>> => Len(t) >= 1 /\ CallsHaveResults(t) /\ ResultsHaveCalls(t)
  <2>1. CASE s # <<>> /\ s[1].kind = "marker"
    <3>1. /\ Len(s) \in Nat /\ Len(s) >= 1 /\ DOMAIN s = 1 .. Len(s)
          /\ CallsHaveResults(s) /\ ResultsHaveCalls(s)
      BY <2>1, EmptySeq, LenProperties DEF WellFormed
    <3>2. t = Tail(s)
      BY <2>1
    <3> HIDE DEF t
    <3>3. /\ t \in Seq(Message(n)) /\ Len(t) = Len(s) - 1
          /\ \A i \in 1 .. Len(t) : t[i] = s[i + 1]
      BY <2>1, <3>2, HeadTailProperties
    <3>4. Len(t) \in Nat /\ DOMAIN t = 1 .. Len(t) /\ (t # <<>> => Len(t) >= 1)
      BY <3>3, EmptySeq, LenProperties
    <3>5. ASSUME Len(t) >= 1 PROVE CallsHaveResults(t) /\ ResultsHaveCalls(t)
      <4>1. 2 \in 1 .. Len(s) /\ Len(t) = Len(s) - 2 + 1 /\ \A i \in 1 .. Len(t) : 2 + i - 1 = i + 1
        BY <3>1, <3>3, <3>4, <3>5
      <4>2. EndOf(s, 2, t)
        BY <3>3, <4>1 DEF EndOf
      <4>3. t[1].kind # "results"
        <5>1. 1 \in 1 .. Len(t) /\ 1 + 1 = 2
          BY <3>4, <3>5
        <5>2. t[1] = s[2]
          BY <3>3, <5>1
        <5>3. s[2].kind = "results" => s[2 - 1].kind = "calls"
          BY <3>1, <4>1 DEF ResultsHaveCalls
        <5> QED
          BY <2>1, <5>2, <5>3
      <4> QED
        BY <3>1, <3>3, <4>2, <4>3, EndPaired
    <3> QED
      BY <3>3, <3>4, <3>5
  <2>2. CASE ~(s # <<>> /\ s[1].kind = "marker")
    <3>1. t = s
      BY <2>2
    <3> HIDE DEF t
    <3>2. Len(s) \in Nat /\ DOMAIN s = 1 .. Len(s) /\ (s # <<>> => Len(s) >= 1)
      BY EmptySeq, LenProperties
    <3> QED
      BY <3>1, <3>2, Zenon DEF WellFormed
  <2> QED
    BY <2>1, <2>2
<1>2. r = IF t = <<>> \/ Cardinality(starts) < 2 THEN <<>> ELSE <<x>> \o e
  BY DEF TruncateHead
<1> HIDE DEF t
<1>3. CASE t = <<>> \/ Cardinality(starts) < 2
  <2>1. r = <<>>
    BY <1>2, <1>3
  <2> QED
    BY <2>1, EmptySeq DEF WellFormed
<1>4. CASE ~(t = <<>> \/ Cardinality(starts) < 2)
  <2> DEFINE a == Min(kept)
  <2>1. a \in starts \ {1}
    <3>1. starts \in SUBSET (1 .. Len(t)) /\ 1 \in starts
      BY <1>1, <1>4
    <3>2. Cardinality(starts) >= 2
      <4>1. Cardinality(starts) \in Nat
        <5>1. IsFiniteSet(1 .. Len(t))
          BY <1>1, FS_Interval
        <5> QED
          BY <3>1, <5>1, FS_Subset, FS_CardinalityType
      <4> HIDE DEF starts
      <4> QED
        BY <1>4, <4>1
    <3> HIDE DEF starts
    <3> QED
      BY <1>1, <3>1, <3>2, CutOK
  <2>2. a \in 1 .. Len(t) /\ FromAssistant(t[a]) /\ Len(t) >= 1
    BY <1>1, <1>4, <2>1
  <2>3. r = <<x>> \o e /\ e = SubSeq(t, a, Len(t))
    BY <1>2, <1>4
  <2> HIDE DEF a, e, starts
  <2>4. /\ e \in Seq(Message(n)) /\ Len(e) = Len(t) - a + 1 /\ Len(e) >= 1
        /\ \A i \in 1 .. Len(e) : e[i] = t[a + i - 1]
    <3>1. a \in 1 .. Len(t) + 1 /\ Len(t) \in a - 1 .. Len(t)
      BY <1>1, <2>2
    <3>2. /\ e \in Seq(Message(n)) /\ Len(e) = Len(t) - a + 1
          /\ \A i \in 1 .. Len(t) - a + 1 : e[i] = t[a + i - 1]
      BY <1>1, <2>3, <3>1, PartOK
    <3>3. Len(e) >= 1
      BY <1>1, <2>2, <3>2
    <3> QED
      BY <3>2, <3>3
  <2>5. CallsHaveResults(e) /\ ResultsHaveCalls(e)
    <3>1. EndOf(t, a, e)
      BY <2>2, <2>4 DEF EndOf
    <3>2. a + 1 - 1 = a /\ 1 \in 1 .. Len(e)
      <4>1. Len(e) \in Nat
        BY <2>4, LenProperties
      <4> QED
        BY <1>1, <2>2, <2>4, <4>1
    <3>3. e[1] = t[a]
      BY <2>4, <3>2
    <3>4. e[1].kind # "results"
      BY <2>2, <3>3 DEF FromAssistant
    <3> QED
      BY <1>1, <1>4, <2>4, <3>1, <3>4, EndPaired
  <2>6. /\ x \in Message(n) /\ x.kind = "marker"
    BY DEF Msg, Message, Kind, Media
  <2> HIDE DEF x
  <2>7. <<x>> \in Seq(Message(n)) /\ Len(<<x>>) = 1 /\ <<x>>[1] = x /\ DOMAIN <<x>> = 1 .. 1
    BY <2>6
  <2>8. CallsHaveResults(<<x>>) /\ ResultsHaveCalls(<<x>>)
    BY <2>6, <2>7 DEF CallsHaveResults, ResultsHaveCalls
  <2>9. CallsHaveResults(<<x>> \o e) /\ ResultsHaveCalls(<<x>> \o e)
    BY <2>4, <2>5, <2>7, <2>8, ConcatCalls, ConcatResults
  <2>10. <<x>> \o e \in Seq(Message(n)) /\ (<<x>> \o e)[1] = x
    <3>1. <<x>> \in Seq(Message(n)) /\ e \in Seq(Message(n))
      BY <2>4, <2>7
    <3>2. /\ <<x>> \o e \in Seq(Message(n))
          /\ \A i \in 1 .. Len(<<x>>) : (<<x>> \o e)[i] = <<x>>[i]
      BY ONLY <3>1, ConcatOK
    <3>3. 1 \in 1 .. Len(<<x>>)
      BY <2>7
    <3> QED
      BY <2>7, <3>2, <3>3, Zenon
  <2>11. ~FromAssistant(x)
    BY <2>6 DEF FromAssistant
  <2> QED
    BY <2>3, <2>9, <2>10, <2>11, Zenon DEF WellFormed
<1> QED
  BY <1>3, <1>4

\* f[0] is the first request, and each other one what is left of the request
\* before it: the recursive definition in SummaryRequest, up to N.
Retries(base, N, f) ==
    f = [k \in 0 .. N |-> IF k = 0 THEN base ELSE TruncateHead(f[k - 1])]

\* Such a function exists: the smallest N without one would have one, made of
\* the function up to N - 1.
LEMMA RetriesExist ==
    ASSUME NEW base, NEW N \in Nat
    PROVE  \E f : Retries(base, N, f)
<1> DEFINE T == {M \in Nat : ~\E f : Retries(base, M, f)}
<1>1. SUFFICES ASSUME T # {} PROVE FALSE
  OBVIOUS
<1>2. PICK M \in T : \A y \in T : M <= y
  <2>1. T \in SUBSET Nat
    OBVIOUS
  <2> QED
    BY <1>1, <2>1, SmallestNat
<1>3. M \in Nat /\ ~\E f : Retries(base, M, f)
  OBVIOUS
<1>4. CASE M = 0
  <2> DEFINE f == [k \in 0 .. 0 |-> base]
  <2>1. \A k \in 0 .. 0 : k = 0
    OBVIOUS
  <2>2. f = [k \in 0 .. 0 |-> IF k = 0 THEN base ELSE TruncateHead(f[k - 1])]
    BY <2>1, Zenon
  <2>3. Retries(base, 0, f)
    BY <2>2, Zenon DEF Retries
  <2> HIDE DEF f
  <2> QED
    BY <1>3, <1>4, <2>3
<1>5. CASE M # 0
  <2>1. M - 1 \in Nat /\ ~(M <= M - 1)
    BY <1>3, <1>5
  <2>2. M - 1 \notin T
    BY <1>2, <2>1
  <2>3. PICK g : Retries(base, M - 1, g)
    BY <2>1, <2>2, Zenon
  <2> DEFINE f == [k \in 0 .. M |-> IF k = M THEN TruncateHead(g[M - 1]) ELSE g[k]]
  <2>4. ASSUME NEW k \in 0 .. M
        PROVE  (IF k = M THEN TruncateHead(g[M - 1]) ELSE g[k])
                    = IF k = 0 THEN base ELSE TruncateHead(f[k - 1])
    <3>1. CASE k = 0
      <4>1. 0 # M /\ 0 \in 0 .. M - 1
        BY <1>3, <1>5
      <4>2. g[0] = base
        BY <2>3, <4>1 DEF Retries
      <4> QED
        BY <3>1, <4>1, <4>2, Zenon
    <3>2. CASE k # 0
      <4>1. k - 1 \in 0 .. M /\ k - 1 # M /\ k - 1 \in 0 .. M - 1
        BY <1>3, <3>2
      <4>2. f[k - 1] = g[k - 1]
        BY <4>1
      <4> HIDE DEF f
      <4>3. CASE k = M
        BY <3>2, <4>2, <4>3, Zenon
      <4>4. CASE k # M
        <5>1. k \in 0 .. M - 1
          BY <1>3, <4>4
        <5>2. g[k] = TruncateHead(g[k - 1])
          BY <2>3, <3>2, <5>1 DEF Retries
        <5> QED
          BY <3>2, <4>2, <4>4, <5>2, Zenon
      <4> QED
        BY <4>3, <4>4
    <3> QED
      BY <3>1, <3>2
  <2>5. f = [k \in 0 .. M |-> IF k = 0 THEN base ELSE TruncateHead(f[k - 1])]
    BY <2>4, Zenon
  <2>6. Retries(base, M, f)
    BY <2>5, Zenon DEF Retries
  <2> HIDE DEF f
  <2> QED
    BY <1>3, <2>6
<1> QED
  BY <1>4, <1>5

\* The requests to the summarizer, without the recursion.
LEMMA SummaryRequestIs ==
    ASSUME NEW s,
           NEW base, base = SubSeq(Recent(s), 1, Len(Recent(s)) - PreservedCount(Recent(s)))
    PROVE  /\ SummaryRequest(s)[0] = base
           /\ \A k \in 1 .. MaxPTLRetries :
                SummaryRequest(s)[k] = TruncateHead(SummaryRequest(s)[k - 1])
<1> DEFINE f == SummaryRequest(s)
<1>1. f = CHOOSE g : Retries(base, MaxPTLRetries, g)
  BY Zenon DEF SummaryRequest, Retries, Recent
<1>2. Retries(base, MaxPTLRetries, f)
  <2>1. \E g : Retries(base, MaxPTLRetries, g)
    BY RetriesExist, RetriesAssumption
  <2> HIDE DEF f
  <2> QED
    BY <1>1, <2>1, Zenon
<1> HIDE DEF f
<1>3. f[0] = base
  <2>1. 0 \in 0 .. MaxPTLRetries
    BY RetriesAssumption
  <2> QED
    BY <1>2, <2>1 DEF Retries
<1>4. ASSUME NEW k \in 1 .. MaxPTLRetries PROVE f[k] = TruncateHead(f[k - 1])
  <2>1. k \in 0 .. MaxPTLRetries /\ k # 0
    BY RetriesAssumption
  <2> QED
    BY <1>2, <2>1 DEF Retries
<1> QED
  BY <1>3, <1>4 DEF f

\* Each of them is well formed: the first that is not would follow one that is.
LEMMA SummaryRequestsOK ==
    ASSUME NEW n \in Nat, NEW s \in Seq(Message(n)), s # <<>>,
           s[1].kind \in {"prompt", "boundary"}, Paired(s)
    PROVE  \A k \in 0 .. MaxPTLRetries : WellFormed(SummaryRequest(s)[k])
<1> DEFINE base == SubSeq(Recent(s), 1, Len(Recent(s)) - PreservedCount(Recent(s)))
           f == SummaryRequest(s)
           Good(k) == f[k] \in Seq(Message(n)) /\ WellFormed(f[k])
           T == {k \in 0 .. MaxPTLRetries : ~Good(k)}
<1>1. f[0] = base /\ \A k \in 1 .. MaxPTLRetries : f[k] = TruncateHead(f[k - 1])
  BY SummaryRequestIs
<1>2. base \in Seq(Message(n)) /\ WellFormed(base)
  BY FirstRequestOK
<1> HIDE DEF base, f
<1>3. Good(0)
  BY <1>1, <1>2, Zenon
<1>4. SUFFICES ASSUME T # {} PROVE FALSE
  BY Zenon DEF f
<1>5. T \in SUBSET Nat
  OBVIOUS
<1>6. PICK k \in T : \A y \in T : k <= y
  BY <1>4, <1>5, SmallestNat
<1>7. k \in 0 .. MaxPTLRetries /\ ~Good(k)
  BY Zenon
<1>8. k # 0
  BY <1>3, <1>7, Zenon
<1>9. /\ k \in 1 .. MaxPTLRetries /\ k - 1 \in 0 .. MaxPTLRetries
      /\ ~(k <= k - 1)
  BY <1>7, <1>8, RetriesAssumption
<1>10. Good(k - 1)
  BY <1>6, <1>9, Zenon
<1>11. Good(k)
  <2>1. f[k] = TruncateHead(f[k - 1])
    BY <1>1, <1>9, Zenon
  <2> QED
    BY <1>10, <2>1, TruncateHeadOK
<1> QED
  BY <1>7, <1>11

-----------------------------------------------------------------------------
(* The length of a run. *)

\* No nudge is sent at or above this number of tokens.
TokenLimit == (9 * TokenBudget) \div 10

\* How many nudges may follow until the next tool round: every nudge beyond the
\* first DiminishingMinCount makes progress, or comes right after one that did.
NudgesLeft(t) ==
    (IF t.count < DiminishingMinCount THEN DiminishingMinCount - t.count ELSE 0)
        + 2 * ((TokenLimit - t.lastTokens) \div DiminishingThreshold)
        + (IF t.lastDelta >= DiminishingThreshold THEN 1 ELSE 0)

MaxNudges == DiminishingMinCount + 2 * (TokenLimit \div DiminishingThreshold)

\* The longest way from one tool round through the next.
Round == MaxContinuations + MaxNudges + 1

\* How many more replies keep the run going.
RepliesLeft ==
    (MaxToolIterations - toolLoops) * Round
        + (MaxContinuations - continuations) + NudgesLeft(tracker) + (MaxBlocks - blocked)

\* How many more steps the run can take: between two replies there are one
\* request, or two with a recovery between them.
StepsLeft ==
    IF pc \in {"done", "failed"} THEN 0
    ELSE 4 * RepliesLeft + (IF recovered THEN 0 ELSE 2) + (IF pc = "top" THEN 2 ELSE 1)

MaxReplies == (MaxToolIterations + 1) * Round + MaxBlocks

LEMMA DivOK ==
    ASSUME NEW a \in Nat, NEW b \in Nat, NEW d \in Nat, d > 0
    PROVE  /\ a \div d \in Nat
           /\ b <= a => b \div d <= a \div d
           /\ b + d <= a => b \div d + 1 <= a \div d
<1> DEFINE p == a \div d
           q == b \div d
<1>1. /\ p \in Nat /\ d * p <= a /\ a < d * p + d
      /\ q \in Nat /\ d * q <= b /\ b < d * q + d
  OBVIOUS
<1> HIDE DEF p, q
<1>2. \A x, y \in Nat : x <= y => d * x <= d * y
  OBVIOUS
<1>3. ASSUME b <= a, q > p PROVE FALSE
  <2>1. p + 1 \in Nat /\ p + 1 <= q
    BY <1>1, <1>3
  <2>2. d * (p + 1) <= d * q
    BY <1>1, <1>2, <2>1
  <2>3. d * (p + 1) = d * p + d
    BY <1>1
  <2>4. d * p \in Nat /\ d * q \in Nat
    BY <1>1
  <2> QED
    BY <1>1, <1>3, <2>2, <2>3, <2>4
<1>4. ASSUME b + d <= a, q >= p PROVE FALSE
  <2>1. d * p <= d * q
    BY <1>1, <1>2, <1>4
  <2>2. d * p \in Nat /\ d * q \in Nat
    BY <1>1
  <2> QED
    BY <1>1, <1>4, <2>1, <2>2
<1> QED
  BY <1>1, <1>3, <1>4 DEF p, q

LEMMA NudgesLeftOK ==
    ASSUME NEW t \in [count : Nat, lastDelta : Nat, lastTokens : Nat],
           t.lastTokens <= TokenLimit
    PROVE  NudgesLeft(t) \in Nat
<1>1. TokenLimit \in Nat
  BY Limits DEF TokenLimit
<1>2. TokenLimit - t.lastTokens \in Nat
  BY <1>1
<1>3. (TokenLimit - t.lastTokens) \div DiminishingThreshold \in Nat
  BY <1>2, Limits
<1> QED
  BY <1>3, Limits DEF NudgesLeft

LEMMA NewTrackerNudges ==
    NewBudgetTracker.lastTokens <= TokenLimit /\ NudgesLeft(NewBudgetTracker) = MaxNudges /\ MaxNudges \in Nat
<1>1. TokenLimit \in Nat /\ TokenLimit - 0 = TokenLimit
  BY Limits DEF TokenLimit
<1>2. TokenLimit \div DiminishingThreshold \in Nat
  BY <1>1, Limits
<1> DEFINE q == TokenLimit \div DiminishingThreshold
<1>3. MaxNudges = DiminishingMinCount + 2 * q
  BY DEF MaxNudges
<1>4. NewBudgetTracker.count = 0 /\ NewBudgetTracker.lastDelta = 0 /\ NewBudgetTracker.lastTokens = 0
  BY DEF NewBudgetTracker
<1>5. NudgesLeft(NewBudgetTracker) =
        (IF 0 < DiminishingMinCount THEN DiminishingMinCount - 0 ELSE 0)
            + 2 * q + (IF 0 >= DiminishingThreshold THEN 1 ELSE 0)
  BY <1>1, <1>4, Zenon DEF NudgesLeft
<1> HIDE DEF q
<1>6. q \in Nat
  BY <1>2 DEF q
<1> QED
  BY <1>1, <1>3, <1>4, <1>5, <1>6, Limits

\* A nudge uses one up.
LEMMA NudgeCounts ==
    ASSUME NEW t \in [count : Nat, lastDelta : Nat, lastTokens : Nat],
           t.lastTokens <= TokenLimit,
           NEW n \in Nat, t.lastTokens <= n, Nudges(t, n)
    PROVE  /\ Nudged(t, n).lastTokens <= TokenLimit
           /\ NudgesLeft(Nudged(t, n)) < NudgesLeft(t)
<1> DEFINE u == Nudged(t, n)
           d == DiminishingThreshold
           q == (TokenLimit - t.lastTokens) \div d
           r == (TokenLimit - n) \div d
           delta == n - t.lastTokens
<1>1. /\ u.count = t.count + 1 /\ u.lastDelta = delta /\ u.lastTokens = n
      /\ t.count \in Nat /\ t.lastDelta \in Nat /\ t.lastTokens \in Nat
  BY DEF Nudged
<1>2. n < TokenLimit /\ TokenLimit \in Nat
  BY Limits DEF Nudges, TokenLimit
<1>3. /\ TokenLimit - n \in Nat /\ TokenLimit - t.lastTokens \in Nat
      /\ TokenLimit - n <= TokenLimit - t.lastTokens
      /\ delta \in Nat
      /\ delta >= d => (TokenLimit - n) + d <= TokenLimit - t.lastTokens
  BY <1>1, <1>2, Limits
<1>4. q \in Nat /\ r \in Nat /\ r <= q /\ (delta >= d => r + 1 <= q)
  BY <1>3, Limits, DivOK
<1>5. t.count < DiminishingMinCount \/ delta >= d \/ t.lastDelta >= d
  BY <1>1, <1>3, Limits DEF Nudges, Diminishing
<1>6. NudgesLeft(t) = (IF t.count < DiminishingMinCount THEN DiminishingMinCount - t.count ELSE 0)
                          + 2 * q + (IF t.lastDelta >= d THEN 1 ELSE 0)
  BY DEF NudgesLeft
<1>7. NudgesLeft(u) = (IF t.count + 1 < DiminishingMinCount THEN DiminishingMinCount - (t.count + 1) ELSE 0)
                          + 2 * r + (IF delta >= d THEN 1 ELSE 0)
  BY <1>1, Zenon DEF NudgesLeft
<1> HIDE DEF u, q, r, delta
<1>8. NudgesLeft(u) < NudgesLeft(t)
  <2> DEFINE c == IF t.count < DiminishingMinCount THEN DiminishingMinCount - t.count ELSE 0
             e == IF t.count + 1 < DiminishingMinCount THEN DiminishingMinCount - (t.count + 1) ELSE 0
             f == IF t.lastDelta >= d THEN 1 ELSE 0
             g == IF delta >= d THEN 1 ELSE 0
  <2>1. c \in Nat /\ e \in Nat /\ e <= c /\ (t.count < DiminishingMinCount => e + 1 <= c)
    BY <1>1, Limits
  <2>2. f \in {0, 1} /\ g \in {0, 1} /\ (t.lastDelta >= d => f = 1)
        /\ (delta >= d => g = 1) /\ (~(delta >= d) => g = 0)
    OBVIOUS
  <2>3. NudgesLeft(t) = c + 2 * q + f /\ NudgesLeft(u) = e + 2 * r + g
    BY <1>6, <1>7
  <2> HIDE DEF c, e, f, g, d
  <2>4. CASE delta >= d
    BY <1>4, <2>1, <2>2, <2>3, <2>4
  <2>5. CASE ~(delta >= d)
    BY <1>4, <1>5, <2>1, <2>2, <2>3, <2>5
  <2> QED
    BY <2>4, <2>5
<1> QED
  BY <1>1, <1>2, <1>8 DEF u

\* The count of what was and what is still to come.
CountInv ==
    /\ IInv
    /\ tracker.lastTokens <= TokenLimit
    /\ replies <= MaxReplies
    /\ pc \in {"top", "sent"} => replies + RepliesLeft < MaxReplies

LEMMA RepliesLeftOK ==
    ASSUME Counters, tracker.lastTokens <= TokenLimit
    PROVE  RepliesLeft \in Nat /\ Round \in Nat /\ NudgesLeft(tracker) \in Nat
<1>1. NudgesLeft(tracker) \in Nat
  BY NudgesLeftOK DEF Counters
<1>2. Round \in Nat
  BY NewTrackerNudges, Limits DEF Round
<1>3. /\ MaxToolIterations - toolLoops \in Nat /\ MaxContinuations - continuations \in Nat
      /\ MaxBlocks - blocked \in Nat
  BY Limits DEF Counters
<1>4. (MaxToolIterations - toolLoops) * Round \in Nat
  BY <1>2, <1>3
<1> QED
  BY <1>1, <1>2, <1>3, <1>4 DEF RepliesLeft

LEMMA InitCount == Init => CountInv
<1> SUFFICES ASSUME Init PROVE CountInv
  OBVIOUS
<1>1. IInv /\ Counters
  BY InitOK, TypeParts DEF IInv
<1>2. tracker = NewBudgetTracker /\ toolLoops = 0 /\ continuations = 0 /\ blocked = 0 /\ replies = 0
  BY DEF Init
<1>3. tracker.lastTokens <= TokenLimit
  BY <1>2, NewTrackerNudges
<1>4. RepliesLeft = (MaxToolIterations - 0) * Round + (MaxContinuations - 0) + MaxNudges + (MaxBlocks - 0)
  BY <1>2, NewTrackerNudges, Zenon DEF RepliesLeft
<1>5. RepliesLeft \in Nat /\ Round \in Nat /\ MaxNudges \in Nat
  BY <1>1, <1>3, RepliesLeftOK, NewTrackerNudges
<1>6. (MaxToolIterations - 0) * Round = MaxToolIterations * Round
      /\ (MaxToolIterations + 1) * Round = MaxToolIterations * Round + Round
      /\ MaxToolIterations * Round \in Nat
  BY <1>5, Limits
<1>7. RepliesLeft < MaxReplies
  BY <1>4, <1>5, <1>6, Limits DEF MaxReplies, Round
<1>8. MaxReplies \in Nat
  BY <1>5, <1>6, Limits DEF MaxReplies
<1> QED
  BY <1>1, <1>2, <1>3, <1>5, <1>7, <1>8 DEF CountInv

LEMMA NextRepliesLeftOK ==
    ASSUME Counters', tracker'.lastTokens <= TokenLimit
    PROVE  RepliesLeft' \in Nat
<1>1. NudgesLeft(tracker') \in Nat
  BY NudgesLeftOK DEF Counters
<1>2. Round \in Nat
  BY NewTrackerNudges, Limits DEF Round
<1>3. /\ MaxToolIterations - toolLoops' \in Nat /\ MaxContinuations - continuations' \in Nat
      /\ MaxBlocks - blocked' \in Nat
  <2>1. toolLoops' \in 0 .. MaxToolIterations /\ continuations' \in 0 .. MaxContinuations
        /\ blocked' \in 0 .. MaxBlocks
    BY Zenon DEF Counters
  <2>2. \A m \in Nat : \A x \in 0 .. m : m - x \in Nat
    OBVIOUS
  <2> QED
    BY <2>1, <2>2, Limits, Zenon
<1>4. (MaxToolIterations - toolLoops') * Round \in Nat
  BY <1>2, <1>3
<1> QED
  BY <1>1, <1>2, <1>3, <1>4 DEF RepliesLeft

LEMMA StepsLeftOK == CountInv => RepliesLeft \in Nat /\ StepsLeft \in Nat
<1> SUFFICES ASSUME CountInv PROVE RepliesLeft \in Nat /\ StepsLeft \in Nat
  OBVIOUS
<1>1. RepliesLeft \in Nat
  BY RepliesLeftOK, TypeParts DEF CountInv, IInv
<1> QED
  BY <1>1 DEF StepsLeft

\* What a step does to the counts.
Counted == CountInv' /\ StepsLeft' < StepsLeft

\* A step that ends the run, with a reply or without.
LEMMA EndCounts ==
    ASSUME CountInv, IInv', pc \in {"top", "sent"}, pc' \in {"done", "failed"},
           tracker' = tracker, replies' \in {replies, replies + 1}
    PROVE  Counted
<1>1. RepliesLeft \in Nat /\ StepsLeft \in Nat
  BY StepsLeftOK
<1>2. replies \in Nat /\ recovered \in BOOLEAN
  BY TypeParts DEF CountInv, IInv, Counters
<1>3. MaxReplies \in Int
  BY NewTrackerNudges, Limits DEF MaxReplies, Round
<1>4. replies' <= MaxReplies
  BY <1>1, <1>2, <1>3 DEF CountInv
<1>5. StepsLeft' = 0
  BY DEF StepsLeft
<1>6. StepsLeft > 0
  BY <1>1 DEF StepsLeft
<1> QED
  BY <1>1, <1>4, <1>5, <1>6 DEF Counted, CountInv

\* A step between two replies.
LEMMA BetweenCounts ==
    ASSUME CountInv, IInv',
           \/ pc = "top" /\ pc' = "sent" /\ recovered' = recovered
           \/ pc = "sent" /\ pc' = "top" /\ ~recovered /\ recovered',
           UNCHANGED <<replies, toolLoops, continuations, tracker, blocked>>
    PROVE  Counted
<1>1. RepliesLeft \in Nat
  BY StepsLeftOK
<1>2. RepliesLeft' = RepliesLeft
  BY DEF RepliesLeft
<1>3. StepsLeft' < StepsLeft
  BY <1>1, <1>2 DEF StepsLeft
<1>4. CountInv'
  BY <1>2 DEF CountInv
<1> QED
  BY <1>3, <1>4 DEF Counted

\* A reply after which the run goes on.
LEMMA GoingOnCounts ==
    ASSUME CountInv, IInv', pc = "sent", pc' = "top", replies' = replies + 1, recovered' = FALSE,
           tracker'.lastTokens <= TokenLimit, RepliesLeft' < RepliesLeft
    PROVE  Counted
<1>1. RepliesLeft \in Nat /\ replies \in Nat /\ recovered \in BOOLEAN
  BY StepsLeftOK, TypeParts DEF CountInv, IInv, Counters
<1>2. RepliesLeft' \in Nat
  BY NextRepliesLeftOK, NextTypeParts DEF IInv
<1>3. MaxReplies \in Int
  BY NewTrackerNudges, Limits DEF MaxReplies, Round
<1>0. \A x, y, r, m \in Int : y < x /\ r + x < m /\ y >= 0 => (r + 1) + y < m /\ r + 1 <= m
  OBVIOUS
<1>4. replies' + RepliesLeft' < MaxReplies /\ replies' <= MaxReplies
  <2>1. replies + RepliesLeft < MaxReplies
    BY DEF CountInv
  <2>2. RepliesLeft \in Int /\ RepliesLeft' \in Int /\ RepliesLeft' >= 0 /\ replies \in Int
    BY <1>1, <1>2
  <2> QED
    BY <1>0, <1>3, <2>1, <2>2, Zenon
<1>5. StepsLeft = 4 * RepliesLeft + (IF recovered THEN 0 ELSE 2) + 1
  BY DEF StepsLeft
<1>6. StepsLeft' = 4 * RepliesLeft' + 2 + 2
  BY DEF StepsLeft
<1>7. StepsLeft' < StepsLeft
  <2>1. \A x, y \in Nat : y < x => 4 * y + 2 + 2 < 4 * x + 0 + 1 /\ 4 * y + 2 + 2 < 4 * x + 2 + 1
    OBVIOUS
  <2>2. StepsLeft \in {4 * RepliesLeft + 0 + 1, 4 * RepliesLeft + 2 + 1}
    BY <1>5, Zenon
  <2> QED
    BY <1>1, <1>2, <1>6, <2>1, <2>2, Zenon
<1> QED
  BY <1>4, <1>7 DEF Counted, CountInv

LEMMA ToolRoundCounts ==
    ASSUME CountInv, IInv', NEW m, ToolRound(m)
    PROVE  Counted
<1>1. /\ pc = "sent" /\ pc' = "top" /\ replies' = replies + 1 /\ recovered' = FALSE
      /\ toolLoops < MaxToolIterations /\ toolLoops' = toolLoops + 1 /\ continuations' = 0
      /\ tracker' = NewBudgetTracker /\ blocked' = blocked
  BY DEF ToolRound, Reply
<1>2. Counters /\ tracker.lastTokens <= TokenLimit
  BY TypeParts DEF CountInv, IInv
<1>3. tracker'.lastTokens <= TokenLimit /\ NudgesLeft(tracker') = MaxNudges /\ MaxNudges \in Nat
  BY <1>1, NewTrackerNudges
<1>4. Round \in Nat /\ NudgesLeft(tracker) \in Nat
  BY <1>2, RepliesLeftOK
<1> DEFINE a == (MaxToolIterations - toolLoops) * Round
           b == (MaxToolIterations - (toolLoops + 1)) * Round
<1>5. a \in Int /\ b \in Int /\ b = a - Round
  BY <1>2, <1>4, Limits DEF Counters
<1>6. RepliesLeft = a + (MaxContinuations - continuations) + NudgesLeft(tracker) + (MaxBlocks - blocked)
  BY DEF RepliesLeft
<1>7. RepliesLeft' = b + (MaxContinuations - 0) + MaxNudges + (MaxBlocks - blocked)
  BY <1>1, <1>3 DEF RepliesLeft
<1> HIDE DEF a, b
<1>8. RepliesLeft' < RepliesLeft
  BY <1>2, <1>3, <1>4, <1>5, <1>6, <1>7, Limits DEF Counters, Round
<1> QED
  BY <1>1, <1>3, <1>8, GoingOnCounts

\* A reply without tool calls that does not end the run counts down one of
\* three: continuations, nudges, stop hooks that block.
LEMMA AnsweredCounts ==
    ASSUME CountInv, IInv', NEW h, NEW n \in Lengths,
           Resume(h, n) \/ Nudge(h, n) \/ Block(h, n) \/ Finish(h, n)
    PROVE  Counted
<1>1. Counters /\ tracker.lastTokens <= TokenLimit /\ tracker.lastTokens <= tokens
  BY TypeParts DEF CountInv, IInv
<1> DEFINE a == (MaxToolIterations - toolLoops) * Round
<1>2. a \in Nat /\ NudgesLeft(tracker) \in Nat
  <2>1. Round \in Nat /\ NudgesLeft(tracker) \in Nat /\ MaxToolIterations - toolLoops \in Nat
    BY <1>1, RepliesLeftOK, Limits DEF Counters
  <2> QED
    BY <2>1
<1>3. RepliesLeft = a + (MaxContinuations - continuations) + NudgesLeft(tracker) + (MaxBlocks - blocked)
  BY DEF RepliesLeft
<1>4. toolLoops' = toolLoops =>
        RepliesLeft' = a + (MaxContinuations - continuations') + NudgesLeft(tracker') + (MaxBlocks - blocked')
  BY DEF RepliesLeft
<1> HIDE DEF a
<1>5. CASE Resume(h, n)
  <2>1. /\ pc = "sent" /\ pc' = "top" /\ replies' = replies + 1 /\ recovered' = FALSE
        /\ continuations' = continuations + 1
        /\ toolLoops' = toolLoops /\ tracker' = tracker /\ blocked' = blocked
    BY <1>5 DEF Resume, Reply
  <2>2. RepliesLeft' = a + (MaxContinuations - (continuations + 1)) + NudgesLeft(tracker) + (MaxBlocks - blocked)
    BY <1>4, <2>1, Zenon
  <2>3. RepliesLeft' < RepliesLeft
    BY <1>1, <1>2, <1>3, <2>2, Limits DEF Counters
  <2> QED
    BY <1>1, <2>1, <2>3, GoingOnCounts
<1>6. CASE Nudge(h, n)
  <2>1. /\ pc = "sent" /\ pc' = "top" /\ replies' = replies + 1 /\ recovered' = FALSE
        /\ Nudges(tracker, tokens + n) /\ tracker' = Nudged(tracker, tokens + n)
        /\ toolLoops' = toolLoops /\ continuations' = continuations /\ blocked' = blocked
    BY <1>6 DEF Nudge, Reply
  <2>2. tokens + n \in Nat /\ tracker.lastTokens <= tokens + n
    BY <1>1, Limits DEF Counters
  <2>3. /\ tracker'.lastTokens <= TokenLimit
        /\ NudgesLeft(tracker') < NudgesLeft(tracker)
    BY <1>1, <2>1, <2>2, NudgeCounts DEF Counters
  <2>4. NudgesLeft(tracker') \in Nat
    BY <2>3, NudgesLeftOK, NextTypeParts DEF IInv, Counters
  <2>5. RepliesLeft' = a + (MaxContinuations - continuations) + NudgesLeft(tracker') + (MaxBlocks - blocked)
    BY <1>4, <2>1, Zenon
  <2>6. RepliesLeft' < RepliesLeft
    BY <1>1, <1>2, <1>3, <2>3, <2>4, <2>5, Limits DEF Counters
  <2> QED
    BY <2>1, <2>3, <2>6, GoingOnCounts
<1>7. CASE Block(h, n)
  <2>1. /\ pc = "sent" /\ pc' = "top" /\ replies' = replies + 1 /\ recovered' = FALSE
        /\ blocked' = blocked + 1
        /\ toolLoops' = toolLoops /\ continuations' = continuations /\ tracker' = tracker
    BY <1>7 DEF Block, Reply
  <2>2. RepliesLeft' = a + (MaxContinuations - continuations) + NudgesLeft(tracker) + (MaxBlocks - (blocked + 1))
    BY <1>4, <2>1, Zenon
  <2>3. RepliesLeft' < RepliesLeft
    BY <1>1, <1>2, <1>3, <2>2, Limits DEF Counters
  <2> QED
    BY <1>1, <2>1, <2>3, GoingOnCounts
<1>8. CASE Finish(h, n)
  BY <1>8, EndCounts DEF Finish, Reply
<1> QED
  BY <1>5, <1>6, <1>7, <1>8

LEMMA NextCounts == CountInv /\ Next => Counted
<1> SUFFICES ASSUME CountInv, Next PROVE Counted
  OBVIOUS
<1>1. IInv'
  BY NextOK DEF CountInv, StepOK
<1>2. CASE AutoCompact \/ Send \/ Recover
  BY <1>1, <1>2, BetweenCounts DEF AutoCompact, Send, Recover
<1>3. CASE Fail
  BY <1>1, <1>3, EndCounts DEF Fail
<1>4. CASE \E m \in IF MediaResults THEN {"none", "media"} ELSE {"none"} : ToolRound(m)
  BY <1>1, <1>4, ToolRoundCounts
<1>5. CASE TooManyRounds
  BY <1>1, <1>5, EndCounts DEF TooManyRounds, Reply
<1>6. CASE Answered
  BY <1>1, <1>6, AnsweredCounts DEF Answered
<1> QED
  BY <1>2, <1>3, <1>4, <1>5, <1>6 DEF Next

LEMMA CountInvariance == Spec => []CountInv
<1>1. CountInv /\ [Next]_vars => CountInv'
  <2>1. CASE Next
    BY <2>1, NextCounts DEF Counted
  <2>2. ASSUME CountInv, UNCHANGED vars PROVE CountInv'
    <3>1. IInv'
      BY <2>2, StutterOK DEF CountInv, StepOK
    <3>2. RepliesLeft' = RepliesLeft /\ UNCHANGED <<pc, replies, tracker>>
      BY <2>2 DEF vars, RepliesLeft
    <3>3. /\ tracker'.lastTokens <= TokenLimit
          /\ replies' <= MaxReplies
          /\ pc' \in {"top", "sent"} => replies' + RepliesLeft' < MaxReplies
      BY <2>2, <3>2, Zenon DEF CountInv
    <3> QED
      BY <3>1, <3>3, Zenon DEF CountInv
  <2> QED
    BY <2>1, <2>2
<1> QED
  BY InitCount, <1>1, PTL DEF Spec

-----------------------------------------------------------------------------
(* The theorems. *)

\* The locals of runLoop keep their types, its counters stay within their
\* limits, and messages belong to replies that were received.
THEOREM TypeCorrect == Spec => []TypeOK
<1>1. IInv => TypeOK
  BY DEF IInv
<1> QED
  BY Invariance, <1>1, PTL

\* No request leaves a tool call unanswered; it begins with the user's message
\* and ends with one unless a stop hook has blocked.
THEOREM RequestsAnswerable == Spec => []RequestAnswerable
<1>1. ASSUME IInv, pc = "sent"
      PROVE  /\ CallsHaveResults(Request)
             /\ ~FromAssistant(Request[1])
             /\ FromAssistant(Last(Request)) => blocked > 0
  <2>1. /\ Counters /\ history \in Seq(Message(replies)) /\ history # <<>>
        /\ history[1].kind \in {"prompt", "boundary"}
        /\ CallsHaveResults(history)
        /\ transient = "none" /\ blocked = 0 => ~FromAssistant(Last(history))
    BY <1>1, TypeParts DEF IInv, BeginsWithUser, Answerable
  <2>2. Len(history) \in Nat /\ Len(history) >= 1 /\ DOMAIN history = 1 .. Len(history)
    BY <2>1, EmptySeq, LenProperties
  <2>3. ~FromAssistant(history[1])
    BY <2>1 DEF FromAssistant
  <2>4. CASE transient = "none"
    <3>1. blocked = 0 \/ blocked > 0
      BY <2>1 DEF Counters
    <3> QED
      BY <2>1, <2>3, <2>4, <3>1, Zenon DEF Request
  <2>5. CASE transient # "none"
    <3> DEFINE x == Msg("prompt", 0, "none")
               r == Append(history, x)
    <3>1. x \in Message(replies) /\ x.kind = "prompt"
      BY <2>1 DEF Msg, Message, Kind, Media, Counters
    <3> HIDE DEF x
    <3>2. /\ r \in Seq(Message(replies)) /\ Len(r) = Len(history) + 1
          /\ \A i \in 1 .. Len(history) : r[i] = history[i]
          /\ r[Len(history) + 1] = x
      BY <2>1, <3>1, AppendProperties
    <3> HIDE DEF r
    <3>3. DOMAIN r = 1 .. Len(history) + 1 /\ Last(r) = x /\ r[1] = history[1]
      BY <2>2, <3>2, LenProperties DEF Last
    <3>4. ASSUME NEW i \in 1 .. Len(history) + 1, r[i].kind = "calls"
          PROVE  i < Len(r) /\ r[i + 1].kind = "results" /\ r[i + 1].reply = r[i].reply
      <4>1. i \in 1 .. Len(history)
        BY <2>2, <3>1, <3>2, <3>4
      <4>2. i < Len(history) /\ history[i + 1].kind = "results" /\ history[i + 1].reply = history[i].reply
        BY <2>1, <2>2, <3>2, <3>4, <4>1 DEF CallsHaveResults
      <4>3. i + 1 \in 1 .. Len(history)
        BY <2>2, <4>1, <4>2
      <4> QED
        BY <2>2, <3>2, <4>1, <4>2, <4>3
    <3>5. CallsHaveResults(r)
      BY <3>3, <3>4 DEF CallsHaveResults
    <3>6. ~FromAssistant(Last(r)) /\ ~FromAssistant(r[1])
      BY <2>3, <3>1, <3>3 DEF FromAssistant
    <3>7. Request = r
      BY <2>5 DEF Request, r, x
    <3> QED
      BY <3>5, <3>6, <3>7, Zenon
  <2> QED
    BY <2>4, <2>5
<1>2. IInv => RequestAnswerable
  BY <1>1 DEF RequestAnswerable
<1> QED
  BY Invariance, <1>2, PTL

\* Calls and results come apart, or are repeated, only when a continuation is
\* recovered, in a run that goes on or finishes.
THEOREM OnlyRecoveryUnpairsHolds == Spec => OnlyRecoveryUnpairs
<1>1. IInv /\ [Next]_vars => UnpairsOnlyInRecovery
  BY NextOK DEF StepOK
<1> QED
  BY Invariance, <1>1, PTL DEF Spec, OnlyRecoveryUnpairs, UnpairsOnlyInRecovery

\* No compaction, automatic or in an emergency, puts another message behind the
\* one that is being continued.
THEOREM CutOffKeptHolds == Spec => CutOffKept
<1>1. IInv /\ [Next]_vars => KeepsCutOff
  BY NextOK DEF StepOK
<1> QED
  BY Invariance, <1>1, PTL DEF Spec, CutOffKept, KeepsCutOff

\* As long as calls and results are paired the summarizer is sent well-formed
\* messages, however often its request is cut.
THEOREM SummaryRequestsHold == Spec => []SummaryRequestsPaired
<1>1. ASSUME IInv, pc = "sent", Paired(history)
      PROVE  \A k \in 0 .. MaxPTLRetries : WellFormed(SummaryRequest(history)[k])
  <2>1. /\ replies \in Nat /\ history \in Seq(Message(replies)) /\ history # <<>>
        /\ history[1].kind \in {"prompt", "boundary"}
    BY <1>1, TypeParts DEF IInv, BeginsWithUser, Counters
  <2> QED
    BY <1>1, <2>1, SummaryRequestsOK
<1>2. IInv => SummaryRequestsPaired
  BY <1>1, Zenon DEF SummaryRequestsPaired, WellFormed
<1> QED
  BY Invariance, <1>2, PTL

\* runLoop makes a bounded number of model calls: a token budget adds nudges to
\* every tool round, and no more of them than MaxNudges.
THEOREM CallsBounded == Spec => [](replies <= MaxReplies)
<1>1. CountInv => replies <= MaxReplies
  BY DEF CountInv
<1> QED
  BY CountInvariance, <1>1, PTL

Shrinks == StepsLeft' < StepsLeft

\* Every step of runLoop leaves fewer steps to be taken, whatever the model
\* answers and however often it rejects the prompt: only standing still can
\* keep a run from its end.
THEOREM RunShrinks == Spec => [](StepsLeft \in Nat) /\ [][Shrinks]_vars
<1>1. CountInv => StepsLeft \in Nat
  BY StepsLeftOK
<1>2. CountInv /\ [Next]_vars => [Shrinks]_vars
  BY NextCounts DEF Counted, Shrinks
<1> QED
  BY CountInvariance, <1>1, <1>2, PTL DEF Spec
=============================================================================
