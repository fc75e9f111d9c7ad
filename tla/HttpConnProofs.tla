--------------------------- MODULE HttpConnProofs ---------------------------
(***************************************************************************)
(* Proofs about HttpConn: its types, the framing of the answers, and that  *)
(* it finds the requests of every stream of its client, in whatever pieces *)
(* the stream arrives.                                                     *)
(***************************************************************************)
EXTENDS HttpStream, Integers, FiniteSetTheorems, TLAPS

(* Induction: every non-empty set of naturals has a least element. *)

LEMMA Least == ASSUME NEW S, S \subseteq Nat, S # {} PROVE \E n \in S : \A m \in S : n <= m
<1> DEFINE T == { 0 .. n : n \in S }
<1>1. IsWellFoundedOn(StrictSubsetOrdering(Nat), FiniteSubsetsOf(Nat))
    BY FS_StrictSubsetOrderingWellFounded
<1>2. T \subseteq FiniteSubsetsOf(Nat) /\ T # {}
    <2>1. \A n \in Nat : 0 .. n \subseteq Nat /\ IsFiniteSet(0 .. n)
        BY FS_Interval
    <2>. QED BY <2>1 DEF FiniteSubsetsOf
<1>3. PICK x \in T : \A y \in T : <<y, x>> \notin StrictSubsetOrdering(Nat)
    <2> HIDE DEF T
    <2>. QED BY <1>1, <1>2, WFMin
<1>4. PICK n \in S : x = 0 .. n
    OBVIOUS
<1>5. ASSUME NEW m \in S, m < n PROVE FALSE
    <2>1. 0 .. m \in T
        OBVIOUS
    <2>2. 0 .. m \subseteq 0 .. n /\ 0 .. m # 0 .. n
        BY <1>5
    <2>3. <<0 .. m, 0 .. n>> \in StrictSubsetOrdering(Nat)
        BY <1>4, <2>2 DEF StrictSubsetOrdering
    <2>. QED BY <1>3, <1>4, <2>1, <2>3
<1>. QED BY <1>5

LEMMA MinFacts ==
    ASSUME NEW S, S \subseteq Nat, S # {}
    PROVE  Min(S) \in S /\ \A n \in S : Min(S) <= n
BY Least DEF Min

LEMMA MaxFacts ==
    ASSUME NEW S, NEW b \in Nat, S \subseteq 0 .. b, S # {}
    PROVE  Max(S) \in S /\ \A n \in S : n <= Max(S)
<1> DEFINE D == { b - n : n \in S }
<1>1. \A n \in S : n \in Nat /\ b - n \in Nat
    OBVIOUS
<1>2. D \subseteq Nat /\ D # {}
    BY <1>1
<1>3. PICK d \in D : \A m \in D : d <= m
    <2> HIDE DEF D
    <2>. QED BY <1>2, Least
<1>4. PICK x \in S : d = b - x
    OBVIOUS
<1>5. ASSUME NEW n \in S PROVE n <= x
    <2>1. b - x <= b - n
        BY <1>3, <1>4
    <2>. QED BY <1>1, <2>1
<1>. QED BY <1>5 DEF Max

\* The same as equations.
LEMMA MinIs ==
    ASSUME NEW S, S \subseteq Nat, NEW n \in S, \A m \in S : n <= m
    PROVE  Min(S) = n
<1>1. Min(S) \in S /\ \A m \in S : Min(S) <= m
    BY MinFacts
<1>2. Min(S) \in Nat /\ n \in Nat /\ Min(S) <= n /\ n <= Min(S)
    BY <1>1
<1>. QED BY <1>2

LEMMA MaxIs ==
    ASSUME NEW S, NEW b \in Nat, S \subseteq 0 .. b, NEW n \in S, \A m \in S : m <= n
    PROVE  Max(S) = n
<1>1. Max(S) \in S /\ \A m \in S : m <= Max(S)
    BY MaxFacts
<1>2. Max(S) \in Nat /\ n \in Nat /\ Max(S) <= n /\ n <= Max(S)
    <2>1. S \subseteq Nat
        OBVIOUS
    <2>. QED BY <1>1, <2>1
<1>. QED BY <1>2
-----------------------------------------------------------------------------
(* Lines of a stream *)

LEMMA Pieces ==
    ASSUME NEW S, NEW s \in Seq(S), NEW a \in Nat, NEW b \in Nat, a <= b, b <= Len(s)
    PROVE  /\ SubSeq(s, a + 1, b) \in Seq(S) /\ Len(SubSeq(s, a + 1, b)) = b - a
           /\ \A j \in 1 .. b - a : SubSeq(s, a + 1, b)[j] = s[a + j]
<1>1. Len(s) \in Nat
    OBVIOUS
<1>2. SubSeq(s, a + 1, b) = [j \in 1 .. b - a |-> s[a + j]]
    BY <1>1
<1>3. \A j \in 1 .. b - a : s[a + j] \in S
    BY <1>1
<1>. QED BY <1>1, <1>2, <1>3

LEMMA Joined ==
    ASSUME NEW S, NEW s \in Seq(S), NEW t \in Seq(S)
    PROVE  /\ s \o t \in Seq(S) /\ Len(s \o t) = Len(s) + Len(t)
           /\ \A j \in 1 .. Len(s) : (s \o t)[j] = s[j]
           /\ \A j \in 1 .. Len(t) : (s \o t)[Len(s) + j] = t[j]
<1>1. Len(s) \in Nat /\ Len(t) \in Nat
    OBVIOUS
<1>. QED BY <1>1

LEMMA Behead ==
    ASSUME NEW S, NEW t \in Seq(S), NEW n \in Nat, n <= Len(t),
           NEW y, y = SubSeq(t, n + 1, Len(t)), NEW m \in Nat, m = Len(t) - n
    PROVE  y \in Seq(S) /\ Len(y) = m /\ \A j \in 1 .. m : y[j] = t[n + j]
<1>1. Len(t) \in Nat /\ Len(t) <= Len(t)
    OBVIOUS
<1>. QED BY <1>1, Pieces

LEMMA Concat ==
    ASSUME NEW S, NEW s \in Seq(S), NEW t \in Seq(S), NEW u, u = s \o t
    PROVE  /\ u \in Seq(S) /\ Len(u) = Len(s) + Len(t)
           /\ \A j \in 1 .. Len(s) : u[j] = s[j]
           /\ \A j \in 1 .. Len(t) : u[Len(s) + j] = t[j]
BY Joined

\* Stream s is the beginning of stream t.
Begins(s, t) == Len(s) <= Len(t) /\ \A j \in 1 .. Len(s) : t[j] = s[j]

LEMMA EndsFacts ==
    ASSUME NEW s \in Seq(Token), NEW i
    PROVE  /\ Ends(s, i) \subseteq 2 .. Len(s) /\ Ends(s, i) \subseteq Nat
           /\ \A n \in Ends(s, i) : i < n /\ s[n - 1] = "CR" /\ s[n] = "LF"
           /\ Deciding(s, i) \subseteq Ends(s, i)
BY DEF Ends, LineEnds, Deciding

\* A line begins where the line before it ends, or at the request.
LEMMA LineStartIs ==
    ASSUME NEW s \in Seq(Token), NEW i \in Nat, NEW n \in Ends(s, i), NEW p,
           p = i \/ p \in Ends(s, i), p < n, \A m \in Ends(s, i) : m <= p \/ n <= m
    PROVE  LineStart(s, i, n) = p
<1> DEFINE S == {i} \cup { m \in Ends(s, i) : m < n }
<1>1. n \in Nat /\ Ends(s, i) \subseteq Nat /\ \A m \in Ends(s, i) : i < m
    BY EndsFacts
<1>2. S \subseteq 0 .. n /\ p \in S /\ \A m \in S : m <= p
    BY <1>1
<1>3. Max(S) = p
    <2> HIDE DEF S
    <2>. QED BY <1>1, <1>2, MaxIs
<1>. QED BY <1>3 DEF LineStart

LEMMA LineStartFacts ==
    ASSUME NEW s \in Seq(Token), NEW i \in Nat, NEW n \in Ends(s, i)
    PROVE  LineStart(s, i, n) \in Nat /\ LineStart(s, i, n) < n
<1> DEFINE S == {i} \cup { m \in Ends(s, i) : m < n }
<1>1. n \in Nat /\ Ends(s, i) \subseteq Nat /\ \A m \in Ends(s, i) : i < m
    BY EndsFacts
<1>2. S \subseteq 0 .. n /\ S # {} /\ \A m \in S : m < n
    BY <1>1
<1>3. Max(S) \in S
    <2> HIDE DEF S
    <2>. QED BY <1>1, <1>2, MaxFacts
<1>. QED BY <1>1, <1>2, <1>3 DEF LineStart

\* Where a C string ends.
LEMMA CStringIs ==
    ASSUME NEW l \in Seq(Token), NEW k \in 0 .. Len(l),
           k < Len(l) => l[k + 1] = "NUL", \A j \in 1 .. k : l[j] # "NUL"
    PROVE  CString(l) = SubSeq(l, 1, k)
<1> DEFINE S == { j - 1 : j \in { j \in DOMAIN l : l[j] = "NUL" } } \cup {Len(l)}
<1>1. S \subseteq Nat /\ k \in S /\ \A m \in S : k <= m
    <2>1. k \in S
        <3>1. CASE k = Len(l)
            BY <3>1
        <3>2. CASE k < Len(l)
            <4>1. k + 1 \in DOMAIN l /\ l[k + 1] = "NUL" /\ k = (k + 1) - 1
                BY <3>2
            <4>. QED BY <4>1
        <3>. QED BY <3>1, <3>2
    <2>2. ASSUME NEW j \in DOMAIN l, l[j] = "NUL" PROVE j - 1 \in Nat /\ k <= j - 1
        BY <2>2
    <2>. QED BY <2>1, <2>2
<1>2. Min(S) = k
    <2> HIDE DEF S
    <2>. QED BY <1>1, MinIs
<1>. QED BY <1>2 DEF CString

\* What is known of a line stays true when more arrives.
LEMMA LineStable ==
    ASSUME NEW s \in Seq(Token), NEW t \in Seq(Token), Begins(s, t),
           NEW i \in Nat, NEW n \in Ends(s, i)
    PROVE  /\ n \in Ends(t, i)
           /\ \A m \in Nat : m <= n => (m \in Ends(s, i) <=> m \in Ends(t, i))
           /\ Line(t, i, n) = Line(s, i, n)
<1>1. n \in Nat /\ n <= Len(s) /\ n >= 2
    BY EndsFacts
<1>2. ASSUME NEW m \in Nat, m <= n PROVE m \in Ends(s, i) <=> m \in Ends(t, i)
    <2>1. m >= 2 => t[m] = s[m] /\ t[m - 1] = s[m - 1]
        BY <1>1, <1>2 DEF Begins
    <2>. QED BY <1>1, <1>2, <2>1 DEF Ends, LineEnds, Begins
<1>3. { m \in Ends(t, i) : m < n } = { m \in Ends(s, i) : m < n }
    BY <1>1, <1>2, EndsFacts
<1>4. LineStart(t, i, n) = LineStart(s, i, n)
    BY <1>3 DEF LineStart
<1>5. ASSUME NEW a \in Nat PROVE SubSeq(t, a + 1, n - 2) = SubSeq(s, a + 1, n - 2)
    <2>1. \A j \in 1 .. n - 2 : t[j] = s[j]
        BY <1>1 DEF Begins
    <2>. QED BY <1>1, <2>1 DEF Begins
<1>6. LineStart(s, i, n) \in Nat
    BY LineStartFacts
<1>7. Line(t, i, n) = Line(s, i, n)
    BY <1>4, <1>5, <1>6 DEF Line
<1>. QED BY <1>1, <1>2, <1>7

\* The decision about a request stays, too.
LEMMA HeadStable ==
    ASSUME NEW s \in Seq(Token), NEW t \in Seq(Token), Begins(s, t),
           NEW i \in Nat, NEW n \in Ends(s, i)
    PROVE  /\ Min(Ends(t, i)) = Min(Ends(s, i))
           /\ RequestLine(t, i) = RequestLine(s, i)
           /\ \A name : Has(t, i, n, name) <=> Has(s, i, n, name)
           /\ Wrong(t, i, n) <=> Wrong(s, i, n)
           /\ n \in Deciding(t, i) <=> n \in Deciding(s, i)
<1>1. PICK f : f = Min(Ends(s, i))
    OBVIOUS
<1>2. f \in Ends(s, i) /\ \A m \in Ends(s, i) : f <= m
    BY <1>1, EndsFacts, MinFacts
<1>3. f \in Nat /\ n \in Nat /\ Ends(t, i) \subseteq Nat /\ Ends(s, i) \subseteq Nat
    BY <1>2, EndsFacts
<1>4. f \in Ends(t, i) /\ \A m \in Ends(t, i) : f <= m
    <2>1. f \in Ends(t, i)
        BY <1>2, LineStable
    <2>2. ASSUME NEW m \in Ends(t, i), m < f PROVE FALSE
        BY <1>2, <1>3, <2>2, LineStable
    <2>. QED BY <1>3, <2>1, <2>2
<1>5. Min(Ends(t, i)) = f
    BY <1>3, <1>4, MinIs
<1>6. RequestLine(t, i) = RequestLine(s, i)
    BY <1>1, <1>2, <1>5, LineStable DEF RequestLine
<1>7. ASSUME NEW name PROVE Has(t, i, n, name) <=> Has(s, i, n, name)
    <2>1. ASSUME NEW m, m < n PROVE m \in Ends(t, i) <=> m \in Ends(s, i)
        BY <1>3, <2>1, LineStable
    <2>2. \A m \in Ends(s, i) : Line(t, i, m) = Line(s, i, m)
        BY LineStable
    <2>. QED BY <2>1, <2>2 DEF Has
<1>8. n \in Ends(t, i) /\ Line(t, i, n) = Line(s, i, n)
    BY LineStable
<1>9. Wrong(t, i, n) <=> Wrong(s, i, n)
    BY <1>1, <1>5, <1>6, <1>7, <1>8 DEF Wrong
<1>. QED BY <1>1, <1>5, <1>6, <1>7, <1>8, <1>9 DEF Deciding

LEMMA CompleteStable ==
    ASSUME NEW s \in Seq(Token), NEW t \in Seq(Token), Begins(s, t),
           NEW i \in Nat, Complete(s, i)
    PROVE  Complete(t, i) /\ RequestAfter(t, i) = RequestAfter(s, i)
<1>1. PICK n : n = Min(Deciding(s, i))
    OBVIOUS
<1>2. n \in Deciding(s, i) /\ \A m \in Deciding(s, i) : n <= m
    <2>1. Deciding(s, i) \subseteq Nat /\ Deciding(s, i) # {}
        BY EndsFacts DEF Complete
    <2>. QED BY <1>1, <2>1, MinFacts
<1>3. n \in Ends(s, i) /\ n \in Nat /\ n <= Len(s) /\ s[n] = "LF" /\ s[n - 1] = "CR" /\ n >= 2
    BY <1>2, EndsFacts
<1>4. n \in Deciding(t, i) /\ \A m \in Deciding(t, i) : n <= m
    <2>1. n \in Deciding(t, i)
        BY <1>2, <1>3, HeadStable
    <2>2. ASSUME NEW m \in Deciding(t, i), m < n PROVE FALSE
        <3>1. m \in Ends(t, i) /\ m \in Nat
            BY EndsFacts
        <3>2. m \in Ends(s, i)
            BY <1>3, <2>2, <3>1, LineStable
        <3>3. m \in Deciding(s, i)
            BY <3>2, HeadStable
        <3>. QED BY <1>2, <1>3, <2>2, <3>1, <3>3
    <2>3. Deciding(t, i) \subseteq Nat
        BY EndsFacts
    <2>. QED BY <1>3, <2>1, <2>2, <2>3
<1>5. Min(Deciding(t, i)) = n
    BY <1>4, EndsFacts, MinIs
<1>6. ASSUME NEW m \in Strays(t), i < m, m <= n PROVE FALSE
    <2>1. m \in Nat \ {0} /\ m # n
        BY <1>3 DEF Strays, Begins
    <2>2. m < n /\ m + 1 <= Len(s) /\ t[m] = s[m] /\ t[m + 1] = s[m + 1]
        BY <1>3, <1>6, <2>1 DEF Begins
    <2>3. m # 1 => t[m - 1] = s[m - 1]
        BY <1>3, <2>1, <2>2 DEF Begins
    <2>4. m \in Strays(s)
        BY <2>1, <2>2, <2>3 DEF Strays
    <2>. QED BY <1>1, <1>3, <1>6, <2>1, <2>4 DEF Complete
<1>7. /\ Wrong(t, i, n) <=> Wrong(s, i, n)
      /\ RequestLine(t, i) = RequestLine(s, i)
      /\ BodyLen(t, i, n) = BodyLen(s, i, n)
    BY <1>3, HeadStable DEF BodyLen
<1>8. RequestAfter(t, i) = RequestAfter(s, i)
    BY <1>1, <1>5, <1>7 DEF RequestAfter
<1>9. Complete(t, i)
    <2>1. Wrong(s, i, n) \/ n + BodyLen(s, i, n) <= Len(t)
        BY <1>1, <1>3 DEF Complete, BodyLen, Begins
    <2>2. ASSUME NEW m \in Strays(t) PROVE m <= i \/ n < m
        <3>1. m \in Nat
            BY DEF Strays
        <3>. QED BY <1>3, <1>6, <3>1
    <2>. QED BY <1>4, <1>5, <1>7, <2>1, <2>2 DEF Complete
<1>. QED BY <1>8, <1>9
-----------------------------------------------------------------------------
(* The requests of a stream *)

LEMMA RequestEnds ==
    ASSUME NEW s \in Seq(Token), NEW i \in Nat, Complete(s, i)
    PROVE  /\ RequestAfter(s, i).to \in Nat
           /\ i < RequestAfter(s, i).to /\ RequestAfter(s, i).to <= Len(s)
<1>1. PICK n : n = Min(Deciding(s, i))
    OBVIOUS
<1>2. n \in Deciding(s, i)
    <2>1. Deciding(s, i) \subseteq Nat /\ Deciding(s, i) # {}
        BY EndsFacts DEF Complete
    <2>. QED BY <1>1, <2>1, MinFacts
<1>3. n \in Nat /\ i < n /\ n <= Len(s)
    BY <1>2, EndsFacts
<1>4. BodyLen(s, i, n) \in {0, 2}
    BY DEF BodyLen
<1>. QED BY <1>1, <1>3, <1>4 DEF RequestAfter, Complete

\* The equation of the recursive function in Parsed.
Rest(s, f, i) ==
    IF ~Complete(s, i) THEN <<>>
    ELSE IF RequestAfter(s, i).ret = "BadRequest" THEN <<RequestAfter(s, i)>>
    ELSE <<RequestAfter(s, i)>> \o f[RequestAfter(s, i).to]
From(s) == CHOOSE f : f = [i \in 0 .. Len(s) |-> Rest(s, f, i)]

LEMMA ParsedFrom == \A s : Parsed(s) = From(s)[0]
BY DEF Parsed, From, Rest

\* There is a function that satisfies it on the last n positions of s, for
\* every n: the requests after a position are found behind it.
LEMMA FromExists ==
    ASSUME NEW s \in Seq(Token)
    PROVE  \E f : f = [i \in 0 .. Len(s) |-> Rest(s, f, i)]
<1> DEFINE L == Len(s)
           Solves(n) == \E f : f = [i \in L + 1 - n .. L |-> Rest(s, f, i)]
           Bad == { n \in 0 .. L + 1 : ~Solves(n) }
<1>1. L \in Nat
    OBVIOUS
<1>2. CASE Bad = {}
    <2>1. Solves(L + 1)
        BY <1>1, <1>2
    <2>2. L + 1 - (L + 1) = 0
        BY <1>1
    <2>. QED BY <2>1, <2>2
<1>3. CASE Bad # {}
    <2>1. PICK n \in Bad : \A m \in Bad : n <= m
        <3>1. Bad \subseteq Nat
            BY <1>1
        <3> HIDE DEF Bad
        <3>. QED BY <1>3, <3>1, Least
    <2>2. n \in 0 .. L + 1 /\ ~Solves(n)
        OBVIOUS
    <2>3. CASE n = 0
        <3>1. L + 1 - n .. L = {}
            BY <1>1, <2>3
        <3> DEFINE f == [i \in {} |-> 0]
        <3>2. f = [i \in L + 1 - n .. L |-> Rest(s, f, i)]
            BY <3>1
        <3>. QED BY <2>2, <3>2
    <2>4. CASE n # 0
        <3> DEFINE b == L + 1 - n
        <3>1. n - 1 \in 0 .. L + 1 /\ n - 1 < n /\ b \in Nat /\ b <= L
              /\ L + 1 - (n - 1) = b + 1
            BY <1>1, <2>2, <2>4
        <3>2. Solves(n - 1)
            <4>1. n - 1 \notin Bad
                <5> HIDE DEF Bad
                <5>. QED BY <1>1, <2>1, <2>2, <3>1
            <4> HIDE DEF Solves
            <4>. QED BY <3>1, <4>1
        <3>3. PICK f : f = [i \in b + 1 .. L |-> Rest(s, f, i)]
            BY <3>1, <3>2
        <3> DEFINE g == [i \in b .. L |-> IF i = b THEN Rest(s, f, b) ELSE f[i]]
        <3>4. ASSUME NEW i \in b .. L PROVE g[i] = Rest(s, g, i)
            <4>1. Complete(s, i) => /\ RequestAfter(s, i).to \in b + 1 .. L
                                    /\ RequestAfter(s, i).to \in b .. L
                                    /\ RequestAfter(s, i).to # b
                BY <1>1, <3>1, RequestEnds
            <4>2. Complete(s, i) => g[RequestAfter(s, i).to] = f[RequestAfter(s, i).to]
                BY <4>1
            <4> HIDE DEF g
            <4>3. Rest(s, g, i) = Rest(s, f, i)
                BY <4>2 DEF Rest
            <4>4. i # b => f[i] = Rest(s, f, i)
                <5>1. i # b => i \in b + 1 .. L
                    BY <3>1
                <5>. QED BY <3>3, <5>1
            <4>. QED BY <4>3, <4>4 DEF g
        <3>5. g = [i \in b .. L |-> Rest(s, g, i)]
            BY <3>4
        <3>6. Solves(n)
            BY <3>5
        <3>. QED BY <2>2, <3>6
    <2>. QED BY <2>3, <2>4
<1>. QED BY <1>2, <1>3

LEMMA FromDef ==
    ASSUME NEW s \in Seq(Token)
    PROVE  From(s) = [i \in 0 .. Len(s) |-> Rest(s, From(s), i)]
BY FromExists DEF From

LEMMA FromType ==
    ASSUME NEW s \in Seq(Token), NEW i \in 0 .. Len(s)
    PROVE  From(s)[i] \in Seq({ RequestAfter(s, k) : k \in 0 .. Len(s) })
<1> DEFINE L == Len(s)
           R == { RequestAfter(s, k) : k \in 0 .. L }
           Bad == { n \in 0 .. L : From(s)[L - n] \notin Seq(R) }
<1>1. L \in Nat /\ L - i \in 0 .. L /\ L - (L - i) = i
    OBVIOUS
<1>2. CASE Bad = {}
    BY <1>1, <1>2
<1>3. CASE Bad # {}
    <2>1. PICK n \in Bad : \A m \in Bad : n <= m
        <3>1. Bad \subseteq Nat
            BY <1>1
        <3> HIDE DEF Bad
        <3>. QED BY <1>3, <3>1, Least
    <2>2. n \in 0 .. L /\ From(s)[L - n] \notin Seq(R)
        OBVIOUS
    <2>3. PICK k : k = L - n
        OBVIOUS
    <2>4. k \in 0 .. L /\ k \in Nat
        BY <1>1, <2>2, <2>3
    <2>5. From(s)[k] = Rest(s, From(s), k)
        BY <2>4, FromDef
    <2>6. PICK r : r = RequestAfter(s, k)
        OBVIOUS
    <2>7. r \in R
        BY <2>4, <2>6
    <2>8. Complete(s, k) => From(s)[r.to] \in Seq(R)
        <3>1. SUFFICES ASSUME Complete(s, k) PROVE From(s)[r.to] \in Seq(R)
            OBVIOUS
        <3>2. r.to \in Nat /\ k < r.to /\ r.to <= L
            BY <2>4, <2>6, <3>1, RequestEnds
        <3>3. L - r.to \in 0 .. L /\ L - r.to < n /\ L - (L - r.to) = r.to
            BY <1>1, <2>2, <2>3, <2>4, <3>2
        <3>4. L - r.to \notin Bad
            BY <2>1, <2>2, <3>3
        <3>. QED BY <3>3, <3>4
    <2> HIDE DEF R
    <2>9. Rest(s, From(s), k) \in Seq(R)
        BY <2>6, <2>7, <2>8 DEF Rest
    <2>. QED BY <2>2, <2>3, <2>5, <2>9
<1>. QED BY <1>2, <1>3
-----------------------------------------------------------------------------
(* The invariant about requests *)

\* The requests in r are the first of s, and e says where each ends.
Chain(s, r, e) ==
    /\ e \in [0 .. Len(r) -> 0 .. Len(s)] /\ e[0] = 0
    /\ \A j \in 1 .. Len(r) :
          LET q == RequestAfter(s, e[j - 1]) IN
          /\ Complete(s, e[j - 1]) /\ e[j] = q.to
          /\ r[j].ret = q.ret /\ r[j].url = q.url
          /\ j < Len(r) => q.ret # "BadRequest"

LastBad(r) == r # <<>> /\ r[Len(r)].ret = "BadRequest"

\* None of the lines of s from position i to p decides about the request.
Undecided(s, i, p) ==
    /\ p = i \/ p \in Ends(s, i)
    /\ \A n \in Deciding(s, i) : p < n
    /\ \A m \in Strays(s) : m <= i \/ p < m

\* The parser d has read those lines.
Knows(s, i, p, d) ==
    /\ d.chk = IF p = i THEN "LINE" ELSE "HEADER"
    /\ p # i => /\ Valid(RequestLine(s, i))
                /\ d.url = RequestLines[RequestLine(s, i)[1]].url
                /\ d.v11 <=> RequestLines[RequestLine(s, i)[1]].v11
    /\ d.host <=> Has(s, i, p + 1, "host")
    /\ d.clen = 0

ParsedUpTo(s, i, d) ==
    Undecided(s, i, i + d.start) /\ Knows(s, i, i + d.start, d)

\* It has looked for a line end as far as m_checked_idx.
Scanned(d) ==
    /\ \A j \in d.start + 1 .. d.checked : d.buf[j] \notin {"CR", "LF"}
    /\ d.start > 0 => d.buf[d.start] # "CR"

\* No line of the buffer is left, except behind a stray CR or LF.
Exhausted(s, i, d) ==
    \A n \in Ends(s, i) : i + d.start < n /\ n <= i + Len(d.buf)
                              => \E m \in Strays(s) : i < m /\ m < n

\* After the answers r, the last request of s that was found ends at position i;
\* connection d, in mode m, has a buffer that begins at position b.
Position(s, r, m, d, b, i) ==
    /\ i = 0 \/ s[i] = "LF"
    /\ m # "closed" =>
          \A j \in d.start + 1 .. Len(d.buf) : d.buf[j] = s[b + j]
    /\ m \in {"read", "parse"} =>
          /\ b = i /\ ~LastBad(r) /\ ParsedUpTo(s, i, d) /\ Scanned(d)
    /\ m = "read" => Exhausted(s, i, d)
    /\ m \in {"busy", "write"} =>
          /\ r # <<>> /\ b + d.start = i
          /\ LastBad(r) => d.code = "BadRequest" /\ (m = "write" => ~d.linger)

Tracks(s, r, m, d, b) ==
    \E e, i : Chain(s, r, e) /\ i = e[Len(r)] /\ Position(s, r, m, d, b, i)

\* Where the buffer begins in the stream.
Base == Len(sent) - (Len(net) + Len(c.buf))

\* What has arrived, what is in the buffer and what the client may have sent.
InTransit ==
    /\ sent \o todo \in Streams
    /\ Len(net) <= Len(sent)
    /\ \A j \in 1 .. Len(net) : net[j] = sent[(Len(sent) - Len(net)) + j]
    /\ mode # "closed" => Base >= 0

Followed == ~HasBody(sent) => Tracks(sent, said, mode, c, Base)

RInv == TypeOK /\ InTransit /\ Followed
-----------------------------------------------------------------------------
(* The operations on a connection *)

LEMMA RequestLineFacts ==
    /\ DOMAIN RequestLines = {"file11", "file10", "root11", "root10"}
    /\ \A x \in DOMAIN RequestLines :
          /\ RequestLines[x].url \in {"file", "/"} /\ RequestLines[x].v11 \in BOOLEAN
          /\ RequestLines[x].v11 <=> x \in {"file11", "root11"}
<1>1. DOMAIN RequestLines = {"file11", "file10", "root11", "root10"}
    BY DEF RequestLines
<1>2. RequestLines["file11"] = [url |-> "file", v11 |-> TRUE]
    BY DEF RequestLines, Request
<1>3. RequestLines["file10"] = [url |-> "file", v11 |-> FALSE]
    BY DEF RequestLines, Request
<1>4. RequestLines["root11"] = [url |-> "/", v11 |-> TRUE]
    BY DEF RequestLines, Request
<1>5. RequestLines["root10"] = [url |-> "/", v11 |-> FALSE]
    BY DEF RequestLines, Request
<1>6. RequestLines["file11"].v11 /\ RequestLines["file11"].url = "file"
    BY <1>2
<1>7. ~RequestLines["file10"].v11 /\ RequestLines["file10"].url = "file"
    BY <1>3
<1>8. RequestLines["root11"].v11 /\ RequestLines["root11"].url = "/"
    BY <1>4
<1>9. ~RequestLines["root10"].v11 /\ RequestLines["root10"].url = "/"
    BY <1>5
<1>10. ASSUME NEW x \in DOMAIN RequestLines
       PROVE  RequestLines[x].url \in {"file", "/"}
    BY <1>1, <1>6, <1>7, <1>8, <1>9
<1>11. ASSUME NEW x \in DOMAIN RequestLines
       PROVE  RequestLines[x].v11 <=> x \in {"file11", "root11"}
    BY <1>1, <1>6, <1>7, <1>8, <1>9
<1>12. ASSUME NEW x \in DOMAIN RequestLines
       PROVE  RequestLines[x].v11 \in BOOLEAN
    <2>1. RequestLines["file11"].v11 \in BOOLEAN
        BY <1>2
    <2>2. RequestLines["file10"].v11 \in BOOLEAN
        BY <1>3
    <2>3. RequestLines["root11"].v11 \in BOOLEAN
        BY <1>4
    <2>4. RequestLines["root10"].v11 \in BOOLEAN
        BY <1>5
    <2>5. x \in {"file11", "file10", "root11", "root10"}
        BY <1>1
    <2>. QED BY <2>1, <2>2, <2>3, <2>4, <2>5
<1>. QED BY <1>1, <1>10, <1>11, <1>12

LEMMA ConnTypes ==
    ASSUME NEW d \in Conn
    PROVE  d.buf \in Seq(Token) /\ Len(d.buf) \in Nat /\ d.checked \in Nat /\ d.start \in Nat
<1>1. d.buf \in Seq(Token) /\ d.checked \in Nat /\ d.start \in Nat
    BY DEF Conn
<1>. QED BY <1>1

LEMMA BreakFacts ==
    ASSUME NEW d \in Conn, Breaks(d) # {}
    PROVE  /\ Break(d) \in Breaks(d) /\ Break(d) \in Nat
           /\ d.checked < Break(d) /\ Break(d) <= Len(d.buf)
           /\ \A j \in Breaks(d) : Break(d) <= j
<1>1. d.checked \in Nat /\ Len(d.buf) \in Nat
    BY ConnTypes
<1>2. Breaks(d) \subseteq Nat
    BY <1>1 DEF Breaks
<1>3. Break(d) \in Breaks(d) /\ \A j \in Breaks(d) : Break(d) <= j
    BY <1>2, Least DEF Break
<1>. QED BY <1>1, <1>3 DEF Breaks

\* parse_line() stops at the end of what was read, before a CR that ends it,
\* behind a line end, or before a stray CR or LF.
StopsAt(d, l, i) ==
    /\ i \in d.checked + 1 .. Len(d.buf)
    /\ \A j \in d.checked + 1 .. i - 1 : d.buf[j] \notin {"CR", "LF"}
    /\ \/ d.buf[i] = "CR" /\ i = Len(d.buf) /\ l = At("Open", d, i - 1)
       \/ d.buf[i] = "CR" /\ i < Len(d.buf) /\ d.buf[i + 1] = "LF" /\ l = EndLine(d, i)
       \/ d.buf[i] = "LF" /\ i > 1 /\ d.buf[i - 1] = "CR" /\ l = EndLine(d, i - 1)
       \/ /\ \/ d.buf[i] = "CR" /\ i < Len(d.buf) /\ d.buf[i + 1] # "LF"
             \/ d.buf[i] = "LF" /\ (i = 1 \/ d.buf[i - 1] # "CR")
          /\ l = At("Bad", d, i - 1)

LEMMA ParseLineStops ==
    ASSUME NEW d \in Conn, NEW l, l = ParseLine(d)
    PROVE  \/ /\ \A j \in d.checked + 1 .. Len(d.buf) : d.buf[j] \notin {"CR", "LF"}
              /\ l = At("Open", d, Len(d.buf))
           \/ \E i : StopsAt(d, l, i)
<1>1. d.checked \in Nat /\ Len(d.buf) \in Nat
    BY ConnTypes
<1>2. CASE Breaks(d) = {}
    <2>1. \A j \in d.checked + 1 .. Len(d.buf) : d.buf[j] \notin {"CR", "LF"}
        BY <1>2 DEF Breaks
    <2>2. l = At("Open", d, Len(d.buf))
        BY <1>2 DEF ParseLine
    <2>. QED BY <2>1, <2>2
<1>3. CASE Breaks(d) # {}
    <2>1. PICK i : i = Break(d)
        OBVIOUS
    <2>2. /\ i \in d.checked + 1 .. Len(d.buf) /\ d.buf[i] \in {"CR", "LF"}
          /\ i \in Nat /\ \A j \in Breaks(d) : i <= j
        BY <1>1, <1>3, <2>1, BreakFacts DEF Breaks
    <2>3. ASSUME NEW j \in d.checked + 1 .. i - 1 PROVE d.buf[j] \notin {"CR", "LF"}
        <3>1. j \in d.checked + 1 .. Len(d.buf) /\ ~(i <= j)
            BY <1>1, <2>2
        <3>. QED BY <2>2, <3>1 DEF Breaks
    <2>4. l = IF d.buf[i] = "CR" /\ i = Len(d.buf) THEN At("Open", d, i - 1)
              ELSE IF d.buf[i] = "CR" /\ d.buf[i + 1] = "LF" THEN EndLine(d, i)
              ELSE IF d.buf[i] = "LF" /\ i > 1 /\ d.buf[i - 1] = "CR" THEN EndLine(d, i - 1)
              ELSE At("Bad", d, i - 1)
        BY <1>3, <2>1 DEF ParseLine
    <2>5. i <= Len(d.buf) /\ i >= 1
        BY <1>1, <2>2
    <2>6. StopsAt(d, l, i)
        <3>1. CASE d.buf[i] = "CR"
            BY <1>1, <2>2, <2>3, <2>4, <2>5, <3>1 DEF StopsAt
        <3>2. CASE d.buf[i] = "LF"
            BY <1>1, <2>2, <2>3, <2>4, <2>5, <3>2 DEF StopsAt
        <3>. QED BY <2>2, <3>1, <3>2
    <2>. QED BY <2>6
<1>. QED BY <1>2, <1>3

\* Everything but the positions and the buffer.
SameHead(d, e) ==
    /\ e.chk = d.chk /\ e.url = d.url /\ e.v11 = d.v11 /\ e.host = d.host
    /\ e.linger = d.linger /\ e.clen = d.clen /\ e.code = d.code

LEMMA AtFacts ==
    ASSUME NEW d \in Conn, NEW i \in Nat, NEW st
    PROVE  LET l == At(st, d, i) IN
           /\ l.status = st /\ l.c \in Conn /\ l.c.checked = i
           /\ l.c.start = d.start /\ l.c.buf = d.buf /\ SameHead(d, l.c)
BY DEF At, Conn, SameHead

LEMMA EndLineFacts ==
    ASSUME NEW d \in Conn, NEW i \in Nat, i >= 1, i < Len(d.buf),
           NEW l, l = EndLine(d, i)
    PROVE  /\ l.status = "Ok" /\ l.c \in Conn /\ l.c.checked = i + 1
           /\ l.c.start = d.start /\ SameHead(d, l.c) /\ Len(l.c.buf) = Len(d.buf)
           /\ l.c.buf[i] = "NUL" /\ l.c.buf[i + 1] = "NUL"
           /\ \A j \in 1 .. Len(d.buf) : j # i /\ j # i + 1 => l.c.buf[j] = d.buf[j]
<1> DEFINE e == [d EXCEPT !.buf[i] = "NUL", !.buf[i + 1] = "NUL"]
           b == [[d.buf EXCEPT ![i] = "NUL"] EXCEPT ![i + 1] = "NUL"]
<1>1. d.buf \in Seq(Token) /\ Len(d.buf) \in Nat /\ "NUL" \in Token
    BY ConnTypes DEF Token
<1>2. /\ b \in Seq(Token) /\ Len(b) = Len(d.buf) /\ b[i] = "NUL" /\ b[i + 1] = "NUL"
      /\ \A j \in 1 .. Len(d.buf) : j # i /\ j # i + 1 => b[j] = d.buf[j]
    BY <1>1
<1>3. e = [d EXCEPT !.buf = b]
    BY DEF Conn
<1> HIDE DEF b
<1>4. e \in Conn /\ e.buf = b /\ e.start = d.start /\ SameHead(d, e)
    BY <1>2, <1>3 DEF Conn, SameHead
<1> HIDE DEF e
<1>5. EndLine(d, i) = At("Ok", e, i + 1)
    BY DEF EndLine, e
<1>. QED BY <1>2, <1>4, <1>5, AtFacts DEF SameHead

LEMMA ParseLineFacts ==
    ASSUME NEW d \in Conn, Ordered(d), NEW l, l = ParseLine(d)
    PROVE  /\ l.c \in Conn /\ Ordered(l.c) /\ SameHead(d, l.c)
           /\ l.c.start = d.start /\ Len(l.c.buf) = Len(d.buf)
<1>1. d.checked \in Nat /\ d.start \in Nat /\ Len(d.buf) \in Nat /\ BufSize \in Nat
    BY ConnTypes, HttpAssumption
<1>2. /\ d.start <= d.checked /\ d.checked <= Len(d.buf) /\ Len(d.buf) <= BufSize
    BY DEF Ordered
<1>3. ASSUME NEW i \in Nat, d.checked <= i, i <= Len(d.buf), NEW st, l = At(st, d, i)
      PROVE  /\ l.c \in Conn /\ Ordered(l.c) /\ SameHead(d, l.c)
             /\ l.c.start = d.start /\ Len(l.c.buf) = Len(d.buf)
    BY <1>1, <1>2, <1>3, AtFacts DEF Ordered
<1>4. ASSUME NEW i \in Nat, d.checked <= i, i >= 1, i < Len(d.buf), l = EndLine(d, i)
      PROVE  /\ l.c \in Conn /\ Ordered(l.c) /\ SameHead(d, l.c)
             /\ l.c.start = d.start /\ Len(l.c.buf) = Len(d.buf)
    BY <1>1, <1>2, <1>4, EndLineFacts DEF Ordered
<1>5. CASE l = At("Open", d, Len(d.buf))
    BY <1>1, <1>2, <1>3, <1>5
<1>6. ASSUME NEW i, StopsAt(d, l, i)
      PROVE  /\ l.c \in Conn /\ Ordered(l.c) /\ SameHead(d, l.c)
             /\ l.c.start = d.start /\ Len(l.c.buf) = Len(d.buf)
    <2>1. /\ i \in Nat /\ i - 1 \in Nat /\ d.checked <= i - 1 /\ i - 1 <= Len(d.buf)
          /\ d.checked <= i /\ i >= 1 /\ i <= Len(d.buf)
        BY <1>1, <1>6 DEF StopsAt
    <2>2. CASE l = At("Open", d, i - 1) \/ l = At("Bad", d, i - 1)
        BY <1>3, <2>1, <2>2
    <2>3. CASE l = EndLine(d, i) /\ i < Len(d.buf)
        BY <1>4, <2>1, <2>3
    <2>4. CASE l = EndLine(d, i - 1) /\ i > 1
        BY <1>4, <2>1, <2>4
    <2>. QED BY <1>6, <2>2, <2>3, <2>4 DEF StopsAt
<1>. QED BY <1>5, <1>6, ParseLineStops

\* The line is what lies between m_start_line and the first NUL.
LEMMA TextIs ==
    ASSUME NEW d \in Conn, NEW e \in Nat, d.start < e, e <= Len(d.buf) + 1,
           e <= Len(d.buf) => d.buf[e] = "NUL",
           \A j \in Nat : d.start < j /\ j < e => d.buf[j] # "NUL"
    PROVE  Text(d) = SubSeq(d.buf, d.start + 1, e - 1)
<1> DEFINE nul == { i \in d.start + 1 .. Len(d.buf) : d.buf[i] = "NUL" }
           end == IF nul = {} THEN Len(d.buf) + 1
                  ELSE CHOOSE i \in nul : \A j \in nul : i <= j
<1>1. Len(d.buf) \in Nat /\ d.start \in Nat
    BY ConnTypes
<1>2. nul \subseteq Nat /\ \A j \in nul : e <= j
    BY <1>1
<1>3. end = e
    <2>1. CASE e <= Len(d.buf)
        <3>1. e \in nul
            BY <1>1, <2>1
        <3> HIDE DEF nul
        <3>2. \A i \in nul : (\A j \in nul : i <= j) => i = e
            BY <1>2, <3>1
        <3>. QED BY <1>2, <3>1, <3>2
    <2>2. CASE e > Len(d.buf)
        <3>1. nul = {}
            BY <1>1, <1>2, <2>2
        <3>. QED BY <1>1, <2>2, <3>1
    <2>3. e <= Len(d.buf) \/ e > Len(d.buf)
        BY <1>1
    <2> HIDE DEF end, nul
    <2>. QED BY <2>1, <2>2, <2>3
<1>4. Text(d) = SubSeq(d.buf, d.start + 1, end - 1)
    BY DEF Text
<1> HIDE DEF end
<1>. QED BY <1>3, <1>4

LEMMA TextType ==
    ASSUME NEW d \in Conn PROVE Text(d) \in Seq(Token)
<1> DEFINE nul == { i \in d.start + 1 .. Len(d.buf) : d.buf[i] = "NUL" }
           end == IF nul = {} THEN Len(d.buf) + 1
                  ELSE CHOOSE i \in nul : \A j \in nul : i <= j
<1>1. Len(d.buf) \in Nat /\ d.start \in Nat /\ d.buf \in Seq(Token)
    BY ConnTypes
<1>2. nul \subseteq d.start + 1 .. Len(d.buf) /\ nul \subseteq Nat
    BY <1>1
<1>3. end \in Nat /\ end <= Len(d.buf) + 1
    <2> HIDE DEF nul
    <2>1. CASE nul = {}
        BY <1>1, <2>1
    <2>2. CASE nul # {}
        <3>1. end \in nul
            BY <1>2, <2>2, Least
        <3> HIDE DEF end
        <3>2. end \in Nat /\ end \in d.start + 1 .. Len(d.buf)
            BY <1>2, <3>1
        <3>. QED BY <1>1, <3>2
    <2>. QED BY <2>1, <2>2
<1>4. SubSeq(d.buf, d.start + 1, end - 1) \in Seq(Token)
    <2> HIDE DEF end
    <2>. QED BY <1>1, <1>3
<1>. QED BY <1>4 DEF Text

LEMMA ReturnFacts == \A ret, d : Return(ret, d).ret = ret /\ Return(ret, d).c = d
BY DEF Return

\* What the state machine changes; only a body is written to.
LEMMA StepFacts ==
    ASSUME NEW d \in Conn, NEW text \in Seq(Token), NEW from \in Nat,
           NEW r, r = Step(d, text, from)
    PROVE  /\ r.ret \in {"NoRequest", "BadRequest", "GetRequest"} /\ r.c \in Conn
           /\ r.c.start = d.start /\ r.c.checked = d.checked
           /\ Len(r.c.buf) = Len(d.buf) /\ (d.chk # "BODY" => r.c.buf = d.buf)
<1>1. d.chk \in {"LINE", "HEADER", "BODY"}
    BY DEF Conn
<1>2. CASE d.chk = "LINE"
    <2>1. r = ParseRequestLine(d, text)
        BY <1>2 DEF Step
    <2>2. CASE ~Valid(text)
        BY <2>1, <2>2 DEF ParseRequestLine, Return
    <2>3. CASE Valid(text)
        <3>1. PICK q : q = RequestLines[text[1]]
            OBVIOUS
        <3>2. PICK u \in {"", "file", "/"}, v \in BOOLEAN : u = q.url /\ v = q.v11
            BY <2>3, <3>1, RequestLineFacts DEF Valid
        <3>3. PICK e : e = [d EXCEPT !.chk = "HEADER", !.url = u, !.v11 = v, !.linger = v]
            OBVIOUS
        <3>4. r = Return("NoRequest", e)
            BY <2>1, <2>3, <3>1, <3>2, <3>3 DEF ParseRequestLine
        <3>5. r.ret = "NoRequest" /\ r.c = e
            BY <3>4, ReturnFacts
        <3>6. e \in Conn /\ e.start = d.start /\ e.checked = d.checked /\ e.buf = d.buf
            BY <3>3 DEF Conn
        <3>. QED BY <3>5, <3>6
    <2>. QED BY <2>2, <2>3
<1>3. CASE d.chk = "HEADER"
    <2>1. r = ParseHeaders(d, text)
        BY <1>2, <1>3 DEF Step
    <2>2. \/ r.c = d
          \/ r.c = [d EXCEPT !.chk = "BODY"]
          \/ r.c = [d EXCEPT !.host = TRUE]
          \/ r.c = [d EXCEPT !.linger = TRUE]
          \/ r.c = [d EXCEPT !.linger = FALSE]
          \/ r.c = [d EXCEPT !.clen = 0]
          \/ r.c = [d EXCEPT !.clen = 2]
        BY <2>1 DEF ParseHeaders, Return
    <2>3. r.ret \in {"NoRequest", "BadRequest", "GetRequest"}
        BY <2>1 DEF ParseHeaders, Return
    <2>4. ASSUME NEW e, \/ e = d
                        \/ e = [d EXCEPT !.chk = "BODY"]
                        \/ e = [d EXCEPT !.host = TRUE]
                        \/ e = [d EXCEPT !.linger = TRUE]
                        \/ e = [d EXCEPT !.linger = FALSE]
                        \/ e = [d EXCEPT !.clen = 0]
                        \/ e = [d EXCEPT !.clen = 2]
          PROVE  e \in Conn /\ e.buf = d.buf /\ e.start = d.start /\ e.checked = d.checked
        <3>1. CASE e = [d EXCEPT !.chk = "BODY"]
            BY <3>1 DEF Conn
        <3>2. CASE e = [d EXCEPT !.host = TRUE]
            BY <3>2 DEF Conn
        <3>3. CASE e = [d EXCEPT !.linger = TRUE]
            BY <3>3 DEF Conn
        <3>4. CASE e = [d EXCEPT !.linger = FALSE]
            BY <3>4 DEF Conn
        <3>5. CASE e = [d EXCEPT !.clen = 0]
            BY <3>5 DEF Conn
        <3>6. CASE e = [d EXCEPT !.clen = 2]
            BY <3>6 DEF Conn
        <3>. QED BY <2>4, <3>1, <3>2, <3>3, <3>4, <3>5, <3>6
    <2>5. r.c \in Conn /\ r.c.buf = d.buf /\ r.c.start = d.start /\ r.c.checked = d.checked
        BY <2>2, <2>4
    <2>. QED BY <2>3, <2>5
<1>4. CASE d.chk = "BODY"
    <2>1. r = ParseBody(d, from)
        BY <1>4 DEF Step
    <2>2. /\ Len(d.buf) \in Nat /\ d.buf \in Seq(Token)
          /\ d.clen \in Nat /\ "NUL" \in Token
        <3>1. d.clen \in {0, 2}
            BY DEF Conn
        <3>2. "NUL" \in Token
            BY DEF Token
        <3>. QED BY <3>1, <3>2, ConnTypes
    <2>3. r.ret \in {"NoRequest", "BadRequest", "GetRequest"}
        BY <2>1 DEF ParseBody, Return
    <2>4. CASE r.c = d
        BY <2>3, <2>4, <1>4
    <2>5. CASE from + d.clen < Len(d.buf) /\ r.c = [d EXCEPT !.buf[from + d.clen + 1] = "NUL"]
        <3> DEFINE b == [d.buf EXCEPT ![from + d.clen + 1] = "NUL"]
        <3>1. b \in Seq(Token) /\ Len(b) = Len(d.buf)
            BY <2>2, <2>5
        <3>2. r.c = [d EXCEPT !.buf = b]
            BY <2>5 DEF Conn
        <3> HIDE DEF b
        <3>. QED BY <1>4, <2>3, <3>1, <3>2 DEF Conn
    <2>. QED BY <2>1, <2>4, <2>5 DEF ParseBody, Return
<1>. QED BY <1>1, <1>2, <1>3, <1>4
-----------------------------------------------------------------------------
(* Types *)

Answer == [ret : {"BadRequest", "GetRequest"}, url : {"", "file", "/"}]

LEMMA Types ==
    ASSUME TypeOK
    PROVE  /\ c \in Conn /\ Ordered(c) /\ c.buf \in Seq(Token) /\ Len(c.buf) \in Nat
           /\ c.start \in Nat /\ c.checked \in Nat /\ BufSize \in Nat
           /\ c.start <= c.checked /\ c.checked <= Len(c.buf) /\ Len(c.buf) <= BufSize
           /\ net \in Seq(Token) /\ todo \in Seq(Token) /\ sent \in Seq(Token)
           /\ Len(net) \in Nat /\ Len(todo) \in Nat /\ Len(sent) \in Nat
           /\ said \in Seq(Answer) /\ Len(said) \in Nat
<1>1. c \in Conn /\ Ordered(c) /\ BufSize \in Nat
    BY HttpAssumption DEF TypeOK
<1>2. net \in Seq(Token) /\ todo \in Seq(Token) /\ sent \in Seq(Token)
    BY DEF TypeOK
<1>3. said \in Seq(Answer)
    BY DEF TypeOK, Answer
<1> HIDE DEF Answer
<1>4. Len(net) \in Nat /\ Len(todo) \in Nat /\ Len(sent) \in Nat /\ Len(said) \in Nat
    BY <1>2, <1>3
<1>. QED BY <1>1, <1>2, <1>3, <1>4, ConnTypes DEF Ordered

LEMMA FreshFacts ==
    /\ Fresh \in Conn /\ Ordered(Fresh) /\ Fresh.buf = <<>>
    /\ Fresh.start = 0 /\ Fresh.checked = 0
BY HttpAssumption DEF Fresh, Conn, Ordered

LEMMA FilledFacts ==
    ASSUME TypeOK
    PROVE  /\ Filled \in Conn /\ Ordered(Filled) /\ SameHead(c, Filled)
           /\ Filled.start = c.start /\ Filled.checked = c.checked
           /\ Taken \in 0 .. Len(net) /\ Len(Filled.buf) = Len(c.buf) + Taken
           /\ \A j \in 1 .. Len(c.buf) : Filled.buf[j] = c.buf[j]
           /\ \A j \in 1 .. Taken : Filled.buf[Len(c.buf) + j] = net[j]
<1>1. /\ c \in Conn /\ c.buf \in Seq(Token) /\ net \in Seq(Token) /\ Len(c.buf) \in Nat
      /\ Len(net) \in Nat /\ BufSize \in Nat /\ Len(c.buf) <= BufSize
      /\ c.start \in Nat /\ c.checked \in Nat /\ c.start <= c.checked
      /\ c.checked <= Len(c.buf)
    BY Types
<1>2. Taken \in 0 .. Len(net) /\ Taken <= BufSize - Len(c.buf) /\ Taken \in Nat
    <2>1. PICK n \in Nat : n = Len(net)
        BY <1>1
    <2>2. PICK m \in Nat : m = BufSize - Len(c.buf)
        <3>1. BufSize - Len(c.buf) \in Nat
            BY <1>1
        <3>. QED BY <3>1
    <2>. QED BY <2>1, <2>2 DEF Taken, Room
<1> DEFINE a == SubSeq(net, 0 + 1, Taken)
           b == c.buf \o a
<1>3. a \in Seq(Token) /\ Len(a) = Taken /\ \A j \in 1 .. Taken : a[j] = net[j]
    <2>1. Taken \in Nat /\ Taken <= Len(net) /\ Taken - 0 = Taken
        BY <1>1, <1>2
    <2>2. /\ a \in Seq(Token) /\ Len(a) = Taken - 0
          /\ \A j \in 1 .. Taken - 0 : a[j] = net[0 + j]
        <3> HIDE DEF a
        <3>. QED BY <1>1, <2>1, Pieces DEF a
    <2> HIDE DEF a
    <2>. QED BY <2>1, <2>2
<1>4. /\ b \in Seq(Token) /\ Len(b) = Len(c.buf) + Taken
      /\ \A j \in 1 .. Len(c.buf) : b[j] = c.buf[j]
      /\ \A j \in 1 .. Taken : b[Len(c.buf) + j] = net[j]
    <2> HIDE DEF a
    <2>1. /\ b \in Seq(Token) /\ Len(b) = Len(c.buf) + Len(a)
          /\ \A j \in 1 .. Len(c.buf) : b[j] = c.buf[j]
          /\ \A j \in 1 .. Len(a) : b[Len(c.buf) + j] = a[j]
        <3>1. PICK s \in Seq(Token), u \in Seq(Token) : s = c.buf /\ u = a
            BY <1>1, <1>3
        <3>2. /\ s \o u \in Seq(Token) /\ Len(s \o u) = Len(s) + Len(u)
              /\ \A j \in 1 .. Len(s) : (s \o u)[j] = s[j]
              /\ \A j \in 1 .. Len(u) : (s \o u)[Len(s) + j] = u[j]
            BY Joined
        <3>. QED BY <3>1, <3>2
    <2> HIDE DEF b
    <2>. QED BY <1>3, <2>1
<1>5. Filled = [c EXCEPT !.buf = b]
    BY DEF Filled
<1> HIDE DEF b
<1>6. Filled \in Conn /\ SameHead(c, Filled) /\ Filled.buf = b
      /\ Filled.start = c.start /\ Filled.checked = c.checked
    BY <1>1, <1>4, <1>5 DEF Conn, SameHead
<1>. QED BY <1>1, <1>2, <1>4, <1>6 DEF Ordered

LEMMA ResetFacts ==
    ASSUME NEW d \in Conn, Ordered(d)
    PROVE  /\ ResetForNext(d) \in Conn /\ Ordered(ResetForNext(d))
           /\ SameHead(Fresh, ResetForNext(d))
           /\ ResetForNext(d).start = 0 /\ ResetForNext(d).checked = 0
           /\ Len(ResetForNext(d).buf) = Len(d.buf) - d.start
           /\ \A j \in 1 .. Len(d.buf) - d.start :
                 ResetForNext(d).buf[j] = d.buf[d.start + j]
<1>1. /\ d.buf \in Seq(Token) /\ Len(d.buf) \in Nat /\ d.start \in Nat /\ d.checked \in Nat
      /\ d.start <= Len(d.buf) /\ Len(d.buf) <= BufSize /\ BufSize \in Nat
    BY ConnTypes, HttpAssumption DEF Ordered
<1> DEFINE b == SubSeq(d.buf, d.start + 1, Len(d.buf))
<1>2. /\ b \in Seq(Token) /\ Len(b) = Len(d.buf) - d.start
      /\ \A j \in 1 .. Len(d.buf) - d.start : b[j] = d.buf[d.start + j]
    <2>1. PICK m \in Nat : m = Len(d.buf) - d.start
        <3>1. Len(d.buf) - d.start \in Nat
            BY <1>1
        <3>. QED BY <3>1
    <2>2. PICK q \in Seq(Token), a \in Nat : q = d.buf /\ a = d.start
        BY <1>1
    <2>3. PICK y : y = SubSeq(q, a + 1, Len(q))
        OBVIOUS
    <2>4. a <= Len(q) /\ m = Len(q) - a
        BY <1>1, <2>1, <2>2
    <2>5. y \in Seq(Token) /\ Len(y) = m /\ \A j \in 1 .. m : y[j] = q[a + j]
        BY <2>3, <2>4, Behead
    <2>6. b = y
        BY <2>2, <2>3
    <2> HIDE DEF b
    <2>. QED BY <2>1, <2>2, <2>5, <2>6
<1>3. ResetForNext(d) = [Fresh EXCEPT !.buf = b]
    BY DEF ResetForNext
<1> HIDE DEF b
<1>4. /\ ResetForNext(d) \in Conn /\ SameHead(Fresh, ResetForNext(d))
      /\ ResetForNext(d).start = 0 /\ ResetForNext(d).checked = 0
      /\ ResetForNext(d).buf = b
    BY <1>2, <1>3, FreshFacts DEF Conn, SameHead
<1>. QED BY <1>1, <1>2, <1>4 DEF Ordered

\* do_request, process_write, and writing.
LEMMA RequestFacts ==
    ASSUME NEW d \in Conn, NEW e, e \in DoRequest(d)
    PROVE  /\ e \in Conn /\ e.buf = d.buf /\ e.start = d.start /\ e.checked = d.checked
           /\ e.code # "BadRequest"
<1>1. CASE e = [d EXCEPT !.code = "FileRequest"]
    BY <1>1 DEF Conn
<1>2. ASSUME NEW x \in {"NoResource", "ForbiddenRequest"}, e = [d EXCEPT !.code = x]
      PROVE  /\ e \in Conn /\ e.buf = d.buf /\ e.start = d.start /\ e.checked = d.checked
             /\ e.code # "BadRequest"
    BY <1>2 DEF Conn
<1>3. ASSUME NEW s \in Sizes, NEW a \in Sizes,
             e = [d EXCEPT !.code = "FileRequest", !.sendfile = TRUE, !.size = s, !.actual = a]
      PROVE  /\ e \in Conn /\ e.buf = d.buf /\ e.start = d.start /\ e.checked = d.checked
             /\ e.code # "BadRequest"
    <2>1. s \in Nat /\ a \in Nat
        BY HttpAssumption
    <2>. QED BY <1>3, <2>1 DEF Conn
<1>4. \/ e = Outcome(d, "FileRequest")
      \/ \E x \in {"NoResource", "ForbiddenRequest"} : e = Outcome(d, x)
      \/ \E s \in Sizes, a \in Sizes : e = Opened(d, s, a)
    BY DEF DoRequest
<1>. QED BY <1>1, <1>2, <1>3, <1>4 DEF Outcome, Opened

LEMMA WriteFacts ==
    ASSUME NEW d \in Conn
    PROVE  LET e == ProcessWrite(d) IN
           /\ e \in Conn /\ e.buf = d.buf /\ e.start = d.start /\ e.checked = d.checked
           /\ e.off = 0 /\ e.code = d.code
           /\ d.code = "BadRequest" => ~e.linger
<1>1. PICK v \in BOOLEAN : v = (d.linger /\ d.code \notin {"BadRequest", "ForbiddenRequest"})
    OBVIOUS
<1>2. PICK n \in Nat : n = IF d.sendfile THEN d.size ELSE PageLen
    BY HttpAssumption DEF Conn
<1>3. ProcessWrite(d) = [d EXCEPT !.linger = v, !.len = n, !.off = 0]
    BY <1>1, <1>2 DEF ProcessWrite
<1>4. d.code = "BadRequest" => ~v
    BY <1>1
<1>5. PICK e : e = [d EXCEPT !.linger = v, !.len = n, !.off = 0]
    OBVIOUS
<1>6. /\ e \in Conn /\ e.buf = d.buf /\ e.start = d.start /\ e.checked = d.checked
      /\ e.off = 0 /\ e.code = d.code /\ (e.linger <=> v)
    BY <1>5 DEF Conn
<1>. QED BY <1>3, <1>4, <1>5, <1>6

LEMMA MoveFacts ==
    ASSUME NEW d \in Conn, NEW n \in Nat
    PROVE  LET e == [d EXCEPT !.off = @ + n] IN
           /\ e \in Conn /\ e.buf = d.buf /\ e.start = d.start /\ e.checked = d.checked
           /\ e.off = d.off + n /\ e.code = d.code /\ e.linger = d.linger
           /\ e.len = d.len /\ e.actual = d.actual
<1>1. d.off \in Nat
    BY DEF Conn
<1>2. d.off + n \in Nat
    BY <1>1
<1>. QED BY <1>2 DEF Conn

LEMMA CodeFacts ==
    ASSUME NEW d \in Conn, NEW e, e = [d EXCEPT !.code = "BadRequest"]
    PROVE  /\ e \in Conn /\ e.buf = d.buf /\ e.start = d.start /\ e.checked = d.checked
           /\ e.code = "BadRequest"
BY DEF Conn

LEMMA CutFacts ==
    ASSUME NEW d \in Conn, d.actual > 0
    PROVE  LET e == [d EXCEPT !.actual = @ - 1] IN
           /\ e \in Conn /\ e.buf = d.buf /\ e.start = d.start /\ e.checked = d.checked
           /\ e.off = d.off /\ e.code = d.code /\ e.linger = d.linger
           /\ e.len = d.len /\ e.actual = d.actual - 1
<1>1. d.actual \in Nat
    BY DEF Conn
<1>2. d.actual - 1 \in Nat
    BY <1>1
<1>. QED BY <1>2 DEF Conn

\* The three ways a turn of the parser can end.
LEMMA ParseCases ==
    ASSUME ParseTurn
    PROVE  \E l, r :
              /\ l = IF c.chk = "BODY" /\ status = "Ok" THEN At("Ok", c, c.checked)
                     ELSE ParseLine(c)
              /\ r = Step([l.c EXCEPT !.start = l.c.checked], Text(l.c), c.start)
              /\ \/ l.status # "Ok" /\ Incomplete(l.c)
                 \/ /\ l.status = "Ok" /\ r.ret = "NoRequest"
                    /\ mode' = mode /\ c' = r.c /\ said' = said
                    /\ status' = IF c.chk = "BODY" THEN "Open" ELSE "Ok"
                 \/ l.status = "Ok" /\ r.ret # "NoRequest" /\ Found(r.ret, r.c)
BY DEF ParseTurn

\* The parser at the end of a line.
LEMMA MovedFacts ==
    ASSUME NEW d \in Conn, Ordered(d)
    PROVE  LET e == [d EXCEPT !.start = d.checked] IN
           /\ e \in Conn /\ Ordered(e) /\ SameHead(d, e) /\ e.buf = d.buf
           /\ e.start = d.checked /\ e.checked = d.checked
<1>1. d.checked \in Nat /\ Len(d.buf) \in Nat /\ BufSize \in Nat
    BY ConnTypes, HttpAssumption
<1>2. PICK e : e = [d EXCEPT !.start = d.checked]
    OBVIOUS
<1>3. /\ e \in Conn /\ SameHead(d, e) /\ e.buf = d.buf
      /\ e.start = d.checked /\ e.checked = d.checked
    BY <1>1, <1>2 DEF Conn, SameHead
<1>. QED BY <1>1, <1>2, <1>3 DEF Ordered

LEMMA FoundFacts ==
    ASSUME TypeOK, NEW ret, NEW d, Found(ret, d)
    PROVE  /\ mode' = "busy" /\ status' = "Ok" /\ Len(said') = Len(said) + 1
           /\ \A j \in 1 .. Len(said) : said'[j] = said[j]
           /\ said'[Len(said')].ret = ret
           /\ said'[Len(said')].url = IF ret = "BadRequest" THEN "" ELSE d.url
<1>1. PICK q : q = [ret |-> ret, url |-> IF ret = "BadRequest" THEN "" ELSE d.url]
    OBVIOUS
<1>2. said \in Seq(Answer) /\ Len(said) \in Nat
    BY Types
<1>3. said' = Append(said, q)
    BY <1>1 DEF Found
<1>4. /\ Len(said') = Len(said) + 1 /\ said'[Len(said) + 1] = q
      /\ \A j \in 1 .. Len(said) : said'[j] = said[j]
    BY <1>2, <1>3
<1>5. q.ret = ret /\ q.url = IF ret = "BadRequest" THEN "" ELSE d.url
    BY <1>1
<1>. QED BY <1>4, <1>5 DEF Found

LEMMA TypeInit == Init => TypeOK
<1>. SUFFICES ASSUME Init PROVE TypeOK
    OBVIOUS
<1>1. todo \in Seq(Token)
    BY StreamsAssumption DEF Init
<1>. QED BY <1>1, FreshFacts DEF Init, TypeOK

LEMMA TypeNext == TypeOK /\ [Next]_vars => TypeOK'
<1>. SUFFICES ASSUME TypeOK, [Next]_vars PROVE TypeOK'
    OBVIOUS
<1>1. c \in Conn /\ Ordered(c)
    BY DEF TypeOK
<1>2. Close => c' \in Conn /\ Ordered(c') /\ status' = "Ok" /\ mode' = "closed"
    BY FreshFacts DEF Close
<1>3. CASE DealRead
    <2>1. CASE ReadFails
        BY <1>2, <1>3, <2>1 DEF DealRead, TypeOK
    <2>2. CASE ~ReadFails
        <3>1. SubSeq(net, Taken + 1, Len(net)) \in Seq(Token)
            <4>1. Taken \in 0 .. Len(net) /\ Len(net) \in Nat /\ net \in Seq(Token)
                BY FilledFacts, Types
            <4>. QED BY <4>1
        <3>. QED BY <1>3, <2>2, <3>1, FilledFacts DEF DealRead, Parse, TypeOK
    <2>. QED BY <2>1, <2>2
<1>4. CASE ParseTurn
    <2>1. PICK l, r :
              /\ l = IF c.chk = "BODY" /\ status = "Ok" THEN At("Ok", c, c.checked)
                     ELSE ParseLine(c)
              /\ r = Step([l.c EXCEPT !.start = l.c.checked], Text(l.c), c.start)
              /\ \/ l.status # "Ok" /\ Incomplete(l.c)
                 \/ /\ l.status = "Ok" /\ r.ret = "NoRequest"
                    /\ mode' = mode /\ c' = r.c /\ said' = said
                    /\ status' = IF c.chk = "BODY" THEN "Open" ELSE "Ok"
                 \/ l.status = "Ok" /\ r.ret # "NoRequest" /\ Found(r.ret, r.c)
        BY <1>4, ParseCases
    <2>2. l.c \in Conn /\ Ordered(l.c)
        <3>1. CASE l = At("Ok", c, c.checked)
            <4>1. c.checked \in Nat
                BY <1>1, ConnTypes
            <4>. QED BY <1>1, <3>1, <4>1, AtFacts DEF Ordered
        <3>2. CASE l = ParseLine(c)
            BY <1>1, <3>2, ParseLineFacts
        <3>. QED BY <2>1, <3>1, <3>2
    <2>3. PICK d : d = [l.c EXCEPT !.start = l.c.checked]
        OBVIOUS
    <2>4. d \in Conn /\ Ordered(d)
        BY <2>2, <2>3, MovedFacts
    <2>5. c.start \in Nat
        BY <1>1, ConnTypes
    <2>6. r.c \in Conn /\ Ordered(r.c) /\ r.ret \in {"NoRequest", "BadRequest", "GetRequest"}
        <3>1. Text(l.c) \in Seq(Token)
            BY <2>2, TextType
        <3>2. r = Step(d, Text(l.c), c.start)
            BY <2>1, <2>3
        <3>3. /\ r.ret \in {"NoRequest", "BadRequest", "GetRequest"} /\ r.c \in Conn
              /\ r.c.start = d.start /\ r.c.checked = d.checked
              /\ Len(r.c.buf) = Len(d.buf)
            BY <2>4, <2>5, <3>1, <3>2, StepFacts
        <3>. QED BY <2>4, <3>3 DEF Ordered
    <2>7. net' = net /\ todo' = todo /\ peer' = peer /\ sent' = sent /\ wire' = wire
        BY <1>4 DEF ParseTurn, client
    <2>8. CASE Incomplete(l.c)
        BY <2>2, <2>7, <2>8 DEF Incomplete, TypeOK
    <2>9. CASE mode' = mode /\ c' = r.c /\ said' = said /\ status' \in {"Open", "Ok"}
        BY <2>6, <2>7, <2>9 DEF TypeOK
    <2>10. CASE r.ret # "NoRequest" /\ Found(r.ret, r.c)
        <3>1. c' \in Conn /\ Ordered(c')
            <4>1. CASE r.ret = "BadRequest"
                <5>1. PICK e : e = [r.c EXCEPT !.code = "BadRequest"]
                    OBVIOUS
                <5>2. c' = e
                    BY <2>10, <4>1, <5>1, Zenon DEF Found
                <5>3. /\ e \in Conn /\ e.buf = r.c.buf /\ e.start = r.c.start
                      /\ e.checked = r.c.checked
                    BY <2>6, <5>1, CodeFacts
                <5>. QED BY <2>6, <5>2, <5>3 DEF Ordered
            <4>2. CASE r.ret # "BadRequest"
                BY <2>6, <2>10, <4>2, RequestFacts DEF Found, Ordered
            <4>. QED BY <4>1, <4>2
        <3>2. PICK q : q = [ret |-> r.ret, url |-> IF r.ret = "BadRequest" THEN "" ELSE r.c.url]
            OBVIOUS
        <3>3. q \in Answer
            BY <2>6, <2>10, <3>2 DEF Conn, Answer
        <3>4. said' = Append(said, q) /\ said \in Seq(Answer)
            BY <2>10, <3>2, Types DEF Found
        <3>5. said' \in Seq(Answer)
            BY <3>3, <3>4
        <3>. QED BY <2>7, <2>10, <3>1, <3>5 DEF Found, TypeOK, Answer
    <2>. QED BY <2>1, <2>8, <2>9, <2>10
<1>5. CASE Business
    <2>1. c' \in Conn /\ Ordered(c')
        BY <1>1, <1>5, WriteFacts DEF Business, Ordered
    <2>. QED BY <1>5, <2>1 DEF Business, client, TypeOK
<1>6. CASE DealWrite
    <2>1. UNCHANGED <<client, said>>
        BY <1>6 DEF DealWrite
    <2>2. Finish => /\ c' \in Conn /\ Ordered(c') /\ status' \in {"Ok", "Open"}
                    /\ mode' \in {"closed", "parse", "read"}
        BY <1>1, <1>2, ResetFacts DEF Finish, Parse, TypeOK
    <2>3. ASSUME NEW n \in Nat, WriteMore(n)
          PROVE  c' \in Conn /\ Ordered(c') /\ status' = status /\ mode' = mode
        BY <1>1, <2>3, MoveFacts DEF WriteMore, Ordered
    <2>4. /\ c' \in Conn /\ Ordered(c') /\ status' \in {"Ok", "Open"}
          /\ mode' \in {"read", "parse", "busy", "write", "closed"}
        <3>1. CASE Close
            BY <1>2, <3>1
        <3>2. CASE Finish
            BY <2>2, <3>2
        <3>3. ASSUME NEW n \in Nat, WriteMore(n)
              PROVE  /\ c' \in Conn /\ Ordered(c') /\ status' \in {"Ok", "Open"}
                     /\ mode' \in {"read", "parse", "busy", "write", "closed"}
            BY <2>3, <3>3 DEF TypeOK
        <3>. QED BY <1>6, <3>1, <3>2, <3>3 DEF DealWrite, EndOfFile
    <2>. QED BY <2>1, <2>4 DEF client, TypeOK
<1>7. CASE CutFile
    <2>1. c' \in Conn /\ Ordered(c')
        BY <1>1, <1>7, CutFacts DEF CutFile, Ordered
    <2>. QED BY <1>7, <2>1 DEF CutFile, client, TypeOK
<1>8. ASSUME NEW n \in 1 .. Len(todo), Send(n) PROVE TypeOK'
    <2>1. todo \in Seq(Token) /\ net \in Seq(Token) /\ sent \in Seq(Token) /\ Len(todo) \in Nat
        BY Types
    <2>2. SubSeq(todo, 1, n) \in Seq(Token) /\ SubSeq(todo, n + 1, Len(todo)) \in Seq(Token)
        BY <2>1
    <2>3. net' \in Seq(Token) /\ todo' \in Seq(Token) /\ sent' \in Seq(Token)
        BY <1>8, <2>1, <2>2 DEF Send
    <2>. QED BY <1>8, <2>3 DEF Send, TypeOK
<1>9. CASE Leave
    BY <1>9 DEF Leave, TypeOK
<1>10. CASE UNCHANGED vars
    BY <1>10 DEF vars, TypeOK
<1>. QED BY <1>3, <1>4, <1>5, <1>6, <1>7, <1>8, <1>9, <1>10 DEF Next, Server

\* Every variable of a connection keeps its type, whatever its client sends:
\* the positions of the parser stay in order and inside what was read, and
\* what was read inside read_buf_ (http_conn.h, read_once, parse_line).
THEOREM TypeCorrect == Spec => []TypeOK
BY TypeInit, TypeNext, PTL DEF Spec
-----------------------------------------------------------------------------
(* The answers *)

Byte == [of : Nat, from : [part : {"head", "body"}, at : Nat], len : Nat]

\* What the socket has taken are the first k answers, each of them whole.
Finished(k) ==
    IF wire = <<>> THEN k = 0
    ELSE Final(wire[Len(wire)]) /\ wire[Len(wire)].of = k

\* Or those and the beginning of the one that is being sent, up to m_write_offset.
Sending ==
    /\ Len(said) > 0 /\ c.off < Total
    /\ IF c.off = 0 THEN Finished(Len(said) - 1)
       ELSE /\ wire # <<>> /\ wire[Len(wire)].of = Len(said)
            /\ wire[Len(wire)].len = c.len /\ Place(wire[Len(wire)]) = c.off - 1

WInv ==
    /\ TypeOK /\ wire \in Seq(Byte) /\ Framed
    /\ mode \in {"read", "parse"} => Finished(Len(said))
    /\ mode = "busy" => Len(said) > 0 /\ Finished(Len(said) - 1)
    /\ mode = "write" => Sending

LEMMA LengthFacts ==
    ASSUME TypeOK
    PROVE  /\ c.off \in Nat /\ c.len \in Nat /\ c.actual \in Nat /\ Len(said) \in Nat
           /\ HeadLen \in Nat \ {0} /\ Total \in Nat /\ End \in Nat /\ End <= Total
<1>1. c \in Conn /\ Len(said) \in Nat
    BY Types
<1>2. c.off \in Nat /\ c.len \in Nat /\ c.actual \in Nat
    BY <1>1 DEF Conn
<1>3. HeadLen \in Nat \ {0}
    BY HttpAssumption
<1>4. Total \in Nat
    BY <1>2, <1>3 DEF Total
<1>5. End \in Nat /\ End <= Total
    BY <1>2, <1>3, <1>4 DEF End, Total
<1>. QED BY <1>1, <1>2, <1>3, <1>4, <1>5

LEMMA SourceFacts ==
    ASSUME NEW i \in Nat
    PROVE  /\ Source(i) \in [part : {"head", "body"}, at : Nat]
           /\ (IF Source(i).part = "head" THEN Source(i).at ELSE HeadLen + Source(i).at) = i
<1>1. HeadLen \in Nat
    BY HttpAssumption
<1>2. CASE i < HeadLen
    <2>1. Source(i) = [part |-> "head", at |-> i]
        BY <1>2 DEF Source
    <2>. QED BY <2>1
<1>3. CASE ~(i < HeadLen)
    <2>1. Source(i) = [part |-> "body", at |-> i - HeadLen] /\ i - HeadLen \in Nat
        BY <1>1, <1>3 DEF Source
    <2>2. HeadLen + (i - HeadLen) = i
        BY <1>1
    <2>. QED BY <2>1, <2>2
<1>. QED BY <1>2, <1>3

LEMMA BytesFacts ==
    ASSUME TypeOK, NEW n \in Nat
    PROVE  /\ Bytes(n) \in Seq(Byte) /\ Len(Bytes(n)) = n
           /\ \A j \in 1 .. n : /\ Bytes(n)[j].of = Len(said) /\ Bytes(n)[j].len = c.len
                                /\ Place(Bytes(n)[j]) = c.off + j - 1
<1>1. ASSUME NEW j \in 1 .. n
      PROVE  /\ Bytes(n)[j] \in Byte
             /\ Bytes(n)[j].of = Len(said) /\ Bytes(n)[j].len = c.len
             /\ Place(Bytes(n)[j]) = c.off + j - 1
    <2>1. PICK a \in Nat : a = c.off + j - 1
        <3>1. c.off + j - 1 \in Nat
            BY LengthFacts
        <3>. QED BY <3>1
    <2>2. Bytes(n)[j] = [of |-> Len(said), from |-> Source(a), len |-> c.len]
        BY <2>1 DEF Bytes
    <2>3. Source(a) \in [part : {"head", "body"}, at : Nat]
        BY SourceFacts
    <2>4. Bytes(n)[j] \in Byte
        BY <2>2, <2>3, LengthFacts DEF Byte
    <2>5. Place(Bytes(n)[j]) = a
        <3>1. Bytes(n)[j].from = Source(a)
            BY <2>2
        <3>. QED BY <3>1, SourceFacts DEF Place
    <2>. QED BY <2>1, <2>2, <2>4, <2>5
<1>2. Bytes(n) = [j \in 1 .. n |-> Bytes(n)[j]]
    BY DEF Bytes
<1>. QED BY <1>1, <1>2

\* Sending n more bytes of an answer.
LEMMA MoreBytes ==
    ASSUME WInv, mode = "write", NEW n \in Nat, n > 0, c.off + n <= Total,
           wire' = wire \o Bytes(n)
    PROVE  /\ wire' \in Seq(Byte) /\ Framed' /\ wire' # <<>>
           /\ wire'[Len(wire')].of = Len(said) /\ wire'[Len(wire')].len = c.len
           /\ Place(wire'[Len(wire')]) = c.off + n - 1
           /\ Final(wire'[Len(wire')]) <=> c.off + n = Total
<1> DEFINE w == wire \o Bytes(n)
           m == Len(wire)
<1>1. wire \in Seq(Byte) /\ m \in Nat /\ TypeOK /\ Framed /\ Sending
    BY DEF WInv
<1>2. PICK b \in Seq(Byte) :
          /\ b = Bytes(n) /\ Len(b) = n
          /\ \A j \in 1 .. n : /\ b[j].of = Len(said) /\ b[j].len = c.len
                               /\ Place(b[j]) = c.off + j - 1
    BY <1>1, BytesFacts
<1>3. /\ w \in Seq(Byte) /\ Len(w) = m + n
      /\ \A j \in 1 .. m : w[j] = wire[j]
      /\ \A j \in 1 .. n : w[m + j] = b[j]
    <2>1. PICK s \in Seq(Byte) : s = wire
        BY <1>1
    <2>2. /\ s \o b \in Seq(Byte) /\ Len(s \o b) = Len(s) + Len(b)
          /\ \A j \in 1 .. Len(s) : (s \o b)[j] = s[j]
          /\ \A j \in 1 .. Len(b) : (s \o b)[Len(s) + j] = b[j]
        BY Joined
    <2>. QED BY <1>2, <2>1, <2>2
<1>4. wire' = w
    BY <1>2
<1> HIDE DEF w
<1>5. /\ c.off \in Nat /\ c.len \in Nat /\ Len(said) \in Nat /\ HeadLen \in Nat \ {0}
      /\ Total = HeadLen + c.len /\ c.off < Total
    BY <1>1, LengthFacts DEF Total, Sending
<1>6. ASSUME NEW i \in 1 .. m + n
      PROVE  IF i = 1 THEN w[i].of = 1 /\ Place(w[i]) = 0
             ELSE IF Final(w[i - 1])
             THEN w[i].of = w[i - 1].of + 1 /\ Place(w[i]) = 0
             ELSE w[i].of = w[i - 1].of /\ Place(w[i]) = Place(w[i - 1]) + 1
    <2>1. CASE i <= m
        <3>1. i \in DOMAIN wire /\ w[i] = wire[i] /\ (i # 1 => w[i - 1] = wire[i - 1])
            <4>1. i \in 1 .. m /\ (i # 1 => i - 1 \in 1 .. m) /\ DOMAIN wire = 1 .. m
                BY <1>1, <2>1
            <4> HIDE DEF m
            <4>. QED BY <1>3, <4>1
        <3>2. IF i = 1 THEN wire[i].of = 1 /\ Place(wire[i]) = 0
              ELSE IF Final(wire[i - 1])
              THEN wire[i].of = wire[i - 1].of + 1 /\ Place(wire[i]) = 0
              ELSE wire[i].of = wire[i - 1].of /\ Place(wire[i]) = Place(wire[i - 1]) + 1
            BY <1>1, <3>1 DEF Framed
        <3>. QED BY <3>1, <3>2
    <2>2. CASE i = m + 1
        <3>1. w[i] = b[1] /\ b[1].of = Len(said) /\ Place(b[1]) = c.off
            BY <1>1, <1>2, <1>3, <1>5, <2>2
        <3>2. CASE c.off = 0
            <4>1. Finished(Len(said) - 1)
                BY <1>1, <3>2 DEF Sending
            <4>2. CASE m = 0
                <5>1. wire = <<>>
                    BY <1>1, <4>2
                <5>2. Len(said) = 1
                    BY <1>5, <4>1, <5>1 DEF Finished
                <5>. QED BY <2>2, <3>1, <3>2, <4>2, <5>2
            <4>3. CASE m # 0
                <5>1. wire # <<>> /\ i # 1 /\ w[i - 1] = wire[m]
                    <6>1. wire # <<>> /\ i # 1 /\ i - 1 = m /\ m \in 1 .. m
                        BY <1>1, <2>2, <4>3
                    <6> HIDE DEF m
                    <6>. QED BY <1>3, <6>1
                <5>2. Final(wire[m]) /\ wire[m].of = Len(said) - 1
                    BY <4>1, <5>1 DEF Finished
                <5>. QED BY <1>5, <3>1, <3>2, <5>1, <5>2
            <4>. QED BY <4>2, <4>3
        <3>3. CASE c.off # 0
            <4>1. /\ wire # <<>> /\ wire[m].of = Len(said) /\ wire[m].len = c.len
                  /\ Place(wire[m]) = c.off - 1
                BY <1>1, <3>3 DEF Sending
            <4>2. i # 1 /\ w[i - 1] = wire[m]
                BY <1>1, <1>3, <2>2, <4>1
            <4>3. ~Final(wire[m]) /\ Place(wire[m]) + 1 = c.off
                <5>1. Place(wire[m]) + 1 = c.off /\ c.off # HeadLen + wire[m].len
                    <6> HIDE DEF m
                    <6>1. PICK x \in Nat, z \in Nat : x = c.off /\ z = c.len
                        BY <1>5
                    <6>2. x < HeadLen + z
                        BY <1>5, <6>1
                    <6>3. Place(wire[m]) = x - 1 /\ wire[m].len = z
                        BY <4>1, <6>1
                    <6>4. (x - 1) + 1 = x /\ x # HeadLen + z
                        BY <1>5, <6>2
                    <6>. QED BY <6>1, <6>3, <6>4
                <5>. QED BY <5>1 DEF Final
            <4>. QED BY <3>1, <4>1, <4>2, <4>3
        <3>. QED BY <3>2, <3>3
    <2>3. CASE i > m + 1
        <3>1. PICK j \in 2 .. n : i = m + j
            <4>1. i - m \in 2 .. n /\ i = m + (i - m)
                BY <1>1, <2>3
            <4>. QED BY <4>1
        <3>2. /\ j \in 1 .. n /\ j - 1 \in 1 .. n /\ i - 1 = m + (j - 1) /\ i # 1
            BY <1>1, <3>1
        <3>3. w[i] = b[j] /\ w[i - 1] = b[j - 1]
            BY <1>3, <3>1, <3>2
        <3>4. Place(b[j]) = c.off + j - 1 /\ Place(b[j - 1]) = c.off + (j - 1) - 1
            BY <1>2, <3>2
        <3>5. /\ b[j].of = Len(said) /\ b[j - 1].of = Len(said) /\ b[j - 1].len = c.len
            BY <1>2, <3>2
        <3>6. /\ Place(b[j]) = Place(b[j - 1]) + 1
              /\ Place(b[j - 1]) + 1 # HeadLen + c.len
            <4>1. c.off + j - 1 = (c.off + (j - 1) - 1) + 1 /\ c.off + j - 1 < c.off + n
                BY <1>5, <3>2
            <4>2. c.off + n <= HeadLen + c.len
                BY <1>5
            <4>3. c.off + j - 1 # HeadLen + c.len
                BY <1>5, <3>2, <4>1, <4>2
            <4>. QED BY <3>4, <4>1, <4>3
        <3>7. ~Final(b[j - 1])
            BY <3>5, <3>6 DEF Final
        <3>. QED BY <3>2, <3>3, <3>5, <3>6, <3>7
    <2>. QED BY <1>1, <2>1, <2>2, <2>3
<1>7. Framed'
    <2>1. DOMAIN w = 1 .. m + n
        BY <1>1, <1>3
    <2>. QED BY <1>4, <1>6, <2>1 DEF Framed
<1>8. Len(w) = m + n /\ w # <<>> /\ w[m + n] = b[n]
    BY <1>1, <1>3
<1>9. b[n].of = Len(said) /\ b[n].len = c.len /\ Place(b[n]) = c.off + n - 1
    BY <1>2
<1>10. Final(b[n]) <=> c.off + n = Total
    BY <1>5, <1>9 DEF Final
<1>. QED BY <1>3, <1>4, <1>7, <1>8, <1>9, <1>10

LEMMA WriteInit == Init => WInv
BY TypeInit DEF Init, WInv, Framed, Finished

LEMMA WriteNext == WInv /\ [Next]_vars => WInv'
<1>. SUFFICES ASSUME WInv, [Next]_vars PROVE WInv'
    OBVIOUS
<1>1. TypeOK /\ TypeOK'
    BY TypeNext DEF WInv
<1>2. /\ c.off \in Nat /\ c.len \in Nat /\ Len(said) \in Nat /\ HeadLen \in Nat \ {0}
      /\ End <= Total /\ Total \in Nat /\ End \in Nat
    BY <1>1, LengthFacts
<1>3. ASSUME wire' = wire
      PROVE  /\ wire' \in Seq(Byte) /\ Framed'
             /\ \A k : Finished(k)' <=> Finished(k)
    <2>1. wire \in Seq(Byte) /\ Framed
        BY DEF WInv
    <2>2. Framed'
        BY <1>3, <2>1 DEF Framed
    <2>. QED BY <1>3, <2>1, <2>2 DEF Finished
<1>4. ASSUME mode' = "closed", wire' \in Seq(Byte), Framed' PROVE WInv'
    BY <1>1, <1>4 DEF WInv
<1>5. CASE DealRead
    <2>1. wire' = wire /\ said' = said /\ mode = "read"
        BY <1>5 DEF DealRead
    <2>2. mode' \in {"closed", "parse"}
        BY <1>5 DEF DealRead, Close, Parse
    <2>. QED BY <1>1, <1>3, <2>1, <2>2 DEF WInv
<1>6. CASE ParseTurn
    <2>1. wire' = wire /\ mode = "parse"
        BY <1>6 DEF ParseTurn
    <2>2. CASE mode' \in {"read", "parse"} /\ said' = said
        BY <1>1, <1>3, <2>1, <2>2 DEF WInv
    <2>3. ASSUME NEW r, NEW d, Found(r, d) PROVE WInv'
        <3>1. mode' = "busy" /\ Len(said') = Len(said) + 1
            BY <1>1, <2>3, FoundFacts
        <3>3. Len(said') - 1 = Len(said) /\ Len(said') > 0
            BY <1>2, <3>1
        <3>4. Finished(Len(said))
            BY <2>1 DEF WInv
        <3>. QED BY <1>1, <1>3, <2>1, <3>1, <3>3, <3>4 DEF WInv, Finished
    <2>. QED BY <1>6, <2>1, <2>2, <2>3, ParseCases DEF Incomplete
<1>7. CASE Business
    <2>1. /\ mode = "busy" /\ mode' = "write" /\ c' = ProcessWrite(c)
          /\ wire' = wire /\ said' = said
        BY <1>7 DEF Business
    <2>2. c'.off = 0
        BY <1>1, <2>1, WriteFacts, Types
    <2>3. HeadLen \in Nat \ {0} /\ Total' \in Nat /\ c'.len \in Nat /\ Total' = HeadLen + c'.len
        <3>1. c' \in Conn
            BY <1>1 DEF TypeOK
        <3>2. c'.len \in Nat
            BY <3>1 DEF Conn
        <3>. QED BY <1>2, <3>2 DEF Total
    <2>4. Sending'
        BY <1>3, <2>1, <2>2, <2>3 DEF Sending, WInv, Finished
    <2>. QED BY <1>1, <1>3, <2>1, <2>4 DEF WInv
<1>8. CASE DealWrite
    <2>1. mode = "write" /\ UNCHANGED <<client, said>> /\ Sending
        BY <1>8 DEF DealWrite, WInv
    <2>2. CASE peer = "rst"
        BY <1>3, <1>4, <1>8, <2>2 DEF DealWrite, Close
    <2>3. CASE peer # "rst"
        <3>1. PICK n \in {0} \cup 1 .. End - c.off :
              /\ wire' = wire \o Bytes(n)
              /\ \/ c.off + n = Total /\ Finish
                 \/ c.off + n # Total /\ n > 0 /\ WriteMore(n)
                 \/ n = 0 /\ EndOfFile
            BY <1>8, <2>3 DEF DealWrite
        <3>2. CASE n = 0
            <4>1. wire' = wire
                <5>1. wire \in Seq(Byte) /\ Bytes(0) = <<>>
                    BY <1>1, BytesFacts DEF WInv
                <5>. QED BY <3>1, <3>2, <5>1
            <4>2. CASE Close
                BY <1>3, <1>4, <4>1, <4>2 DEF Close
            <4>3. CASE WriteMore(0)
                <5>1. mode' = mode /\ c' = [c EXCEPT !.off = @ + 0] /\ said' = said
                    BY <2>1, <4>3 DEF WriteMore
                <5>2. c'.off = c.off /\ c'.len = c.len
                    BY <1>1, <1>2, <5>1, MoveFacts, Types
                <5>3. Sending'
                    BY <1>3, <2>1, <4>1, <5>1, <5>2 DEF Sending, Total, Finished
                <5>. QED BY <1>1, <1>3, <2>1, <4>1, <5>1, <5>3 DEF WInv
            <4>. QED BY <1>2, <2>1, <3>1, <3>2, <4>2, <4>3 DEF EndOfFile, Sending
        <3>3. CASE n # 0
            <4>1. n \in Nat /\ n > 0 /\ c.off + n <= End
                BY <1>2, <3>1, <3>3
            <4>2. /\ wire' \in Seq(Byte) /\ Framed' /\ wire' # <<>>
                  /\ wire'[Len(wire')].of = Len(said) /\ wire'[Len(wire')].len = c.len
                  /\ Place(wire'[Len(wire')]) = c.off + n - 1
                  /\ Final(wire'[Len(wire')]) <=> c.off + n = Total
                <5>1. c.off + n <= Total
                    BY <1>2, <4>1
                <5>. QED BY <2>1, <3>1, <4>1, <5>1, MoreBytes
            <4>3. CASE c.off + n = Total /\ Finish
                <5>1. Finished(Len(said))'
                    BY <2>1, <4>2, <4>3 DEF Finished
                <5>2. mode' \in {"closed", "parse", "read"}
                    BY <4>3 DEF Finish, Close, Parse
                <5>. QED BY <1>1, <4>2, <5>1, <5>2 DEF WInv
            <4>4. CASE c.off + n # Total /\ WriteMore(n)
                <5>1. mode' = mode /\ c' = [c EXCEPT !.off = @ + n] /\ said' = said
                    BY <2>1, <4>4 DEF WriteMore
                <5>2. c'.off = c.off + n /\ c'.len = c.len
                    BY <1>1, <4>1, <5>1, MoveFacts, Types
                <5>3. c.off + n < Total /\ c.off + n # 0 /\ Total' = Total
                    <6>1. Total' = Total
                        BY <5>2 DEF Total
                    <6>2. PICK a \in Nat, x \in Nat, z \in Nat : a = c.off /\ x = End /\ z = Total
                        BY <1>2
                    <6>3. a + n <= x /\ x <= z /\ a + n # z
                        BY <1>2, <4>1, <4>4, <6>2
                    <6>. QED BY <4>1, <6>1, <6>2, <6>3
                <5>4. /\ c'.off # 0 /\ c'.off < Total' /\ c'.off - 1 = c.off + n - 1
                      /\ Len(said') > 0
                    BY <1>2, <2>1, <5>1, <5>2, <5>3 DEF Sending
                <5>5. /\ wire'[Len(wire')].of = Len(said') /\ wire'[Len(wire')].len = c'.len
                      /\ Place(wire'[Len(wire')]) = c'.off - 1
                    BY <4>2, <5>1, <5>2, <5>4
                <5>6. Sending'
                    BY <4>2, <5>4, <5>5 DEF Sending
                <5>. QED BY <1>1, <2>1, <4>2, <5>1, <5>6 DEF WInv
            <4>. QED BY <3>1, <3>3, <4>3, <4>4
        <3>. QED BY <3>2, <3>3
    <2>. QED BY <2>2, <2>3
<1>9. CASE CutFile
    <2>1. /\ mode = "write" /\ mode' = mode /\ wire' = wire /\ said' = said
          /\ c' = [c EXCEPT !.actual = @ - 1] /\ c.actual > 0
        BY <1>9 DEF CutFile
    <2>2. c'.off = c.off /\ c'.len = c.len
        BY <1>1, <2>1, CutFacts, Types
    <2>3. Sending'
        BY <1>3, <2>1, <2>2 DEF WInv, Sending, Total, Finished
    <2>. QED BY <1>1, <1>3, <2>1, <2>3 DEF WInv
<1>10. ASSUME UNCHANGED <<c, mode, wire, said>> PROVE WInv'
    <2>1. Sending => Sending'
        BY <1>10 DEF Sending, Total, Finished
    <2>. QED BY <1>1, <1>3, <1>10, <2>1 DEF WInv
<1>11. ASSUME NEW n \in 1 .. Len(todo), Send(n) PROVE WInv'
    BY <1>10, <1>11 DEF Send
<1>12. CASE Leave
    BY <1>10, <1>12 DEF Leave
<1>13. CASE UNCHANGED vars
    BY <1>10, <1>13 DEF vars
<1>. QED BY <1>5, <1>6, <1>7, <1>8, <1>9, <1>11, <1>12, <1>13 DEF Next, Server

\* The client gets whole answers one after the other, each with as many bytes
\* as its head announces, and the beginning of the one that is being sent:
\* also when the socket takes them in pieces, when the file becomes shorter
\* meanwhile, and over any number of requests on a connection that is kept
\* alive (write, reset_for_next, process_write).
THEOREM AnswersWhole == Spec => []Framed
<1>1. WInv => Framed
    BY DEF WInv
<1>. QED BY <1>1, WriteInit, WriteNext, PTL DEF Spec
-----------------------------------------------------------------------------
(* Chains of requests *)

LEMMA ChainStable ==
    ASSUME NEW s \in Seq(Token), NEW t \in Seq(Token), Begins(s, t),
           NEW r \in Seq(Answer), NEW e, Chain(s, r, e)
    PROVE  Chain(t, r, e)
<1>1. Len(s) \in Nat /\ Len(t) \in Nat /\ Len(s) <= Len(t) /\ Len(r) \in Nat
    BY DEF Begins
<1>2. e \in [0 .. Len(r) -> 0 .. Len(s)] /\ e[0] = 0
    BY DEF Chain
<1>3. e \in [0 .. Len(r) -> 0 .. Len(t)]
    <2>1. 0 .. Len(s) \subseteq 0 .. Len(t)
        BY <1>1
    <2>. QED BY <1>2, <2>1
<1>4. ASSUME NEW j \in 1 .. Len(r)
      PROVE  Complete(t, e[j - 1]) /\ RequestAfter(t, e[j - 1]) = RequestAfter(s, e[j - 1])
    <2>1. Complete(s, e[j - 1])
        BY DEF Chain
    <2>2. j - 1 \in 0 .. Len(r)
        BY <1>1
    <2>3. e[j - 1] \in 0 .. Len(s)
        BY <1>2, <2>2
    <2>4. e[j - 1] \in Nat
        BY <1>1, <2>3
    <2>. QED BY <2>1, <2>4, CompleteStable
<1>. QED BY <1>2, <1>3, <1>4 DEF Chain

LEMMA ChainEnds ==
    ASSUME NEW s, NEW r \in Seq(Answer), NEW e, Chain(s, r, e)
    PROVE  e[Len(r)] \in 0 .. Len(s)
<1>1. Len(r) \in 0 .. Len(r)
    OBVIOUS
<1>2. e \in [0 .. Len(r) -> 0 .. Len(s)]
    BY DEF Chain
<1>. QED BY <1>1, <1>2

\* One more request.
LEMMA ChainAppend ==
    ASSUME NEW s \in Seq(Token), NEW r \in Seq(Answer), NEW e, Chain(s, r, e),
           ~LastBad(r), Complete(s, e[Len(r)]),
           NEW q, q = RequestAfter(s, e[Len(r)]),
           NEW z \in Seq(Answer), Len(z) = Len(r) + 1,
           \A j \in 1 .. Len(r) : z[j] = r[j],
           z[Len(r) + 1].ret = q.ret, z[Len(r) + 1].url = q.url
    PROVE  \E f : Chain(s, z, f) /\ f[Len(z)] = q.to
<1> DEFINE k == Len(r)
           f == [j \in 0 .. k + 1 |-> IF j = k + 1 THEN q.to ELSE e[j]]
<1>1. k \in Nat /\ Len(s) \in Nat /\ e \in [0 .. k -> 0 .. Len(s)] /\ e[0] = 0
    BY DEF Chain
<1>2. e[k] \in Nat
    BY <1>1
<1>3. q.to \in 0 .. Len(s)
    BY <1>1, <1>2, RequestEnds
<1>4. f \in [0 .. k + 1 -> 0 .. Len(s)] /\ f[0] = 0
    BY <1>1, <1>3
<1>5. ASSUME NEW j \in 1 .. k + 1
      PROVE  LET p == RequestAfter(s, f[j - 1]) IN
             /\ Complete(s, f[j - 1]) /\ f[j] = p.to
             /\ z[j].ret = p.ret /\ z[j].url = p.url
             /\ j < k + 1 => p.ret # "BadRequest"
    <2>1. f[j - 1] = e[j - 1]
        BY <1>1
    <2>2. CASE j = k + 1
        <3>1. j - 1 = k /\ f[j] = q.to /\ ~(j < k + 1)
            BY <1>1, <2>2
        <3>2. f[j - 1] = e[Len(r)] /\ z[j] = z[Len(r) + 1]
            BY <2>1, <2>2, <3>1
        <3> HIDE DEF f
        <3>. QED BY <3>1, <3>2
    <2>3. CASE j # k + 1
        <3>1. j \in 1 .. Len(r) /\ f[j] = e[j] /\ z[j] = r[j]
            BY <1>1, <2>3
        <3>2. PICK p : p = RequestAfter(s, e[j - 1])
            OBVIOUS
        <3>3. /\ Complete(s, e[j - 1]) /\ e[j] = p.to
              /\ r[j].ret = p.ret /\ r[j].url = p.url
              /\ j < Len(r) => p.ret # "BadRequest"
            BY <3>1, <3>2 DEF Chain
        <3>4. p.ret # "BadRequest"
            <4>1. CASE j < Len(r)
                BY <3>3, <4>1
            <4>2. CASE ~(j < Len(r))
                <5>1. j = Len(r) /\ r # <<>>
                    BY <1>1, <3>1, <4>2
                <5>. QED BY <3>3, <5>1 DEF LastBad
            <4>. QED BY <4>1, <4>2
        <3> HIDE DEF f
        <3>. QED BY <2>1, <3>1, <3>2, <3>3, <3>4
    <2>. QED BY <2>2, <2>3
<1>6. f[Len(z)] = q.to
    BY <1>1
<1> HIDE DEF f
<1>7. Chain(s, z, f)
    BY <1>4, <1>5 DEF Chain
<1>. QED BY <1>6, <1>7

\* What the equation makes of a chain: the requests after its n-th last
\* position are the last n of it and whatever follows its end.
Behind(s, r, e, n) ==
    LET k == Len(r)
        w == From(s)[e[k - n]]
    IN  /\ n <= Len(w)
        /\ \A j \in 1 .. n : w[j] = RequestAfter(s, e[k - n + j - 1])
        /\ LastBad(r) /\ n > 0 => Len(w) = n
        /\ ~LastBad(r) => /\ Len(w) = n + Len(From(s)[e[k]])
                          /\ From(s)[e[k]] # <<>> => w[n + 1] = From(s)[e[k]][1]

LEMMA BehindStep ==
    ASSUME NEW s \in Seq(Token), NEW r \in Seq(Answer), NEW e, Chain(s, r, e),
           NEW n \in Nat, n < Len(r), Behind(s, r, e, n)
    PROVE  Behind(s, r, e, n + 1)
<1> DEFINE k == Len(r)
           R == { RequestAfter(s, x) : x \in 0 .. Len(s) }
<1>1. PICK j : j = k - n
    OBVIOUS
<1>2. /\ k \in Nat /\ j \in 1 .. k /\ j - 1 \in 0 .. k /\ j \in 0 .. k /\ k \in 0 .. k
      /\ k - (n + 1) = j - 1
    BY <1>1
<1>3. e \in [0 .. k -> 0 .. Len(s)]
    BY DEF Chain
<1>4. PICK i, q : i = e[j - 1] /\ q = RequestAfter(s, i)
    OBVIOUS
<1>5. i \in 0 .. Len(s) /\ e[j] \in 0 .. Len(s) /\ e[k] \in 0 .. Len(s)
    BY <1>2, <1>3, <1>4
<1>6. Complete(s, i) /\ e[j] = q.to /\ r[j].ret = q.ret /\ (j < k => q.ret # "BadRequest")
    BY <1>2, <1>4 DEF Chain
<1>7. PICK v \in Seq(R), w \in Seq(R), u \in Seq(R) :
          v = From(s)[i] /\ w = From(s)[e[j]] /\ u = From(s)[e[k]]
    <2> HIDE DEF R, k
    <2>. QED BY <1>5, FromType DEF R
<1>8. v = Rest(s, From(s), i)
    BY <1>5, <1>7, FromDef
<1>9. q \in R
    BY <1>4, <1>5
<1> HIDE DEF R
<1>10. /\ n <= Len(w)
       /\ \A x \in 1 .. n : w[x] = RequestAfter(s, e[j + x - 1])
       /\ LastBad(r) /\ n > 0 => Len(w) = n
       /\ ~LastBad(r) => /\ Len(w) = n + Len(u)
                         /\ u # <<>> => w[n + 1] = u[1]
    BY <1>1, <1>7 DEF Behind
<1>11. /\ n + 1 <= Len(v)
       /\ \A x \in 1 .. n + 1 : v[x] = RequestAfter(s, e[j - 1 + x - 1])
       /\ LastBad(r) => Len(v) = n + 1
       /\ ~LastBad(r) => /\ Len(v) = n + 1 + Len(u)
                         /\ u # <<>> => v[n + 1 + 1] = u[1]
    <2>1. CASE q.ret = "BadRequest"
        <3>1. v = <<q>>
            BY <1>4, <1>6, <1>8, <2>1 DEF Rest
        <3>2. j = k /\ n = 0
            BY <1>1, <1>2, <1>6, <2>1
        <3>3. LastBad(r)
            BY <1>2, <1>6, <2>1, <3>2 DEF LastBad
        <3>4. Len(v) = 1 /\ v[1] = q
            BY <3>1
        <3>5. \A x \in 1 .. n + 1 : x = 1 /\ j - 1 + x - 1 = j - 1
            BY <1>2, <3>2
        <3>. QED BY <1>4, <3>2, <3>3, <3>4, <3>5
    <2>2. CASE q.ret # "BadRequest"
        <3>1. v = <<q>> \o w
            BY <1>4, <1>6, <1>7, <1>8, <2>2 DEF Rest
        <3>2. /\ Len(v) = 1 + Len(w) /\ v[1] = q /\ Len(w) \in Nat /\ Len(u) \in Nat
              /\ \A x \in 1 .. Len(w) : v[1 + x] = w[x]
            BY <1>9, <3>1
        <3>3. ASSUME NEW x \in 1 .. n + 1 PROVE v[x] = RequestAfter(s, e[j - 1 + x - 1])
            <4>1. CASE x = 1
                <5>1. j - 1 + x - 1 = j - 1
                    BY <1>2, <4>1
                <5>. QED BY <1>4, <3>2, <4>1, <5>1
            <4>2. CASE x # 1
                <5>1. /\ x - 1 \in 1 .. n /\ x - 1 \in 1 .. Len(w) /\ 1 + (x - 1) = x
                      /\ j + (x - 1) - 1 = j - 1 + x - 1
                    BY <1>2, <1>10, <3>2, <4>2
                <5>2. v[1 + (x - 1)] = w[x - 1]
                    BY <3>2, <5>1
                <5>3. w[x - 1] = RequestAfter(s, e[j + (x - 1) - 1])
                    BY <1>10, <5>1
                <5>. QED BY <5>1, <5>2, <5>3
            <4>. QED BY <4>1, <4>2
        <3>4. CASE LastBad(r)
            <4>1. n > 0
                <5>1. n = 0 => j = k
                    BY <1>1
                <5>. QED BY <1>6, <2>2, <3>4, <5>1 DEF LastBad
            <4>2. Len(w) = n
                BY <1>10, <3>4, <4>1
            <4>3. Len(v) = n + 1 /\ n + 1 <= Len(v)
                BY <3>2, <4>2
            <4>. QED BY <3>3, <3>4, <4>3
        <3>5. CASE ~LastBad(r)
            <4>1. Len(w) = n + Len(u) /\ (u # <<>> => w[n + 1] = u[1])
                BY <1>10, <3>5
            <4>2. u # <<>> => n + 1 \in 1 .. Len(w) /\ 1 + (n + 1) = n + 1 + 1
                BY <3>2, <4>1
            <4>3. u # <<>> => v[n + 1 + 1] = u[1]
                BY <3>2, <4>1, <4>2
            <4>4. Len(v) = n + 1 + Len(u) /\ n + 1 <= Len(v)
                BY <3>2, <4>1
            <4>. QED BY <3>3, <3>5, <4>3, <4>4
        <3>. QED BY <3>4, <3>5
    <2>. QED BY <2>1, <2>2
<1>. QED BY <1>2, <1>4, <1>7, <1>11 DEF Behind

LEMMA BehindAll ==
    ASSUME NEW s \in Seq(Token), NEW r \in Seq(Answer), NEW e, Chain(s, r, e)
    PROVE  Behind(s, r, e, Len(r))
<1> DEFINE k == Len(r)
           Bad == { n \in 0 .. k : ~Behind(s, r, e, n) }
<1>1. k \in Nat /\ k - 0 = k
    OBVIOUS
<1>2. CASE Bad = {}
    BY <1>1, <1>2
<1>3. CASE Bad # {}
    <2>1. PICK n \in Bad : \A m \in Bad : n <= m
        <3>1. Bad \subseteq Nat
            BY <1>1
        <3> HIDE DEF Bad
        <3>. QED BY <1>3, <3>1, Least
    <2>2. n \in 0 .. k /\ ~Behind(s, r, e, n)
        OBVIOUS
    <2>3. CASE n = 0
        <3>1. PICK w : w = From(s)[e[k]]
            OBVIOUS
        <3>2. Len(w) \in Nat /\ (w # <<>> => Len(w) > 0)
            <4>1. e[k] \in 0 .. Len(s)
                BY <1>1 DEF Chain
            <4>2. w \in Seq({ RequestAfter(s, x) : x \in 0 .. Len(s) })
                BY <3>1, <4>1, FromType
            <4>. QED BY <4>2
        <3>3. Behind(s, r, e, 0)
            BY <1>1, <3>1, <3>2 DEF Behind
        <3>. QED BY <2>2, <2>3, <3>3
    <2>4. CASE n # 0
        <3>1. n - 1 \in 0 .. k /\ n - 1 \in Nat /\ n - 1 < k /\ (n - 1) + 1 = n
              /\ ~(n <= n - 1)
            BY <1>1, <2>2, <2>4
        <3>2. Behind(s, r, e, n - 1)
            <4>1. n - 1 \notin Bad
                <5> HIDE DEF Bad
                <5>. QED BY <2>1, <3>1
            <4>. QED BY <3>1, <4>1
        <3>3. Behind(s, r, e, (n - 1) + 1)
            BY <3>1, <3>2, BehindStep
        <3>. QED BY <2>2, <3>1, <3>3
    <2>. QED BY <2>3, <2>4
<1>. QED BY <1>2, <1>3

\* A chain is what Parsed begins with; it is all of it when it ends in a
\* malformed request or before an incomplete one.
LEMMA ChainParsed ==
    ASSUME NEW s \in Seq(Token), NEW r \in Seq(Answer), NEW e, Chain(s, r, e)
    PROVE  LET k == Len(r) IN
           /\ Len(Parsed(s)) \in Nat /\ k <= Len(Parsed(s))
           /\ \A j \in 1 .. k : /\ Parsed(s)[j].ret = r[j].ret /\ Parsed(s)[j].url = r[j].url
                                /\ Parsed(s)[j].to = e[j]
           /\ LastBad(r) => Len(Parsed(s)) = k
           /\ ~LastBad(r) /\ Complete(s, e[k]) => Parsed(s)[k + 1] = RequestAfter(s, e[k])
           /\ ~LastBad(r) /\ ~Complete(s, e[k]) => Len(Parsed(s)) = k
<1> DEFINE k == Len(r)
           R == { RequestAfter(s, x) : x \in 0 .. Len(s) }
<1>1. k \in Nat /\ k - k = 0 /\ e \in [0 .. k -> 0 .. Len(s)] /\ e[0] = 0 /\ Len(s) \in Nat
    BY DEF Chain
<1>2. e[k] \in 0 .. Len(s) /\ 0 \in 0 .. Len(s)
    BY <1>1
<1>3. PICK v \in Seq(R), u \in Seq(R) :
          v = From(s)[0] /\ u = From(s)[e[k]]
    <2> HIDE DEF R, k
    <2>. QED BY <1>2, FromType DEF R
<1>4. Parsed(s) = v
    BY <1>3, ParsedFrom
<1> HIDE DEF R
<1>5. /\ k <= Len(v)
      /\ \A j \in 1 .. k : v[j] = RequestAfter(s, e[k - k + j - 1])
      /\ LastBad(r) /\ k > 0 => Len(v) = k
      /\ ~LastBad(r) => /\ Len(v) = k + Len(u)
                        /\ u # <<>> => v[k + 1] = u[1]
    <2>1. Behind(s, r, e, k)
        BY BehindAll
    <2>2. From(s)[e[k - k]] = v
        BY <1>1, <1>3
    <2> HIDE DEF k
    <2>. QED BY <1>3, <2>1, <2>2 DEF Behind, k
<1>6. ASSUME NEW j \in 1 .. k
      PROVE  v[j].ret = r[j].ret /\ v[j].url = r[j].url /\ v[j].to = e[j]
    <2>1. k - k + j - 1 = j - 1
        BY <1>1
    <2>2. v[j] = RequestAfter(s, e[j - 1])
        BY <1>5, <2>1
    <2>. QED BY <2>2 DEF Chain
<1>7. LastBad(r) => k > 0
    BY <1>1 DEF LastBad
<1>8. u = Rest(s, From(s), e[k])
    BY <1>2, <1>3, FromDef
<1>9. CASE Complete(s, e[k])
    <2>1. PICK q : q = RequestAfter(s, e[k])
        OBVIOUS
    <2>2. u # <<>> /\ u[1] = q
        <3>1. CASE q.ret = "BadRequest"
            BY <1>8, <1>9, <2>1, <3>1 DEF Rest
        <3>2. CASE q.ret # "BadRequest"
            <4>1. q.to \in 0 .. Len(s)
                BY <1>1, <1>2, <1>9, <2>1, RequestEnds
            <4>2. PICK w \in Seq(R) : w = From(s)[q.to]
                <5> HIDE DEF k
                <5>. QED BY <4>1, FromType DEF R
            <4>3. q \in R
                BY <1>2, <2>1 DEF R
            <4>4. u = <<q>> \o w
                BY <1>8, <1>9, <2>1, <3>2, <4>2 DEF Rest
            <4>. QED BY <4>3, <4>4
        <3>. QED BY <3>1, <3>2
    <2>. QED BY <1>4, <1>5, <1>6, <1>7, <1>9, <2>1, <2>2
<1>10. CASE ~Complete(s, e[k])
    <2>1. u = <<>>
        BY <1>8, <1>10 DEF Rest
    <2>. QED BY <1>4, <1>5, <1>6, <1>7, <1>10, <2>1
<1>. QED BY <1>9, <1>10
-----------------------------------------------------------------------------
(* What stays true when more arrives *)

LEMMA NotEmpty == \A S : \A s \in Seq(S) : Len(s) = 1 => s # <<>>
OBVIOUS

LEMMA SameSeq ==
    ASSUME NEW S, NEW s \in Seq(S), NEW t \in Seq(S), Len(s) = Len(t),
           \A j \in 1 .. Len(s) : s[j] = t[j]
    PROVE  s = t
<1>1. Len(s) \in Nat
    OBVIOUS
<1>2. s = [j \in 1 .. Len(s) |-> s[j]] /\ t = [j \in 1 .. Len(s) |-> t[j]]
    OBVIOUS
<1>. QED BY <1>1, <1>2

\* What has been sent is one of the streams ParsedOf is defined for.
LEMMA RequestsAre ==
    ASSUME TypeOK, InTransit PROVE Requests = Parsed(sent)
<1>1. PICK a \in Seq(Token), b \in Seq(Token) : a = sent /\ b = todo
    BY Types
<1>2. /\ a \o b \in Seq(Token) /\ Len(a \o b) = Len(a) + Len(b)
      /\ \A j \in 1 .. Len(a) : (a \o b)[j] = a[j]
    BY Joined
<1>3. Len(a) \in Nat /\ Len(b) \in Nat /\ Len(a) - 0 = Len(a) /\ 0 + 1 = 1
    OBVIOUS
<1>4. PICK t \in Seq(Token) : t = a \o b
    BY <1>2
<1>5. a = SubSeq(t, 1, Len(a))
    <2>1. Len(a) <= Len(t)
        BY <1>2, <1>3, <1>4
    <2>2. PICK p : p = SubSeq(t, 0 + 1, Len(a))
        OBVIOUS
    <2>3. p \in Seq(Token) /\ Len(p) = Len(a) - 0 /\ \A j \in 1 .. Len(a) - 0 : p[j] = t[0 + j]
        BY <1>3, <2>1, <2>2, Pieces
    <2>4. \A j \in 1 .. Len(a) : p[j] = a[j]
        <3>1. \A j \in 1 .. Len(a) : 0 + j = j
            OBVIOUS
        <3>. QED BY <1>2, <1>3, <1>4, <2>3, <3>1
    <2>5. p = a
        BY <1>3, <2>3, <2>4, SameSeq
    <2>. QED BY <1>3, <2>2, <2>5
<1>6. a \in Prefixes(t)
    <2>1. Len(a) \in 0 .. Len(t)
        BY <1>2, <1>3, <1>4
    <2>. QED BY <1>5, <2>1 DEF Prefixes
<1>7. t \in Streams
    BY <1>1, <1>4 DEF InTransit
<1>. QED BY <1>1, <1>6, <1>7 DEF Requests, ParsedOf

\* No line break is known differently when more arrives, and no stray.
LEMMA StraysStable ==
    ASSUME NEW s \in Seq(Token), NEW t \in Seq(Token), Begins(s, t),
           NEW n \in Nat, 2 <= n, n <= Len(s), s[n - 1] = "CR", s[n] = "LF"
    PROVE  \A m : m \in Nat /\ m <= n => (m \in Strays(s) <=> m \in Strays(t))
<1>1. Len(s) \in Nat /\ Len(t) \in Nat /\ Len(s) <= Len(t)
    BY DEF Begins
<1>2. SUFFICES ASSUME NEW m \in Nat, m <= n PROVE m \in Strays(s) <=> m \in Strays(t)
    OBVIOUS
<1>3. CASE m = n
    <2>1. t[n - 1] = "CR" /\ t[n] = "LF"
        BY <1>1 DEF Begins
    <2>. QED BY <1>3, <2>1 DEF Strays
<1>4. CASE m = 0
    BY <1>4 DEF Strays
<1>5. CASE m # n /\ m # 0
    <2>1. /\ m \in 1 .. Len(s) /\ m + 1 \in 1 .. Len(s) /\ (m # 1 => m - 1 \in 1 .. Len(s))
          /\ m < Len(s) /\ m < Len(t) /\ m \in 1 .. Len(t)
        <3>1. m < n /\ m >= 1 /\ m + 1 <= n
            BY <1>2, <1>5
        <3>. QED BY <1>1, <3>1
    <2>2. t[m] = s[m] /\ t[m + 1] = s[m + 1] /\ (m # 1 => t[m - 1] = s[m - 1])
        BY <2>1 DEF Begins
    <2>3. m \in DOMAIN s /\ m \in DOMAIN t
        BY <1>1, <2>1
    <2>. QED BY <2>1, <2>2, <2>3 DEF Strays
<1>. QED BY <1>3, <1>4, <1>5

LEMMA UndecidedStable ==
    ASSUME NEW s \in Seq(Token), NEW t \in Seq(Token), Begins(s, t),
           NEW i \in Nat, NEW p \in Nat, Undecided(s, i, p), NEW d, Knows(s, i, p, d)
    PROVE  Undecided(t, i, p) /\ Knows(t, i, p, d)
<1>1. p \in Nat
    OBVIOUS
<1>2. /\ p = i \/ p \in Ends(s, i)
      /\ \A n \in Deciding(s, i) : p < n
      /\ \A m \in Strays(s) : m <= i \/ p < m
    BY DEF Undecided
<1>3. /\ Ends(s, i) \subseteq Nat /\ Ends(t, i) \subseteq Nat
      /\ Deciding(s, i) \subseteq Ends(s, i) /\ Deciding(t, i) \subseteq Ends(t, i)
      /\ \A n \in Ends(t, i) : i < n
      /\ \A n \in Ends(s, i) : i < n
    BY EndsFacts
<1>4. CASE p = i
    <2>1. \A n \in Deciding(t, i) : p < n
        BY <1>3, <1>4
    <2>2. \A m \in Strays(t) : m <= i \/ p < m
        <3>1. \A m \in Strays(t) : m \in Nat
            BY DEF Strays
        <3>. QED BY <1>1, <1>4, <3>1
    <2>3. ~Has(t, i, p + 1, "host") /\ ~Has(s, i, p + 1, "host")
        BY <1>1, <1>3, <1>4 DEF Has
    <2>. QED BY <1>1, <1>4, <2>1, <2>2, <2>3 DEF Undecided, Knows
<1>5. CASE p # i
    <2>1. p \in Ends(s, i) /\ p \in Ends(t, i)
        BY <1>2, <1>5, LineStable
    <2>2. \A m \in Ends(t, i) : m <= p => m \in Ends(s, i)
        BY <1>3, <2>1, LineStable
    <2>3. ASSUME NEW n \in Deciding(t, i) PROVE p < n
        <3>1. n \in Ends(t, i) /\ n \in Nat
            BY <1>3
        <3>2. CASE n <= p
            <4>1. n \in Ends(s, i)
                BY <2>2, <3>1, <3>2
            <4>2. n \in Deciding(s, i)
                BY <4>1, HeadStable
            <4>. QED BY <1>2, <4>2
        <3>. QED BY <1>1, <3>1, <3>2
    <2>4. ASSUME NEW m \in Strays(t) PROVE m <= i \/ p < m
        <3>1. m \in Nat
            BY DEF Strays
        <3>2. CASE m <= p
            <4>1. 2 <= p /\ p <= Len(s) /\ s[p - 1] = "CR" /\ s[p] = "LF"
                BY <2>1, EndsFacts
            <4>2. m \in Strays(s)
                BY <1>1, <3>1, <3>2, <4>1, StraysStable
            <4>. QED BY <1>2, <4>2
        <3>. QED BY <1>1, <3>1, <3>2
    <2>5. RequestLine(t, i) = RequestLine(s, i)
        BY <2>1, HeadStable
    <2>6. Has(t, i, p + 1, "host") <=> Has(s, i, p + 1, "host")
        <3>1. \A m \in Nat : m < p + 1 <=> m <= p
            BY <1>1
        <3>2. \A m \in Nat : m <= p => (m \in Ends(s, i) <=> m \in Ends(t, i))
            BY <2>1, LineStable
        <3>3. \A m \in Ends(s, i) : Line(t, i, m) = Line(s, i, m)
            BY LineStable
        <3>. QED BY <1>3, <3>1, <3>2, <3>3 DEF Has
    <2>. QED BY <2>1, <2>3, <2>4, <2>5, <2>6 DEF Undecided, Knows
<1>. QED BY <1>4, <1>5

LEMMA ExhaustedStable ==
    ASSUME NEW s \in Seq(Token), NEW t \in Seq(Token), Begins(s, t),
           NEW i \in Nat, NEW d \in Conn, i + Len(d.buf) <= Len(s), Exhausted(s, i, d)
    PROVE  Exhausted(t, i, d)
<1>1. Len(d.buf) \in Nat /\ Len(s) \in Nat /\ Len(t) \in Nat
    BY ConnTypes
<1>2. SUFFICES ASSUME NEW n \in Ends(t, i), i + d.start < n, n <= i + Len(d.buf)
               PROVE  \E m \in Strays(t) : i < m /\ m < n
    BY DEF Exhausted
<1>3. n \in Nat /\ n >= 2 /\ t[n - 1] = "CR" /\ t[n] = "LF" /\ i < n
    BY EndsFacts
<1>4. n <= Len(s) /\ s[n - 1] = "CR" /\ s[n] = "LF"
    BY <1>1, <1>2, <1>3 DEF Begins
<1>5. n \in Ends(s, i)
    BY <1>1, <1>3, <1>4 DEF Ends, LineEnds
<1>6. PICK m \in Strays(s) : i < m /\ m < n
    BY <1>2, <1>5 DEF Exhausted
<1>7. m \in Nat
    BY DEF Strays
<1>8. m \in Strays(t)
    BY <1>3, <1>4, <1>6, <1>7, StraysStable
<1>. QED BY <1>6, <1>8

\* A request that is complete is not overlooked.
LEMMA NotOverlooked ==
    ASSUME NEW s \in Seq(Token), NEW i \in Nat, NEW d \in Conn,
           ParsedUpTo(s, i, d), Exhausted(s, i, d), Complete(s, i)
    PROVE  i + Len(d.buf) < Min(Deciding(s, i))
<1>1. PICK n : n = Min(Deciding(s, i))
    OBVIOUS
<1>2. n \in Deciding(s, i)
    <2>1. Deciding(s, i) \subseteq Nat /\ Deciding(s, i) # {}
        BY EndsFacts DEF Complete
    <2>. QED BY <1>1, <2>1, MinFacts
<1>3. n \in Ends(s, i) /\ n \in Nat /\ i + d.start < n /\ Len(d.buf) \in Nat
    BY <1>2, EndsFacts, ConnTypes DEF ParsedUpTo, Undecided
<1>4. ASSUME n <= i + Len(d.buf) PROVE FALSE
    <2>1. PICK m \in Strays(s) : i < m /\ m < n
        BY <1>3, <1>4 DEF Exhausted
    <2>2. m <= i \/ n < m
        BY <1>1 DEF Complete
    <2>3. m \in Nat
        BY DEF Strays
    <2>. QED BY <1>3, <2>1, <2>2, <2>3
<1>. QED BY <1>1, <1>3, <1>4
-----------------------------------------------------------------------------
(* Lines without bodies *)

LEMMA LineFacts ==
    ASSUME NEW s \in Seq(Token), NEW i \in Nat, NEW n \in Ends(s, i)
    PROVE  /\ Line(s, i, n) \in Seq(Token)
           /\ Line(s, i, n) # <<>> => \E x \in DOMAIN s : Line(s, i, n)[1] = s[x]
<1>1. PICK p : p = LineStart(s, i, n)
    OBVIOUS
<1>2. p \in Nat /\ p < n /\ n \in Nat /\ 2 <= n /\ n <= Len(s) /\ Len(s) \in Nat
    BY <1>1, LineStartFacts, EndsFacts
<1>3. PICK l : l = SubSeq(s, p + 1, n - 2)
    OBVIOUS
<1>4. l \in Seq(Token) /\ \A j \in 1 .. Len(l) : p + j \in DOMAIN s /\ l[j] = s[p + j]
    <2>1. CASE p <= n - 2
        <3>1. l \in Seq(Token) /\ Len(l) = n - 2 - p /\ \A j \in 1 .. n - 2 - p : l[j] = s[p + j]
            BY <1>2, <1>3, <2>1, Pieces
        <3>2. \A j \in 1 .. n - 2 - p : p + j \in DOMAIN s
            BY <1>2
        <3>. QED BY <3>1, <3>2
    <2>2. CASE p > n - 2
        <3>1. l = <<>>
            BY <1>2, <1>3, <2>2
        <3>. QED BY <3>1
    <2>. QED BY <1>2, <2>1, <2>2
<1>5. PICK k \in 0 .. Len(l) : CString(l) = SubSeq(l, 1, k)
    <2> DEFINE S == { j - 1 : j \in { j \in DOMAIN l : l[j] = "NUL" } } \cup {Len(l)}
    <2>1. Len(l) \in Nat /\ DOMAIN l = 1 .. Len(l)
        BY <1>4
    <2>2. S \subseteq Nat /\ Len(l) \in S
        BY <2>1
    <2>3. Min(S) \in Nat /\ Min(S) <= Len(l)
        <3> HIDE DEF S
        <3>. QED BY <2>2, MinFacts
    <2>4. CString(l) = SubSeq(l, 1, Min(S))
        BY DEF CString
    <2> HIDE DEF S
    <2>. QED BY <2>1, <2>3, <2>4
<1>6. PICK u : u = SubSeq(l, 0 + 1, k)
    OBVIOUS
<1>7. u \in Seq(Token) /\ Len(u) = k - 0 /\ \A j \in 1 .. k - 0 : u[j] = l[0 + j]
    <2>1. 0 <= k /\ k <= Len(l) /\ k \in Nat
        BY <1>4
    <2>. QED BY <1>4, <1>6, <2>1, Pieces
<1>8. Line(s, i, n) = u
    <2>1. 0 + 1 = 1
        OBVIOUS
    <2>2. Line(s, i, n) = CString(l)
        BY <1>1, <1>3 DEF Line
    <2>. QED BY <1>5, <1>6, <2>1, <2>2
<1>9. ASSUME u # <<>> PROVE \E x \in DOMAIN s : u[1] = s[x]
    <2>1. 1 \in 1 .. k - 0 /\ 1 \in 1 .. Len(l) /\ 0 + 1 = 1
        BY <1>4, <1>7, <1>9
    <2>2. u[1] = l[1]
        BY <1>7, <2>1
    <2>. QED BY <1>4, <2>1, <2>2
<1>. QED BY <1>7, <1>8, <1>9

LEMMA NoBodies ==
    ASSUME NEW s \in Seq(Token), ~HasBody(s), NEW i \in Nat
    PROVE  /\ \A n \in Ends(s, i) : Line(s, i, n) # <<>> => Line(s, i, n)[1] # "len1"
           /\ \A n : BodyLen(s, i, n) = 0
           /\ Complete(s, i) => RequestAfter(s, i).to = Min(Deciding(s, i))
<1>1. ASSUME NEW n \in Ends(s, i), Line(s, i, n) # <<>> PROVE Line(s, i, n)[1] # "len1"
    BY <1>1, LineFacts DEF HasBody
<1>2. ASSUME NEW n PROVE BodyLen(s, i, n) = 0
    BY <1>1 DEF BodyLen, Has, IsHeader
<1>3. ASSUME Complete(s, i) PROVE RequestAfter(s, i).to = Min(Deciding(s, i))
    <2>1. PICK n : n = Min(Deciding(s, i))
        OBVIOUS
    <2>2. CASE Wrong(s, i, n)
        BY <2>1, <2>2 DEF RequestAfter
    <2>3. CASE ~Wrong(s, i, n)
        <3>1. RequestAfter(s, i).to = n + BodyLen(s, i, n)
            BY <2>1, <2>3 DEF RequestAfter
        <3>2. n \in Nat
            <4>1. Deciding(s, i) \subseteq Nat /\ Deciding(s, i) # {}
                BY <1>3, EndsFacts DEF Complete
            <4>. QED BY <2>1, <4>1, MinFacts
        <3>. QED BY <1>2, <2>1, <3>1, <3>2
    <2>. QED BY <2>2, <2>3
<1>. QED BY <1>1, <1>2, <1>3
-----------------------------------------------------------------------------
(* One turn of the parser *)

\* The parser d holds the stream s from position i on, of which it has
\* overwritten what it has parsed.
Holds(s, i, d) ==
    /\ i + Len(d.buf) <= Len(s)
    /\ \A j \in d.start + 1 .. Len(d.buf) : d.buf[j] = s[i + j]

Reading(s, i, d) ==
    /\ d \in Conn /\ Ordered(d) /\ Holds(s, i, d) /\ Scanned(d)
    /\ i = 0 \/ s[i] = "LF"
    /\ i + d.start = i \/ i + d.start \in Ends(s, i)

\* parse_line() at a CR LF, the first line end behind p.
LineEnd(s, i, p, n, b) ==
    /\ b \in Nat /\ p < i + b /\ n = i + b + 1 /\ n \in Ends(s, i)
    /\ \A m \in p + 1 .. i + b - 1 : s[m] \notin {"CR", "LF"}

LEMMA ReadingTypes ==
    ASSUME NEW s \in Seq(Token), NEW i \in Nat, NEW d, Reading(s, i, d)
    PROVE  /\ d \in Conn /\ d.buf \in Seq(Token) /\ Len(d.buf) \in Nat /\ Len(s) \in Nat
           /\ d.start \in Nat /\ d.checked \in Nat /\ d.start <= d.checked
           /\ d.checked <= Len(d.buf) /\ i + Len(d.buf) <= Len(s)
           /\ \A j \in d.start + 1 .. Len(d.buf) : d.buf[j] = s[i + j] /\ i + j \in 1 .. Len(s)
           /\ \A j \in d.start + 1 .. d.checked : d.buf[j] \notin {"CR", "LF"}
           /\ d.start > 0 => i + d.start >= 2 /\ d.buf[d.start] # "CR" /\ s[i + d.start] = "LF"
<1>1. d \in Conn
    BY DEF Reading
<1>2. d.buf \in Seq(Token) /\ Len(d.buf) \in Nat /\ d.start \in Nat /\ d.checked \in Nat
    BY <1>1, ConnTypes
<1>3. Len(s) \in Nat
    OBVIOUS
<1>4. d.start > 0 => i + d.start >= 2 /\ s[i + d.start] = "LF"
    <2>1. d.start > 0 => i + d.start # i
        BY <1>2
    <2>. QED BY <2>1, EndsFacts DEF Reading
<1>. QED BY <1>1, <1>2, <1>3, <1>4 DEF Reading, Ordered, Holds, Scanned

\* The cases of parse_line(), seen in the stream.
LEMMA NextStop ==
    ASSUME NEW s \in Seq(Token), NEW i \in Nat, NEW d, Reading(s, i, d),
           NEW l, l = ParseLine(d)
    PROVE  \/ /\ l.status # "Ok" /\ Reading(s, i, l.c) /\ Exhausted(s, i, l.c)
              /\ l.c.start = d.start /\ Len(l.c.buf) = Len(d.buf) /\ SameHead(d, l.c)
           \/ \E n, b : LineEnd(s, i, i + d.start, n, b) /\ b < Len(d.buf) /\ l = EndLine(d, b)
<1> DEFINE p == i + d.start
           N == Len(d.buf)
           Stopped == /\ l.status # "Ok" /\ Reading(s, i, l.c) /\ Exhausted(s, i, l.c)
                      /\ l.c.start = d.start /\ Len(l.c.buf) = Len(d.buf) /\ SameHead(d, l.c)
<1>1. /\ d \in Conn /\ N \in Nat /\ Len(s) \in Nat
      /\ d.start \in Nat /\ d.checked \in Nat /\ d.start <= d.checked
      /\ d.checked <= N /\ i + N <= Len(s) /\ N <= BufSize
      /\ \A j \in d.start + 1 .. N : d.buf[j] = s[i + j] /\ i + j \in 1 .. Len(s)
      /\ \A j \in d.start + 1 .. d.checked : d.buf[j] \notin {"CR", "LF"}
      /\ d.start > 0 => i + d.start >= 2 /\ d.buf[d.start] # "CR" /\ s[i + d.start] = "LF"
    BY ReadingTypes DEF Reading, Ordered
<1> HIDE DEF N
\* Nothing but what has been looked at lies before a position it stops at.
<1>2. ASSUME NEW k \in d.checked .. N, NEW st, st # "Ok", l = At(st, d, k),
             \A j \in d.checked + 1 .. k : d.buf[j] \notin {"CR", "LF"},
             \A n \in Ends(s, i) : i + k < n /\ n <= i + N
                                       => \E m \in Strays(s) : i < m /\ m < n
      PROVE  Stopped
    <2>1. k \in Nat /\ d.start <= k /\ k <= N
        BY <1>1
    <2>2. /\ l.status = st /\ l.c \in Conn /\ l.c.checked = k
          /\ l.c.start = d.start /\ l.c.buf = d.buf /\ SameHead(d, l.c)
        BY <1>1, <1>2, <2>1, AtFacts
    <2>3. \A j \in d.start + 1 .. k : d.buf[j] \notin {"CR", "LF"}
        <3>1. \A j \in d.start + 1 .. k :
                  j \in d.start + 1 .. d.checked \/ j \in d.checked + 1 .. k
            BY <1>1, <2>1
        <3>. QED BY <1>1, <1>2, <3>1
    <2>4. Reading(s, i, l.c)
        BY <1>1, <2>1, <2>2, <2>3 DEF Reading, Ordered, Holds, Scanned, N
    <2>5. ASSUME NEW n \in Ends(s, i), i + d.start < n, n <= i + N
          PROVE  \E m \in Strays(s) : i < m /\ m < n
        <3>1. n \in Nat /\ s[n] = "LF"
            BY EndsFacts
        <3>2. CASE n <= i + k
            <4>1. PICK j \in d.start + 1 .. k : n = i + j
                <5>1. n - i \in d.start + 1 .. k /\ n = i + (n - i)
                    BY <1>1, <2>1, <2>5, <3>1, <3>2
                <5>. QED BY <5>1
            <4>2. j \in d.start + 1 .. N
                BY <1>1, <2>1
            <4>3. d.buf[j] = "LF"
                BY <1>1, <3>1, <4>1, <4>2
            <4>. QED BY <2>3, <4>3
        <3>. QED BY <1>1, <1>2, <2>1, <2>5, <3>1, <3>2
    <2>6. Exhausted(s, i, l.c)
        BY <2>2, <2>5 DEF Exhausted, N
    <2>. QED BY <1>2, <2>2, <2>4, <2>6
<1>3. CASE /\ \A j \in d.checked + 1 .. Len(d.buf) : d.buf[j] \notin {"CR", "LF"}
           /\ l = At("Open", d, Len(d.buf))
    <2>1. N \in d.checked .. N
        BY <1>1
    <2>2. \A n \in Ends(s, i) : ~(i + N < n /\ n <= i + N)
        BY <1>1, EndsFacts
    <2>. QED BY <1>2, <1>3, <2>1, <2>2 DEF N
<1>4. ASSUME NEW b, StopsAt(d, l, b)
      PROVE  Stopped \/ \E n : LineEnd(s, i, p, n, b) /\ b < N /\ l = EndLine(d, b)
    <2>1. /\ b \in d.checked + 1 .. N
          /\ \A j \in d.checked + 1 .. b - 1 : d.buf[j] \notin {"CR", "LF"}
        BY <1>4 DEF StopsAt, N
    <2>2. /\ b \in Nat /\ b >= 1 /\ b <= N /\ d.start < b /\ b - 1 \in d.checked .. N
          /\ b \in d.start + 1 .. N
        BY <1>1, <2>1
    <2>3. \A j \in d.start + 1 .. b - 1 : d.buf[j] \notin {"CR", "LF"}
        <3>1. \A j \in d.start + 1 .. b - 1 :
                  j \in d.start + 1 .. d.checked \/ j \in d.checked + 1 .. b - 1
            BY <1>1, <2>2
        <3>. QED BY <1>1, <2>1, <3>1
    <2>4. d.buf[b] = s[i + b] /\ i + b \in 1 .. Len(s)
        BY <1>1, <2>2
    <2>5. b > 1 => d.buf[b - 1] # "CR"
        <3>1. CASE b - 1 > d.start
            <4>1. b - 1 \in d.start + 1 .. b - 1
                BY <1>1, <2>2, <3>1
            <4>. QED BY <2>3, <4>1
        <3>2. CASE b - 1 = d.start
            BY <1>1, <2>2, <3>2
        <3>. QED BY <1>1, <2>2, <3>1, <3>2
    <2>6. CASE d.buf[b] = "CR" /\ b = N /\ l = At("Open", d, b - 1)
        <3>1. \A n \in Ends(s, i) : ~(i + (b - 1) < n /\ n <= i + N)
            <4>1. \A n \in Ends(s, i) : n \in Nat /\ s[n] = "LF"
                BY EndsFacts
            <4>2. \A n \in Nat : i + (b - 1) < n /\ n <= i + N => n = i + b
                BY <1>1, <2>2, <2>6
            <4>. QED BY <2>4, <2>6, <4>1, <4>2
        <3>. QED BY <1>2, <2>1, <2>2, <2>6, <3>1
    <2>7. CASE d.buf[b] = "CR" /\ b < N /\ d.buf[b + 1] = "LF" /\ l = EndLine(d, b)
        <3>1. b + 1 \in d.start + 1 .. N /\ i + (b + 1) = i + b + 1 /\ i + b >= 1
            BY <1>1, <2>2, <2>7
        <3>2. /\ s[i + b] = "CR" /\ s[i + b + 1] = "LF" /\ i + b + 1 \in 2 .. Len(s)
              /\ (i + b + 1) - 1 = i + b /\ i < i + b + 1
            <4>1. s[i + b + 1] = "LF" /\ i + b + 1 \in 1 .. Len(s)
                BY <1>1, <2>7, <3>1
            <4>. QED BY <2>2, <2>4, <2>7, <3>1, <4>1
        <3>3. i + b + 1 \in Ends(s, i)
            BY <3>2 DEF Ends, LineEnds
        <3>4. ASSUME NEW m \in p + 1 .. i + b - 1 PROVE s[m] \notin {"CR", "LF"}
            <4>1. PICK j \in d.start + 1 .. b - 1 : m = i + j
                <5>1. m - i \in d.start + 1 .. b - 1 /\ m = i + (m - i)
                    BY <1>1, <2>2
                <5>. QED BY <5>1
            <4>2. j \in d.start + 1 .. N
                BY <1>1, <2>2
            <4>. QED BY <1>1, <2>3, <4>1, <4>2
        <3>5. p < i + b
            BY <1>1, <2>2
        <3>6. LineEnd(s, i, p, i + b + 1, b)
            BY <2>2, <3>3, <3>4, <3>5 DEF LineEnd
        <3>. QED BY <2>7, <3>6
    <2>8. CASE d.buf[b] = "LF" /\ b > 1 /\ d.buf[b - 1] = "CR"
        BY <2>5, <2>8
    <2>9. CASE /\ \/ d.buf[b] = "CR" /\ b < N /\ d.buf[b + 1] # "LF"
                  \/ d.buf[b] = "LF" /\ (b = 1 \/ d.buf[b - 1] # "CR")
               /\ l = At("Bad", d, b - 1)
        <3>1. i + b \in Strays(s) /\ i < i + b /\ i + b \notin Ends(s, i)
            <4>1. CASE d.buf[b] = "CR" /\ b < N /\ d.buf[b + 1] # "LF"
                <5>1. b + 1 \in d.start + 1 .. N /\ i + (b + 1) = (i + b) + 1 /\ i + b < Len(s)
                    BY <1>1, <2>2, <4>1
                <5>2. s[(i + b) + 1] # "LF" /\ s[i + b] = "CR"
                    BY <1>1, <2>4, <4>1, <5>1
                <5>3. i + b \in DOMAIN s /\ i < i + b
                    BY <2>2, <2>4
                <5>. QED BY <5>1, <5>2, <5>3, EndsFacts DEF Strays
            <4>2. CASE d.buf[b] = "LF"
                <5>1. i + b = 1 \/ s[i + b - 1] # "CR"
                    <6>1. CASE b - 1 > d.start
                        <7>1. b - 1 \in d.start + 1 .. b - 1 /\ b - 1 \in d.start + 1 .. N
                              /\ i + (b - 1) = i + b - 1
                            BY <1>1, <2>2, <6>1
                        <7>. QED BY <1>1, <2>3, <7>1
                    <6>2. CASE b - 1 = d.start /\ d.start > 0
                        <7>1. i + d.start = i + b - 1
                            BY <1>1, <2>2, <6>2
                        <7>2. s[i + b - 1] = "LF"
                            BY <1>1, <6>2, <7>1
                        <7>. QED BY <7>2
                    <6>3. CASE b - 1 = d.start /\ d.start = 0
                        <7>1. b = 1 /\ i + b - 1 = i
                            BY <1>1, <2>2, <6>3
                        <7>. QED BY <7>1 DEF Reading
                    <6>. QED BY <1>1, <2>2, <6>1, <6>2, <6>3
                <5>2. s[i + b] = "LF" /\ i + b \in DOMAIN s /\ i < i + b
                    BY <2>2, <2>4, <4>2
                <5>3. i + b \in Strays(s)
                    <6>1. PICK m \in Nat : m = i + b
                        BY <2>2
                    <6>2. m \in DOMAIN s /\ s[m] = "LF"
                        BY <5>2, <6>1
                    <6>3. i + b - 1 = m - 1
                        BY <2>2, <6>1
                    <6>4. m = 1 \/ s[m - 1] # "CR"
                        BY <5>1, <6>1, <6>3
                    <6>. QED BY <6>1, <6>2, <6>4 DEF Strays
                <5>4. i + b \notin Ends(s, i)
                    BY <5>1, <2>2, EndsFacts
                <5>. QED BY <5>2, <5>3, <5>4
            <4>. QED BY <2>9, <4>1, <4>2
        <3>2. ASSUME NEW n \in Ends(s, i), i + (b - 1) < n, n <= i + N
              PROVE  \E m \in Strays(s) : i < m /\ m < n
            <4>1. n \in Nat /\ n # i + b
                BY <3>1, EndsFacts
            <4>2. i + b < n
                BY <2>2, <3>2, <4>1
            <4>. QED BY <3>1, <4>2
        <3>. QED BY <1>2, <2>1, <2>2, <2>9, <3>2
    <2>10. \/ d.buf[b] = "CR" /\ b = N /\ l = At("Open", d, b - 1)
           \/ d.buf[b] = "CR" /\ b < N /\ d.buf[b + 1] = "LF" /\ l = EndLine(d, b)
           \/ d.buf[b] = "LF" /\ b > 1 /\ d.buf[b - 1] = "CR"
           \/ /\ \/ d.buf[b] = "CR" /\ b < N /\ d.buf[b + 1] # "LF"
                 \/ d.buf[b] = "LF" /\ (b = 1 \/ d.buf[b - 1] # "CR")
              /\ l = At("Bad", d, b - 1)
        BY <1>4 DEF StopsAt, N
    <2>. QED BY <2>6, <2>7, <2>8, <2>9, <2>10
<1>. QED BY <1>1, <1>3, <1>4, ParseLineStops DEF N
-----------------------------------------------------------------------------
(* A line and what it decides *)

\* Position p is where the line that ends at n begins.
LEMMA NextLine ==
    ASSUME NEW s \in Seq(Token), NEW i \in Nat, NEW p \in Nat, i <= p,
           p = i \/ p \in Ends(s, i), NEW n, NEW b, LineEnd(s, i, p, n, b)
    PROVE  /\ n \in Nat /\ p < n /\ n \in Ends(s, i) /\ n <= Len(s) /\ s[n] = "LF"
           /\ \A m \in Ends(s, i) : m <= p \/ n <= m
           /\ \A m \in Strays(s) : m <= p \/ n < m
           /\ LineStart(s, i, n) = p
           /\ Min(Ends(s, i)) = n <=> p = i
<1>1. /\ b \in Nat /\ p < i + b /\ n = i + b + 1 /\ n \in Ends(s, i) /\ n \in Nat
      /\ s[n - 1] = "CR" /\ s[n] = "LF" /\ n - 1 = i + b /\ n <= Len(s) /\ Len(s) \in Nat
      /\ \A m \in p + 1 .. i + b - 1 : s[m] \notin {"CR", "LF"}
    BY EndsFacts DEF LineEnd
<1>2. ASSUME NEW m \in Nat, p < m, m < n, s[m] = "LF" PROVE FALSE
    <2>1. CASE m = n - 1
        BY <1>1, <1>2, <2>1
    <2>2. CASE m # n - 1
        <3>1. m \in p + 1 .. i + b - 1
            BY <1>1, <1>2, <2>2
        <3>. QED BY <1>1, <1>2, <3>1
    <2>. QED BY <2>1, <2>2
<1>3. ASSUME NEW m \in Ends(s, i) PROVE m <= p \/ n <= m
    <2>1. m \in Nat /\ s[m] = "LF"
        BY EndsFacts
    <2>. QED BY <1>1, <1>2, <2>1
<1>4. ASSUME NEW m \in Strays(s), p < m, m <= n PROVE FALSE
    <2>1. /\ m \in Nat
          /\ \/ s[m] = "LF" /\ (m = 1 \/ s[m - 1] # "CR")
             \/ s[m] = "CR" /\ m < Len(s) /\ s[m + 1] # "LF"
        BY DEF Strays
    <2>2. CASE m = n
        <3>1. m # 1 /\ s[m] # "CR"
            BY <1>1, <2>2
        <3>. QED BY <1>1, <2>1, <2>2, <3>1
    <2>3. CASE m = n - 1
        <3>1. m + 1 = n /\ s[m] = "CR"
            BY <1>1, <2>3
        <3>. QED BY <1>1, <2>1, <3>1
    <2>4. CASE m # n /\ m # n - 1
        <3>1. m \in p + 1 .. i + b - 1
            BY <1>1, <1>4, <2>1, <2>4
        <3>. QED BY <1>1, <2>1, <3>1
    <2>. QED BY <2>2, <2>3, <2>4
<1>5. \A m \in Strays(s) : m <= p \/ n < m
    <2>1. \A m \in Strays(s) : m \in Nat
        BY DEF Strays
    <2>. QED BY <1>1, <1>4, <2>1
<1>6. p < n
    BY <1>1
<1>7. LineStart(s, i, n) = p
    BY <1>1, <1>3, <1>6, LineStartIs
<1>8. p = i => Min(Ends(s, i)) = n
    <2>1. p = i => \A m \in Ends(s, i) : n <= m
        BY <1>1, <1>3, EndsFacts
    <2>. QED BY <1>1, <2>1, MinIs, EndsFacts
<1>9. p # i => Min(Ends(s, i)) # n
    <2>1. p # i => Min(Ends(s, i)) <= p
        BY MinFacts, EndsFacts
    <2>. QED BY <1>1, <1>6, <2>1
<1>. QED BY <1>1, <1>3, <1>5, <1>6, <1>7, <1>8, <1>9

\* The text that parse_line() ends with a NUL is that line.
LEMMA TextRead ==
    ASSUME NEW s \in Seq(Token), NEW i \in Nat, NEW d, Reading(s, i, d),
           NEW n, NEW b, LineEnd(s, i, i + d.start, n, b), b < Len(d.buf),
           NEW l, l = EndLine(d, b)
    PROVE  Text(l.c) = Line(s, i, n)
<1>1. /\ d \in Conn /\ Len(d.buf) \in Nat /\ d.start \in Nat /\ Len(s) \in Nat
      /\ i + Len(d.buf) <= Len(s)
      /\ \A j \in d.start + 1 .. Len(d.buf) : d.buf[j] = s[i + j]
    BY ReadingTypes
<1>2. PICK a \in Nat : a = d.start
    BY <1>1
<1>3. /\ i + Len(d.buf) <= Len(s) /\ Len(d.buf) \in Nat /\ Len(s) \in Nat
      /\ \A j \in a + 1 .. Len(d.buf) : d.buf[j] = s[i + j]
    BY <1>1, <1>2
<1>4. PICK p \in Nat : p = i + a /\ p = i + d.start
    <2>1. i + a \in Nat
        OBVIOUS
    <2>. QED BY <1>2, <2>1
<1>5. b \in Nat /\ a < b /\ b >= 1 /\ n = i + b + 1
    BY <1>1, <1>4, <1>2 DEF LineEnd
<1>6. LineStart(s, i, n) = p
    <2>1. i <= p /\ (p = i \/ p \in Ends(s, i)) /\ LineEnd(s, i, p, n, b)
        BY <1>1, <1>4 DEF Reading
    <2>. QED BY <2>1, NextLine
<1>7. PICK f : f = l.c
    OBVIOUS
<1>8. /\ f \in Conn /\ f.start = a /\ Len(f.buf) = Len(d.buf) /\ f.buf[b] = "NUL"
      /\ f.buf \in Seq(Token)
      /\ \A j \in 1 .. Len(d.buf) : j # b /\ j # b + 1 => f.buf[j] = d.buf[j]
    <2>1. /\ l.c \in Conn /\ l.c.start = d.start /\ Len(l.c.buf) = Len(d.buf)
          /\ l.c.buf[b] = "NUL"
          /\ \A j \in 1 .. Len(d.buf) : j # b /\ j # b + 1 => l.c.buf[j] = d.buf[j]
        <3>1. d \in Conn /\ b \in Nat /\ b >= 1
            BY <1>1, <1>5
        <3>. QED BY <3>1, EndLineFacts
    <2>2. f.buf \in Seq(Token)
        BY <1>7, <2>1, ConnTypes
    <2>. QED BY <1>2, <1>7, <2>1, <2>2
\* The first NUL is at e.
<1>9. PICK e \in Nat : /\ a < e /\ e <= b /\ f.buf[e] = "NUL"
                       /\ \A j \in Nat : a < j /\ j < e => f.buf[j] # "NUL"
    <2> DEFINE S == { j \in Nat : a < j /\ j <= b /\ f.buf[j] = "NUL" }
    <2>1. S \subseteq Nat /\ b \in S
        BY <1>5, <1>8
    <2>2. PICK e \in S : \A j \in S : e <= j
        <3> HIDE DEF S
        <3>. QED BY <2>1, Least
    <2>3. \A j \in Nat : a < j /\ j < e => j \notin S /\ j <= b
        <3>1. e \in Nat /\ e <= b
            OBVIOUS
        <3> HIDE DEF S
        <3>. QED BY <1>5, <2>2, <3>1
    <2>. QED BY <2>2, <2>3
<1>10. PICK k \in Nat : k = e - 1 - a
    <2>1. e - 1 - a \in Nat
        BY <1>3, <1>9
    <2>. QED BY <2>1
<1>11. Text(f) = SubSeq(f.buf, a + 1, e - 1)
    <2>1. e <= Len(f.buf) + 1
        BY <1>3, <1>5, <1>8, <1>9
    <2>. QED BY <1>8, <1>9, <1>2, <2>1, TextIs
<1>12. PICK u : u = SubSeq(f.buf, a + 1, e - 1)
    OBVIOUS
<1>13. u \in Seq(Token) /\ Len(u) = k /\ \A j \in 1 .. k : u[j] = f.buf[a + j]
    <2>1. /\ a \in Nat /\ e - 1 \in Nat /\ a <= e - 1 /\ e - 1 <= Len(f.buf)
          /\ (e - 1) - a = k
        BY <1>3, <1>5, <1>8, <1>9, <1>10
    <2>2. PICK y \in Nat, g \in Seq(Token) : y = e - 1 /\ g = f.buf
        BY <1>8, <2>1
    <2>3. u = SubSeq(g, a + 1, y) /\ a <= y /\ y <= Len(g)
        BY <1>12, <2>1, <2>2
    <2>4. u \in Seq(Token) /\ Len(u) = y - a /\ \A j \in 1 .. y - a : u[j] = g[a + j]
        BY <2>3, Pieces
    <2>. QED BY <2>1, <2>2, <2>4
<1>14. PICK w : w = SubSeq(s, p + 1, n - 2)
    OBVIOUS
<1>15. PICK h \in Nat : h = b - 1 - a
    <2>1. b - 1 - a \in Nat
        BY <1>3, <1>5
    <2>. QED BY <2>1
<1>16. w \in Seq(Token) /\ Len(w) = h /\ \A j \in 1 .. h : w[j] = s[p + j]
    <2>1. n - 2 \in Nat /\ p <= n - 2 /\ n - 2 <= Len(s) /\ n - 2 - p = h
        BY <1>3, <1>4, <1>5, <1>15
    <2>. QED BY <1>14, <2>1, Pieces
<1>17. ASSUME NEW j \in 1 .. h PROVE w[j] = f.buf[a + j] /\ a + j < b
    <2>1. /\ a + j \in a + 1 .. Len(d.buf) /\ a + j \in 1 .. Len(d.buf)
          /\ a + j < b /\ a + j # b /\ a + j # b + 1
          /\ i + (a + j) = p + j
        BY <1>3, <1>4, <1>5, <1>15
    <2>2. d.buf[a + j] = s[i + (a + j)]
        BY <1>3, <2>1
    <2>. QED BY <1>8, <1>16, <2>1, <2>2
<1>18. CString(w) = SubSeq(w, 1, k)
    <2>1. k \in 0 .. Len(w)
        BY <1>5, <1>9, <1>10, <1>15, <1>16, <1>3
    <2>2. k < Len(w) => w[k + 1] = "NUL"
        <3>1. SUFFICES ASSUME k < Len(w) PROVE w[k + 1] = "NUL"
            OBVIOUS
        <3>2. k + 1 \in 1 .. h /\ a + (k + 1) = e
            BY <1>9, <1>10, <1>16, <3>1
        <3>. QED BY <1>9, <1>17, <3>2
    <2>3. \A j \in 1 .. k : w[j] # "NUL"
        <3>1. ASSUME NEW j \in 1 .. k
              PROVE  j \in 1 .. h /\ a + j \in Nat /\ a < a + j /\ a + j < e
            BY <1>9, <1>10, <1>16, <2>1
        <3>. QED BY <1>9, <1>17, <3>1
    <2>. QED BY <1>16, <2>1, <2>2, <2>3, CStringIs
<1>19. PICK v : v = SubSeq(w, 0 + 1, k)
    OBVIOUS
<1>20. k <= h
    BY <1>3, <1>5, <1>9, <1>10, <1>15
<1>21. v \in Seq(Token) /\ Len(v) = k - 0 /\ \A j \in 1 .. k - 0 : v[j] = w[0 + j]
    BY <1>16, <1>19, <1>20, Pieces
<1>22. u = v
    <2>1. Len(u) = Len(v)
        BY <1>13, <1>21
    <2>2. ASSUME NEW j \in 1 .. k PROVE u[j] = v[j]
        <3>1. j \in 1 .. h /\ 0 + j = j /\ j \in 1 .. k - 0
            BY <1>20
        <3>. QED BY <1>13, <1>17, <1>21, <3>1
    <2>. QED BY <1>13, <1>21, <2>1, <2>2, SameSeq
<1>23. Line(s, i, n) = CString(w)
    BY <1>6, <1>14 DEF Line
<1>24. 0 + 1 = 1
    OBVIOUS
<1>. QED BY <1>7, <1>11, <1>12, <1>18, <1>19, <1>22, <1>23, <1>24

\* The parser behind that line.
Past(d) == [d EXCEPT !.start = d.checked]

LEMMA AfterLine ==
    ASSUME NEW s \in Seq(Token), NEW i \in Nat, NEW d, Reading(s, i, d),
           NEW n, NEW b, LineEnd(s, i, i + d.start, n, b), b < Len(d.buf),
           NEW l, l = EndLine(d, b), NEW e, e = Past(l.c)
    PROVE  /\ l.status = "Ok" /\ Reading(s, i, e) /\ i + e.start = n
           /\ SameHead(d, e) /\ Len(e.buf) = Len(d.buf)
<1>1. /\ d \in Conn /\ Len(d.buf) \in Nat /\ d.start \in Nat /\ Len(s) \in Nat
      /\ i + Len(d.buf) <= Len(s) /\ Len(d.buf) <= BufSize
      /\ \A j \in d.start + 1 .. Len(d.buf) : d.buf[j] = s[i + j]
    BY ReadingTypes DEF Reading, Ordered
<1>2. b \in Nat /\ d.start < b /\ b >= 1 /\ n = i + b + 1 /\ n \in Ends(s, i)
    BY <1>1 DEF LineEnd
<1>3. PICK f : f = l.c
    OBVIOUS
<1>4. /\ l.status = "Ok" /\ f \in Conn /\ f.checked = b + 1 /\ f.start = d.start
      /\ SameHead(d, f) /\ Len(f.buf) = Len(d.buf) /\ f.buf[b + 1] = "NUL"
      /\ \A j \in 1 .. Len(d.buf) : j # b /\ j # b + 1 => f.buf[j] = d.buf[j]
    <2>1. /\ l.status = "Ok" /\ l.c \in Conn /\ l.c.checked = b + 1 /\ l.c.start = d.start
          /\ SameHead(d, l.c) /\ Len(l.c.buf) = Len(d.buf) /\ l.c.buf[b + 1] = "NUL"
          /\ \A j \in 1 .. Len(d.buf) : j # b /\ j # b + 1 => l.c.buf[j] = d.buf[j]
        <3>1. d \in Conn /\ b \in Nat /\ b >= 1
            BY <1>1, <1>2
        <3>. QED BY <3>1, EndLineFacts
    <2>. QED BY <1>3, <2>1
<1>5. Ordered(f)
    BY <1>1, <1>2, <1>4 DEF Ordered
<1>6. /\ e \in Conn /\ Ordered(e) /\ SameHead(f, e) /\ e.buf = f.buf
      /\ e.start = b + 1 /\ e.checked = b + 1
    BY <1>3, <1>4, <1>5, MovedFacts DEF Past
<1>7. SameHead(d, e)
    BY <1>4, <1>6 DEF SameHead
<1>8. Holds(s, i, e)
    <2>1. ASSUME NEW j \in b + 1 + 1 .. Len(d.buf) PROVE e.buf[j] = s[i + j]
        <3>1. j \in 1 .. Len(d.buf) /\ j \in d.start + 1 .. Len(d.buf) /\ j # b /\ j # b + 1
            BY <1>1, <1>2
        <3>. QED BY <1>1, <1>4, <1>6, <3>1
    <2>. QED BY <1>1, <1>4, <1>6, <2>1 DEF Holds
<1>9. Scanned(e)
    <2>1. b + 1 + 1 .. b + 1 = {}
        BY <1>2
    <2>. QED BY <1>4, <1>6, <2>1 DEF Scanned
<1>10. i + e.start = n
    <2>1. n = i + (b + 1)
        BY <1>2
    <2>. QED BY <1>6, <2>1
<1>11. Reading(s, i, e)
    BY <1>2, <1>6, <1>8, <1>9, <1>10 DEF Reading
<1>. QED BY <1>4, <1>6, <1>7, <1>10, <1>11

\* The line that ends at n is not the one that decides, or it is.
LEMMA Passed ==
    ASSUME NEW s \in Seq(Token), NEW i \in Nat, NEW p \in Nat, i <= p,
           Undecided(s, i, p), NEW n, NEW b, LineEnd(s, i, p, n, b), n \notin Deciding(s, i)
    PROVE  Undecided(s, i, n)
<1>1. /\ n \in Nat /\ p < n /\ n \in Ends(s, i)
      /\ \A m \in Ends(s, i) : m <= p \/ n <= m
      /\ \A m \in Strays(s) : m <= p \/ n < m
    BY NextLine DEF Undecided
<1>2. ASSUME NEW m \in Deciding(s, i) PROVE n < m
    <2>1. m \in Ends(s, i) /\ m \in Nat
        BY EndsFacts
    <2>2. p < m /\ m # n
        BY DEF Undecided
    <2>. QED BY <1>1, <2>1, <2>2
<1>3. ASSUME NEW m \in Strays(s) PROVE m <= i \/ n < m
    <2>1. m \in Nat
        BY DEF Strays
    <2>. QED BY <1>1, <2>1 DEF Undecided
<1>. QED BY <1>1, <1>2, <1>3 DEF Undecided

LEMMA Decided ==
    ASSUME NEW s \in Seq(Token), ~HasBody(s), NEW i \in Nat, NEW p \in Nat, i <= p,
           Undecided(s, i, p), NEW n, NEW b, LineEnd(s, i, p, n, b), n \in Deciding(s, i)
    PROVE  /\ Complete(s, i) /\ RequestAfter(s, i).to = n
           /\ Wrong(s, i, n) => /\ RequestAfter(s, i).ret = "BadRequest"
                                /\ RequestAfter(s, i).url = ""
           /\ ~Wrong(s, i, n) => /\ RequestAfter(s, i).ret = "GetRequest"
                                 /\ RequestAfter(s, i).url
                                      = RequestLines[RequestLine(s, i)[1]].url
<1>1. /\ n \in Nat /\ p < n /\ n \in Ends(s, i) /\ n <= Len(s)
      /\ \A m \in Ends(s, i) : m <= p \/ n <= m
      /\ \A m \in Strays(s) : m <= p \/ n < m
    BY NextLine DEF Undecided
<1>2. Min(Deciding(s, i)) = n
    <2>1. Deciding(s, i) \subseteq Nat
        BY EndsFacts
    <2>2. \A m \in Deciding(s, i) : n <= m
        <3>1. \A m \in Deciding(s, i) : m \in Ends(s, i) /\ p < m /\ m \in Nat
            BY EndsFacts DEF Undecided
        <3>. QED BY <1>1, <3>1
    <2>. QED BY <2>1, <2>2, MinIs
<1>3. BodyLen(s, i, n) = 0 /\ n + 0 = n
    BY <1>1, NoBodies
<1>4. Complete(s, i)
    <2>1. ASSUME NEW m \in Strays(s) PROVE m <= i \/ n < m
        <3>1. m \in Nat
            BY DEF Strays
        <3>. QED BY <1>1, <3>1 DEF Undecided
    <2>. QED BY <1>1, <1>2, <1>3, <2>1 DEF Complete
<1>5. CASE Wrong(s, i, n)
    <2>1. PICK q : q = [ret |-> "BadRequest", url |-> "", to |-> n]
        OBVIOUS
    <2>2. RequestAfter(s, i) = q
        BY <1>2, <1>5, <2>1 DEF RequestAfter
    <2>3. q.ret = "BadRequest" /\ q.url = "" /\ q.to = n
        BY <2>1
    <2>. QED BY <1>4, <1>5, <2>2, <2>3
<1>6. CASE ~Wrong(s, i, n)
    <2>1. PICK u, m : u = RequestLines[RequestLine(s, i)[1]].url /\ m = n + BodyLen(s, i, n)
        OBVIOUS
    <2>2. PICK q : q = [ret |-> "GetRequest", url |-> u, to |-> m]
        OBVIOUS
    <2>3. RequestAfter(s, i) = q
        BY <1>2, <1>6, <2>1, <2>2 DEF RequestAfter
    <2>4. q.ret = "GetRequest" /\ q.url = u /\ q.to = m
        BY <2>2
    <2>. QED BY <1>3, <1>4, <1>6, <2>1, <2>3, <2>4
<1>. QED BY <1>5, <1>6

\* The headers before a line, and it itself.
LEMMA HasNext ==
    ASSUME NEW s \in Seq(Token), NEW i \in Nat, NEW p \in Nat, i <= p,
           p = i \/ p \in Ends(s, i), NEW n, NEW b, LineEnd(s, i, p, n, b), NEW name
    PROVE  /\ Has(s, i, n, name) <=> Has(s, i, p + 1, name)
           /\ Has(s, i, n + 1, name)
                <=> Has(s, i, p + 1, name) \/ IsHeader(Line(s, i, n), name)
<1>1. /\ n \in Nat /\ p < n /\ n \in Ends(s, i) /\ \A m \in Ends(s, i) : m <= p \/ n <= m
    BY NextLine
<1>2. \A m \in Ends(s, i) : /\ m < n <=> m < p + 1
                            /\ m < n + 1 <=> m < p + 1 \/ m = n
    <2>1. \A m \in Ends(s, i) : m \in Nat
        BY EndsFacts
    <2>. QED BY <1>1, <2>1
<1>. QED BY <1>1, <1>2 DEF Has

\* What the state machine makes of a line is what the line decides.
Judges(s, i, n, r) ==
    \/ r.ret = "NoRequest" /\ Undecided(s, i, n) /\ Knows(s, i, n, r.c)
    \/ /\ r.ret \in {"BadRequest", "GetRequest"}
       /\ Complete(s, i) /\ RequestAfter(s, i).to = n /\ RequestAfter(s, i).ret = r.ret
       /\ RequestAfter(s, i).url = IF r.ret = "BadRequest" THEN "" ELSE r.c.url

LEMMA JudgesRequestLine ==
    ASSUME NEW s \in Seq(Token), ~HasBody(s), NEW i \in Nat,
           Undecided(s, i, i), NEW d \in Conn, Knows(s, i, i, d),
           NEW n, NEW b, LineEnd(s, i, i, n, b),
           NEW r, r = ParseRequestLine(d, Line(s, i, n))
    PROVE  Judges(s, i, n, r)
<1>1. i <= i
    OBVIOUS
<1>2. /\ n \in Nat /\ i < n /\ n \in Ends(s, i) /\ Min(Ends(s, i)) = n /\ n # i
    BY <1>1, NextLine
<1>3. PICK text \in Seq(Token) : text = Line(s, i, n) /\ text = RequestLine(s, i)
    BY <1>2, LineFacts DEF RequestLine
<1>4. Wrong(s, i, n) <=> ~Valid(text)
    BY <1>2, <1>3 DEF Wrong
<1>5. CASE ~Valid(text)
    <2>1. r = Return("BadRequest", d)
        BY <1>3, <1>5 DEF ParseRequestLine
    <2>2. r.ret = "BadRequest"
        BY <2>1, ReturnFacts
    <2>3. n \in Deciding(s, i)
        BY <1>2, <1>4, <1>5 DEF Deciding
    <2>4. n \in Deciding(s, i) =>
              /\ Complete(s, i) /\ RequestAfter(s, i).to = n
              /\ Wrong(s, i, n) => /\ RequestAfter(s, i).ret = "BadRequest"
                                   /\ RequestAfter(s, i).url = ""
              /\ ~Wrong(s, i, n) => /\ RequestAfter(s, i).ret = "GetRequest"
                                    /\ RequestAfter(s, i).url
                                         = RequestLines[RequestLine(s, i)[1]].url
        BY <1>1, Decided
    <2>. QED BY <1>4, <1>5, <2>2, <2>3, <2>4 DEF Judges
<1>6. CASE Valid(text)
    <2>1. text # <<>> /\ text[1] \in DOMAIN RequestLines
        <3>1. Len(text) = 1 /\ text[1] \in DOMAIN RequestLines
            BY <1>6 DEF Valid
        <3>2. text # <<>>
            BY <3>1, NotEmpty
        <3>. QED BY <3>1, <3>2
    <2>2. PICK q : q = RequestLines[text[1]]
        OBVIOUS
    <2>3. PICK u \in {"", "file", "/"}, v \in BOOLEAN : u = q.url /\ v = q.v11
        BY <2>1, <2>2, RequestLineFacts
    <2>4. PICK e : e = [d EXCEPT !.chk = "HEADER", !.url = u, !.v11 = v, !.linger = v]
        OBVIOUS
    <2>5. r = Return("NoRequest", e)
        BY <1>3, <1>6, <2>2, <2>3, <2>4 DEF ParseRequestLine
    <2>6. r.ret = "NoRequest" /\ r.c = e
        BY <2>5, ReturnFacts
    <2>7. e.chk = "HEADER" /\ e.url = u /\ (e.v11 <=> v) /\ (e.host <=> d.host) /\ e.clen = d.clen
        BY <2>4 DEF Conn
    <2>8. n \notin Deciding(s, i)
        BY <1>3, <1>4, <1>6, <2>1 DEF Deciding
    <2>9. Undecided(s, i, n)
        BY <1>1, <2>8, Passed
    <2>10. ~IsHeader(text, "host")
        BY <2>1, RequestLineFacts DEF IsHeader
    <2>11. e.host <=> Has(s, i, n + 1, "host")
        <3>1. d.host <=> Has(s, i, i + 1, "host")
            BY DEF Knows
        <3>2. Has(s, i, n + 1, "host")
                <=> Has(s, i, i + 1, "host") \/ IsHeader(Line(s, i, n), "host")
            BY <1>1, HasNext
        <3>. QED BY <1>3, <2>7, <2>10, <3>1, <3>2
    <2>12. d.clen = 0
        BY DEF Knows
    <2>13. Knows(s, i, n, e)
        BY <1>2, <1>3, <1>6, <2>2, <2>3, <2>7, <2>11, <2>12 DEF Knows
    <2>. QED BY <2>6, <2>9, <2>13 DEF Judges
<1>. QED BY <1>5, <1>6

LEMMA JudgesHeader ==
    ASSUME NEW s \in Seq(Token), ~HasBody(s), NEW i \in Nat, NEW p \in Nat, i < p,
           Undecided(s, i, p), NEW d \in Conn, Knows(s, i, p, d),
           NEW n, NEW b, LineEnd(s, i, p, n, b),
           NEW r, r = ParseHeaders(d, Line(s, i, n))
    PROVE  Judges(s, i, n, r)
<1>1. i <= p
    OBVIOUS
<1>2. /\ n \in Nat /\ p < n /\ n \in Ends(s, i) /\ Min(Ends(s, i)) # n /\ n # i
    BY <1>1, NextLine DEF Undecided
<1>3. PICK text \in Seq(Token) : text = Line(s, i, n)
    BY <1>2, LineFacts
<1>4. /\ d.chk = "HEADER" /\ d.clen = 0 /\ Valid(RequestLine(s, i))
      /\ d.url = RequestLines[RequestLine(s, i)[1]].url
      /\ d.v11 <=> RequestLines[RequestLine(s, i)[1]].v11
      /\ d.host <=> Has(s, i, p + 1, "host")
    BY DEF Knows
<1>5. /\ Has(s, i, n, "host") <=> d.host
      /\ Has(s, i, n + 1, "host") <=> d.host \/ IsHeader(text, "host")
    BY <1>1, <1>3, <1>4, HasNext DEF Undecided
\* A decision.
<1>6. n \in Deciding(s, i) =>
           /\ Complete(s, i) /\ RequestAfter(s, i).to = n
           /\ Wrong(s, i, n) => /\ RequestAfter(s, i).ret = "BadRequest"
                                /\ RequestAfter(s, i).url = ""
           /\ ~Wrong(s, i, n) => /\ RequestAfter(s, i).ret = "GetRequest"
                                 /\ RequestAfter(s, i).url
                                      = RequestLines[RequestLine(s, i)[1]].url
    BY <1>1, Decided
<1>7. ASSUME n \in Deciding(s, i), Wrong(s, i, n), r = Return("BadRequest", d)
      PROVE  Judges(s, i, n, r)
    <2>1. r.ret = "BadRequest"
        BY <1>7, ReturnFacts
    <2>2. /\ Complete(s, i) /\ RequestAfter(s, i).to = n
          /\ RequestAfter(s, i).ret = "BadRequest" /\ RequestAfter(s, i).url = ""
        BY <1>7, <1>6
    <2>. QED BY <2>1, <2>2 DEF Judges
<1>8. ASSUME n \in Deciding(s, i), ~Wrong(s, i, n), r = Return("GetRequest", d)
      PROVE  Judges(s, i, n, r)
    <2>1. r.ret = "GetRequest" /\ r.c = d
        BY <1>8, ReturnFacts
    <2>2. /\ Complete(s, i) /\ RequestAfter(s, i).to = n
          /\ RequestAfter(s, i).ret = "GetRequest"
          /\ RequestAfter(s, i).url = RequestLines[RequestLine(s, i)[1]].url
        BY <1>8, <1>6
    <2>. QED BY <1>4, <2>1, <2>2 DEF Judges
\* None.
<1>9. ASSUME text # <<>>, ~Wrong(s, i, n), NEW e, r = Return("NoRequest", e),
             e.chk = d.chk, e.url = d.url, e.v11 <=> d.v11, e.clen = 0,
             e.host <=> d.host \/ text[1] = "host"
      PROVE  Judges(s, i, n, r)
    <2>1. r.ret = "NoRequest" /\ r.c = e
        BY <1>9, ReturnFacts
    <2>2. n \notin Deciding(s, i)
        BY <1>3, <1>9 DEF Deciding
    <2>3. Undecided(s, i, n)
        BY <1>1, <2>2, Passed
    <2>4. IsHeader(text, "host") <=> text[1] = "host"
        BY <1>9 DEF IsHeader
    <2>5. e.host <=> Has(s, i, n + 1, "host")
        BY <1>5, <1>9, <2>4
    <2>6. Knows(s, i, n, e)
        BY <1>2, <1>4, <1>9, <2>5 DEF Knows
    <2>. QED BY <2>1, <2>3, <2>6 DEF Judges
<1>10. CASE text = <<>>
    <2>1. n \in Deciding(s, i)
        BY <1>2, <1>3, <1>10 DEF Deciding
    <2>2. Wrong(s, i, n) <=> d.v11 /\ ~d.host
        <3>1. Wrong(s, i, n) <=> /\ RequestLine(s, i) \in {<<"file11">>, <<"root11">>}
                                 /\ ~Has(s, i, n, "host")
            BY <1>2, <1>3, <1>10 DEF Wrong
        <3>2. PICK x \in DOMAIN RequestLines : RequestLine(s, i) = <<x>>
            <4>1. PICK w : w = RequestLine(s, i)
                OBVIOUS
            <4>2. w \in Seq(Token)
                <5>1. Min(Ends(s, i)) \in Ends(s, i)
                    BY <1>2, MinFacts, EndsFacts
                <5>. QED BY <4>1, <5>1, LineFacts DEF RequestLine
            <4>3. Len(w) = 1 /\ w[1] \in DOMAIN RequestLines
                BY <1>4, <4>1 DEF Valid
            <4>4. w = <<w[1]>>
                BY <4>2, <4>3
            <4>. QED BY <4>1, <4>3, <4>4
        <3>3. d.v11 <=> x \in {"file11", "root11"}
            <4>1. RequestLine(s, i)[1] = x
                BY <3>2
            <4>. QED BY <1>4, <4>1, RequestLineFacts
        <3>4. RequestLine(s, i) \in {<<"file11">>, <<"root11">>} <=> x \in {"file11", "root11"}
            <4>1. \A y, z : <<y>> = <<z>> <=> y = z
                OBVIOUS
            <4>. QED BY <3>2, <4>1
        <3>. QED BY <1>5, <3>1, <3>3, <3>4
    <2>3. CASE d.v11 /\ ~d.host
        <3>1. r = Return("BadRequest", d)
            BY <1>3, <1>10, <2>3 DEF ParseHeaders
        <3>. QED BY <1>7, <2>1, <2>2, <2>3, <3>1
    <2>4. CASE ~(d.v11 /\ ~d.host)
        <3>1. r = Return("GetRequest", d)
            BY <1>3, <1>4, <1>10, <2>4 DEF ParseHeaders
        <3>. QED BY <1>8, <2>1, <2>2, <2>4, <3>1
    <2>. QED BY <2>3, <2>4
<1>11. CASE text # <<>>
    <2>1. Wrong(s, i, n) <=> text[1] = "badlen" \/ ~\E k \in DOMAIN text : text[k] \in Colon
        BY <1>2, <1>3, <1>11 DEF Wrong
    <2>2. text[1] # "len1" /\ 1 \in DOMAIN text
        <3>1. text[1] # "len1"
            BY <1>2, <1>3, <1>11, NoBodies
        <3>. QED BY <1>11, <3>1
    <2>3. text[1] \in Colon /\ text[1] # "badlen" => ~Wrong(s, i, n)
        BY <2>1, <2>2
    <2>4. /\ [d EXCEPT !.host = TRUE].host /\ d.linger \in BOOLEAN
          /\ "host" \in Colon /\ "alive" \in Colon /\ "close" \in Colon /\ "len0" \in Colon
        BY DEF Conn, Colon
    <2>5. CASE text[1] = "host"
        <3>1. PICK e : e = [d EXCEPT !.host = TRUE]
            OBVIOUS
        <3>2. r = Return("NoRequest", e)
            BY <1>3, <1>11, <2>5, <3>1 DEF ParseHeaders
        <3>3. e.chk = d.chk /\ e.url = d.url /\ e.v11 = d.v11 /\ e.clen = d.clen /\ e.host
            BY <3>1 DEF Conn
        <3>4. ~Wrong(s, i, n)
            BY <2>3, <2>4, <2>5
        <3>. QED BY <1>4, <1>9, <1>11, <2>5, <3>2, <3>3, <3>4
    <2>6. CASE text[1] \in {"alive", "close"}
        <3>1. PICK v \in BOOLEAN : v = (text[1] = "alive")
            OBVIOUS
        <3>2. PICK e : e = [d EXCEPT !.linger = v]
            OBVIOUS
        <3>3. r = Return("NoRequest", e)
            <4>1. CASE text[1] = "alive"
                <5>1. e = [d EXCEPT !.linger = TRUE]
                    BY <3>1, <3>2, <4>1
                <5>. QED BY <1>3, <1>11, <4>1, <5>1 DEF ParseHeaders
            <4>2. CASE text[1] = "close"
                <5>1. e = [d EXCEPT !.linger = FALSE]
                    BY <3>1, <3>2, <4>2
                <5>. QED BY <1>3, <1>11, <4>2, <5>1 DEF ParseHeaders
            <4>. QED BY <2>6, <4>1, <4>2
        <3>4. /\ e.chk = d.chk /\ e.url = d.url /\ e.v11 = d.v11 /\ e.clen = d.clen
              /\ e.host = d.host
            BY <3>2 DEF Conn
        <3>5. ~Wrong(s, i, n) /\ text[1] # "host"
            BY <2>3, <2>4, <2>6
        <3>. QED BY <1>4, <1>9, <1>11, <3>3, <3>4, <3>5
    <2>7. CASE text[1] = "len0"
        <3>1. PICK e : e = [d EXCEPT !.clen = 0]
            OBVIOUS
        <3>2. r = Return("NoRequest", e)
            BY <1>3, <1>11, <2>7, <3>1 DEF ParseHeaders
        <3>3. e.chk = d.chk /\ e.url = d.url /\ e.v11 = d.v11 /\ e.clen = 0 /\ e.host = d.host
            BY <3>1 DEF Conn
        <3>4. ~Wrong(s, i, n) /\ text[1] # "host"
            BY <2>3, <2>4, <2>7
        <3>. QED BY <1>9, <1>11, <3>2, <3>3, <3>4
    <2>8. CASE text[1] = "badlen"
        <3>1. r = Return("BadRequest", d)
            BY <1>3, <1>11, <2>8 DEF ParseHeaders
        <3>2. Wrong(s, i, n)
            BY <2>1, <2>8
        <3>3. n \in Deciding(s, i)
            BY <1>2, <3>2 DEF Deciding
        <3>. QED BY <1>7, <3>1, <3>2, <3>3
    <2>9. CASE text[1] \notin {"host", "alive", "close", "len0", "len1", "badlen"}
        <3>1. r = Return(IF \E k \in DOMAIN text : text[k] \in Colon
                         THEN "NoRequest" ELSE "BadRequest", d)
            BY <1>3, <1>11, <2>9 DEF ParseHeaders
        <3>2. CASE \E k \in DOMAIN text : text[k] \in Colon
            <4>1. r = Return("NoRequest", d) /\ ~Wrong(s, i, n) /\ text[1] # "host"
                BY <2>1, <2>9, <3>1, <3>2
            <4>. QED BY <1>4, <1>9, <1>11, <4>1
        <3>3. CASE ~\E k \in DOMAIN text : text[k] \in Colon
            <4>1. r = Return("BadRequest", d) /\ Wrong(s, i, n)
                BY <2>1, <3>1, <3>3
            <4>2. n \in Deciding(s, i)
                BY <1>2, <4>1 DEF Deciding
            <4>. QED BY <1>7, <4>1, <4>2
        <3>. QED BY <3>2, <3>3
    <2>. QED BY <2>2, <2>5, <2>6, <2>7, <2>8, <2>9
<1>. QED BY <1>10, <1>11
-----------------------------------------------------------------------------
(* The client sends, the server reads *)

\* What is read and what is not make up what has been sent.
LEMMA BaseFacts ==
    ASSUME TypeOK, InTransit, mode # "closed"
    PROVE  /\ Base \in Nat /\ Base + Len(c.buf) = Len(sent) - Len(net)
           /\ Base + Len(c.buf) <= Len(sent)
<1>1. Len(sent) \in Nat /\ Len(net) \in Nat /\ Len(c.buf) \in Nat
    BY Types
<1>2. Base >= 0
    BY DEF InTransit
<1>. QED BY <1>1, <1>2 DEF Base

LEMMA MoreBodies ==
    ASSUME NEW s, NEW t, s \in Seq(Token), t \in Seq(Token), Begins(s, t), HasBody(s)
    PROVE  HasBody(t)
<1>1. PICK x \in DOMAIN s : s[x] = "len1"
    BY DEF HasBody
<1>2. x \in 1 .. Len(s) /\ x \in 1 .. Len(t)
    BY DEF Begins
<1>3. x \in DOMAIN t /\ t[x] = "len1"
    BY <1>1, <1>2 DEF Begins
<1>. QED BY <1>3 DEF HasBody

\* The n tokens that arrive leave the client and lengthen both streams.
LEMMA SendTypes ==
    ASSUME TypeOK, NEW n \in 1 .. Len(todo), Send(n)
    PROVE  /\ sent' \o todo' = sent \o todo
           /\ sent' \in Seq(Token) /\ Begins(sent, sent') /\ Len(sent') = Len(sent) + n
           /\ \A j \in 1 .. n : sent'[Len(sent) + j] = todo[j]
           /\ Len(net') = Len(net) + n
           /\ \A j \in 1 .. Len(net) : net'[j] = net[j]
           /\ \A j \in 1 .. n : net'[Len(net) + j] = todo[j]
<1>1. PICK s \in Seq(Token), t \in Seq(Token), q \in Seq(Token) :
          s = sent /\ t = todo /\ q = net
    BY Types
<1>2. /\ Len(s) \in Nat /\ Len(t) \in Nat /\ n \in Nat /\ n <= Len(t) /\ 0 + 1 = 1
      /\ n - 0 = n
    BY <1>1
<1>3. PICK m \in Nat : m = Len(t) - n
    <2>1. Len(t) - n \in Nat
        BY <1>2
    <2>. QED BY <2>1
<1>4. PICK x : x = SubSeq(t, 0 + 1, n)
    OBVIOUS
<1>5. x \in Seq(Token) /\ Len(x) = n /\ \A j \in 1 .. n : x[j] = t[j]
    <2>1. x \in Seq(Token) /\ Len(x) = n - 0 /\ \A j \in 1 .. n - 0 : x[j] = t[0 + j]
        BY <1>2, <1>4, Pieces
    <2>2. \A j \in 1 .. n : 0 + j = j
        OBVIOUS
    <2>. QED BY <1>2, <2>1, <2>2
<1>6. PICK y : y = SubSeq(t, n + 1, Len(t))
    OBVIOUS
<1>7. y \in Seq(Token) /\ Len(y) = m /\ \A j \in 1 .. m : y[j] = t[n + j]
    BY <1>2, <1>3, <1>6, Behead
<1>8. PICK u : u = s \o x
    OBVIOUS
<1>9. /\ u \in Seq(Token) /\ Len(u) = Len(s) + n
      /\ \A j \in 1 .. Len(s) : u[j] = s[j]
      /\ \A j \in 1 .. n : u[Len(s) + j] = t[j]
    <2>1. PICK a \in Seq(Token) : a = x
        BY <1>5
    <2>2. u = s \o a
        BY <1>8, <2>1
    <2>3. /\ u \in Seq(Token) /\ Len(u) = Len(s) + Len(a)
          /\ \A j \in 1 .. Len(s) : u[j] = s[j]
          /\ \A j \in 1 .. Len(a) : u[Len(s) + j] = a[j]
        BY <2>2, Concat
    <2>. QED BY <1>5, <2>1, <2>3
<1>10. PICK p : p = q \o x
    OBVIOUS
<1>11. /\ Len(p) = Len(q) + n
       /\ \A j \in 1 .. Len(q) : p[j] = q[j]
       /\ \A j \in 1 .. n : p[Len(q) + j] = t[j]
    <2>1. PICK a \in Seq(Token) : a = x
        BY <1>5
    <2>2. p = q \o a
        BY <1>10, <2>1
    <2>3. /\ Len(p) = Len(q) + Len(a)
          /\ \A j \in 1 .. Len(q) : p[j] = q[j]
          /\ \A j \in 1 .. Len(a) : p[Len(q) + j] = a[j]
        BY <2>2, Concat
    <2>. QED BY <1>5, <2>1, <2>3
<1>12. PICK v : v = u \o y
    OBVIOUS
<1>13. /\ v \in Seq(Token) /\ Len(v) = Len(u) + m
       /\ \A j \in 1 .. Len(u) : v[j] = u[j]
       /\ \A j \in 1 .. m : v[Len(u) + j] = y[j]
    <2>1. PICK a \in Seq(Token), b \in Seq(Token) : a = u /\ b = y
        BY <1>7, <1>9
    <2>2. v = a \o b
        BY <1>12, <2>1
    <2>3. /\ v \in Seq(Token) /\ Len(v) = Len(a) + Len(b)
          /\ \A j \in 1 .. Len(a) : v[j] = a[j]
          /\ \A j \in 1 .. Len(b) : v[Len(a) + j] = b[j]
        BY <2>2, Concat
    <2>. QED BY <1>7, <2>1, <2>3
<1>14. PICK w : w = s \o t
    OBVIOUS
<1>15. /\ w \in Seq(Token) /\ Len(w) = Len(s) + Len(t)
       /\ \A j \in 1 .. Len(s) : w[j] = s[j]
       /\ \A j \in 1 .. Len(t) : w[Len(s) + j] = t[j]
    BY <1>14, Concat
<1>16. Len(v) = Len(w) /\ Len(u) \in Nat
    BY <1>2, <1>3, <1>9, <1>13, <1>15
<1>17. ASSUME NEW j \in 1 .. Len(v) PROVE v[j] = w[j]
    <2>1. CASE j <= Len(s)
        <3>1. j \in 1 .. Len(s) /\ j \in 1 .. Len(u)
            BY <1>2, <1>9, <2>1
        <3>. QED BY <1>9, <1>13, <1>15, <3>1
    <2>2. CASE j > Len(s) /\ j <= Len(u)
        <3>1. PICK k \in 1 .. n : j = Len(s) + k
            <4>1. j - Len(s) \in 1 .. n /\ j = Len(s) + (j - Len(s))
                BY <1>2, <1>9, <2>2
            <4>. QED BY <4>1
        <3>2. k \in 1 .. Len(t) /\ j \in 1 .. Len(u)
            BY <1>2, <1>16, <2>2
        <3>. QED BY <1>9, <1>13, <1>15, <3>1, <3>2
    <2>3. CASE j > Len(u)
        <3>1. PICK k \in 1 .. m : j = Len(u) + k
            <4>1. j - Len(u) \in 1 .. m /\ j = Len(u) + (j - Len(u))
                BY <1>13, <1>16, <2>3
            <4>. QED BY <4>1
        <3>2. n + k \in 1 .. Len(t) /\ j = Len(s) + (n + k)
            BY <1>2, <1>3, <1>9, <3>1
        <3>3. w[j] = t[n + k]
            BY <1>15, <3>2
        <3>4. v[j] = y[k]
            BY <1>13, <3>1
        <3>. QED BY <1>7, <3>3, <3>4
    <2>. QED BY <1>16, <2>1, <2>2, <2>3
<1>18. v = w
    BY <1>13, <1>15, <1>16, <1>17, SameSeq
<1>19. Begins(s, u)
    BY <1>2, <1>9 DEF Begins
<1>20. net' = p /\ sent' = u /\ todo' = y
    BY <1>1, <1>2, <1>4, <1>6, <1>8, <1>10 DEF Send
<1>21. sent' \o todo' = v /\ sent \o todo = w
    BY <1>1, <1>12, <1>14, <1>20
<1>. QED BY <1>1, <1>9, <1>11, <1>18, <1>19, <1>20, <1>21

\* The position in a stream is the same when more of it arrives.
LEMMA PositionStable ==
    ASSUME NEW s \in Seq(Token), NEW t \in Seq(Token), Begins(s, t), NEW r, NEW m,
           NEW d \in Conn, NEW b, m # "closed" => b \in Nat /\ b + Len(d.buf) <= Len(s),
           NEW i \in 0 .. Len(s), Position(s, r, m, d, b, i)
    PROVE  Position(t, r, m, d, b, i)
<1>1. /\ Len(s) \in Nat /\ Len(d.buf) \in Nat /\ d.start \in Nat /\ i \in Nat
      /\ \A j \in 1 .. Len(s) : t[j] = s[j]
    BY ConnTypes DEF Begins
<1>2. i = 0 \/ t[i] = "LF"
    BY <1>1 DEF Position
<1>3. ASSUME m # "closed", NEW j \in d.start + 1 .. Len(d.buf) PROVE d.buf[j] = t[b + j]
    <2>1. b + j \in 1 .. Len(s)
        <3>1. PICK a \in Nat, k \in Nat, z \in Nat : a = d.start /\ k = Len(d.buf) /\ z = Len(s)
            BY <1>1
        <3>2. b \in Nat /\ b + k <= z
            BY <1>3, <3>1
        <3>3. j \in a + 1 .. k
            BY <3>1
        <3>4. b + j \in 1 .. z
            BY <3>2, <3>3
        <3>. QED BY <3>1, <3>4
    <2>2. d.buf[j] = s[b + j]
        BY <1>3 DEF Position
    <2>. QED BY <1>1, <2>1, <2>2
<1>4. ASSUME m \in {"read", "parse"} PROVE ParsedUpTo(t, i, d)
    <2>1. ParsedUpTo(s, i, d) /\ i + d.start \in Nat
        BY <1>1, <1>4 DEF Position
    <2>. QED BY <1>1, <2>1, UndecidedStable DEF ParsedUpTo
<1>5. ASSUME m = "read" PROVE Exhausted(t, i, d)
    <2>1. Exhausted(s, i, d) /\ i + Len(d.buf) <= Len(s)
        BY <1>5 DEF Position
    <2>. QED BY <1>1, <2>1, ExhaustedStable
<1>. QED BY <1>2, <1>3, <1>4, <1>5 DEF Position

LEMMA SendStep ==
    ASSUME RInv, NEW n \in 1 .. Len(todo), Send(n)
    PROVE  InTransit' /\ Followed'
<1>1. TypeOK /\ InTransit /\ Followed
    BY DEF RInv
<1>2. /\ sent \in Seq(Token) /\ todo \in Seq(Token) /\ net \in Seq(Token)
      /\ Len(sent) \in Nat /\ Len(net) \in Nat /\ Len(todo) \in Nat /\ n \in Nat
      /\ c \in Conn /\ Len(c.buf) \in Nat /\ c.start \in Nat /\ said \in Seq(Answer)
      /\ Len(said) \in Nat
    BY <1>1, Types
<1>3. /\ sent' \o todo' = sent \o todo /\ sent' \in Seq(Token) /\ Begins(sent, sent')
      /\ Len(sent') = Len(sent) + n
      /\ \A j \in 1 .. n : sent'[Len(sent) + j] = todo[j]
      /\ Len(net') = Len(net) + n
      /\ \A j \in 1 .. Len(net) : net'[j] = net[j]
      /\ \A j \in 1 .. n : net'[Len(net) + j] = todo[j]
    BY <1>1, SendTypes
<1>4. c' = c /\ mode' = mode /\ said' = said
    BY DEF Send
<1>5. \A j \in 1 .. Len(sent) : sent'[j] = sent[j]
    BY <1>3 DEF Begins
<1>6. Base' = Base
    <2>1. Len(sent) + n - (Len(net) + n + Len(c.buf)) = Len(sent) - (Len(net) + Len(c.buf))
        BY <1>2
    <2>. QED BY <1>3, <1>4, <2>1 DEF Base
<1>7. InTransit'
    <2>1. PICK k \in Nat : k = Len(sent) - Len(net) /\ k = Len(sent') - Len(net')
                           /\ Len(net') <= Len(sent')
        <3>1. Len(sent) - Len(net) \in Nat
            BY <1>1, <1>2 DEF InTransit
        <3>2. Len(sent') - Len(net') = Len(sent) - Len(net) /\ Len(net') <= Len(sent')
            BY <1>2, <1>3, <3>1
        <3>. QED BY <3>1, <3>2
    <2>2. ASSUME NEW j \in 1 .. Len(net') PROVE net'[j] = sent'[k + j]
        <3>1. CASE j <= Len(net)
            <4>1. j \in 1 .. Len(net) /\ k + j \in 1 .. Len(sent)
                BY <1>2, <2>1, <3>1
            <4>. QED BY <1>1, <1>3, <1>5, <2>1, <4>1 DEF InTransit
        <3>2. CASE j > Len(net)
            <4>1. PICK h \in 1 .. n : j = Len(net) + h
                <5>1. j - Len(net) \in 1 .. n /\ j = Len(net) + (j - Len(net))
                    BY <1>2, <1>3, <3>2
                <5>. QED BY <5>1
            <4>2. k + j = Len(sent) + h
                BY <1>2, <2>1, <4>1
            <4>. QED BY <1>3, <4>1, <4>2
        <3>. QED BY <1>2, <3>1, <3>2
    <2>. QED BY <1>1, <1>3, <1>4, <1>6, <2>1, <2>2 DEF InTransit
<1>8. ASSUME ~HasBody(sent') PROVE Tracks(sent', said, mode, c, Base)
    <2>1. ~HasBody(sent)
        BY <1>2, <1>3, <1>8, MoreBodies
    <2>2. PICK e, i : /\ Chain(sent, said, e) /\ i = e[Len(said)]
                      /\ Position(sent, said, mode, c, Base, i)
        BY <1>1, <2>1 DEF Followed, Tracks
    <2>3. Chain(sent', said, e)
        BY <1>2, <1>3, <2>2, ChainStable
    <2>4. i \in 0 .. Len(sent)
        BY <1>2, <2>2, ChainEnds
    <2>5. mode # "closed" => Base \in Nat /\ Base + Len(c.buf) <= Len(sent)
        BY <1>1, BaseFacts
    <2>6. Position(sent', said, mode, c, Base, i)
        BY <1>2, <1>3, <2>2, <2>4, <2>5, PositionStable
    <2>. QED BY <2>2, <2>3, <2>6 DEF Tracks
<1>. QED BY <1>4, <1>6, <1>7, <1>8 DEF Followed

LEMMA ClosedTracks ==
    ASSUME NEW s, NEW r, NEW m, NEW d, NEW b, Tracks(s, r, m, d, b), NEW f, NEW g
    PROVE  Tracks(s, r, "closed", f, g)
<1>1. PICK e, i : Chain(s, r, e) /\ i = e[Len(r)] /\ Position(s, r, m, d, b, i)
    BY DEF Tracks
<1>2. Position(s, r, "closed", f, g, i)
    BY <1>1 DEF Position
<1>. QED BY <1>1, <1>2 DEF Tracks

LEMMA SameParsed ==
    ASSUME NEW s, NEW i, NEW d, NEW e, SameHead(d, e), e.start = d.start,
           ParsedUpTo(s, i, d)
    PROVE  ParsedUpTo(s, i, e)
BY DEF ParsedUpTo, Knows, SameHead

\* What is read is the next part of the stream.
LEMMA FilledNext ==
    ASSUME RInv, mode = "read", net' = SubSeq(net, Taken + 1, Len(net)),
           sent' = sent, todo' = todo, c' = Filled, mode' = "parse"
    PROVE  /\ InTransit' /\ Base' = Base
           /\ \A j \in 1 .. Len(c.buf) : Filled.buf[j] = c.buf[j]
           /\ \A j \in Len(c.buf) + 1 .. Len(Filled.buf) : Filled.buf[j] = sent[Base + j]
<1>1. TypeOK /\ InTransit
    BY DEF RInv
<1>2. PICK z \in Nat, k \in Nat, h \in Nat, q \in Seq(Token) :
          z = Len(sent) /\ k = Len(net) /\ h = Len(c.buf) /\ q = net /\ k = Len(q)
    BY <1>1, Types
<1>3. PICK a \in Nat : a = Taken /\ a <= k
    BY <1>1, <1>2, FilledFacts
<1>4. PICK x \in Nat : x = k - a
    <2>1. k - a \in Nat
        BY <1>3
    <2>. QED BY <2>1
<1>5. /\ Len(Filled.buf) = h + a
      /\ \A j \in 1 .. h : Filled.buf[j] = c.buf[j]
      /\ \A j \in 1 .. a : Filled.buf[h + j] = q[j]
    BY <1>1, <1>2, <1>3, FilledFacts
<1>6. PICK p : p = SubSeq(q, a + 1, Len(q))
    OBVIOUS
<1>7. Len(p) = x /\ \A j \in 1 .. x : p[j] = q[a + j]
    BY <1>2, <1>3, <1>4, <1>6, Behead
<1>8. net' = p
    BY <1>2, <1>3, <1>6
<1>9. PICK g \in Nat : g = Base /\ g = z - (k + h) /\ g + h + k = z
    <2>1. Base \in Nat /\ Base = z - (k + h)
        BY <1>1, <1>2, BaseFacts DEF Base
    <2>2. PICK y \in Nat : y = Base
        BY <2>1
    <2>3. y = z - (k + h)
        BY <2>1, <2>2
    <2>4. y + h + k = z
        BY <2>3
    <2>. QED BY <2>2, <2>3, <2>4
<1>10. \A j \in 1 .. k : q[j] = sent[g + h + j]
    <2>1. \A j \in 1 .. k : q[j] = sent[(z - k) + j]
        BY <1>1, <1>2 DEF InTransit
    <2>2. z - k = g + h
        BY <1>9
    <2>. QED BY <2>1, <2>2
<1>11. Base' = Base
    <2>1. Base' = z - (x + (h + a))
        BY <1>2, <1>5, <1>7, <1>8 DEF Base
    <2>2. z - (x + (h + a)) = z - (k + h)
        BY <1>3, <1>4
    <2>. QED BY <1>9, <2>1, <2>2
<1>12. ASSUME NEW j \in h + 1 .. h + a PROVE Filled.buf[j] = sent[g + j]
    <2>1. PICK y \in 1 .. a : j = h + y
        <3>1. j - h \in 1 .. a /\ j = h + (j - h)
            OBVIOUS
        <3>. QED BY <3>1
    <2>2. y \in 1 .. k /\ g + h + y = g + j
        BY <1>3, <2>1
    <2>. QED BY <1>5, <1>10, <2>1, <2>2
<1>13. InTransit'
    <2>1. x <= z /\ g >= 0
        BY <1>4, <1>9
    <2>2. ASSUME NEW j \in 1 .. x PROVE p[j] = sent[(z - x) + j]
        <3>1. a + j \in 1 .. k /\ g + h + (a + j) = (z - x) + j
            BY <1>3, <1>4, <1>9
        <3>. QED BY <1>7, <1>10, <3>1
    <2>3. sent' \o todo' \in Streams
        BY <1>1 DEF InTransit
    <2>4. Base' >= 0
        BY <1>9, <1>11, <2>1
    <2>. QED BY <1>2, <1>7, <1>8, <2>1, <2>2, <2>3, <2>4 DEF InTransit
<1>. QED BY <1>2, <1>5, <1>9, <1>11, <1>12, <1>13

LEMMA ReadStep ==
    ASSUME RInv, DealRead
    PROVE  InTransit' /\ Followed'
<1>1. TypeOK /\ InTransit /\ Followed
    BY DEF RInv
<1>2. mode = "read" /\ todo' = todo /\ sent' = sent /\ said' = said
    BY DEF DealRead
<1>3. CASE ReadFails
    <2>1. net' = net /\ mode' = "closed"
        BY <1>3 DEF DealRead, Close
    <2>2. InTransit'
        BY <1>1, <1>2, <2>1 DEF InTransit
    <2>3. ~HasBody(sent) => Tracks(sent, said, "closed", c', Base')
        BY <1>1, ClosedTracks DEF Followed
    <2>. QED BY <1>2, <2>1, <2>2, <2>3 DEF Followed
<1>4. CASE ~ReadFails
    <2>1. mode' = "parse" /\ c' = Filled /\ net' = SubSeq(net, Taken + 1, Len(net))
        BY <1>4 DEF DealRead, Parse
    <2>2. /\ InTransit' /\ Base' = Base
          /\ \A j \in 1 .. Len(c.buf) : Filled.buf[j] = c.buf[j]
          /\ \A j \in Len(c.buf) + 1 .. Len(Filled.buf) : Filled.buf[j] = sent[Base + j]
        BY <1>2, <2>1, FilledNext
    <2>3. SameHead(c, Filled) /\ Filled.start = c.start /\ Filled.checked = c.checked
        BY <1>1, FilledFacts
    <2>4. PICK a \in Nat, k \in Nat, h \in Nat : /\ a = c.start /\ k = c.checked /\ h = Len(c.buf)
                                                 /\ a <= k /\ k <= h
        BY <1>1, Types
    <2>5. ASSUME ~HasBody(sent) PROVE Tracks(sent, said, "parse", Filled, Base)
        <3>1. PICK e, i : /\ Chain(sent, said, e) /\ i = e[Len(said)]
                          /\ Position(sent, said, "read", c, Base, i)
            BY <1>1, <1>2, <2>5 DEF Followed, Tracks
        <3>2. /\ i = 0 \/ sent[i] = "LF"
              /\ \A j \in a + 1 .. h : c.buf[j] = sent[Base + j]
              /\ Base = i /\ ~LastBad(said) /\ ParsedUpTo(sent, i, c) /\ Scanned(c)
            BY <2>4, <3>1 DEF Position
        <3>3. \A j \in a + 1 .. Len(Filled.buf) : Filled.buf[j] = sent[Base + j]
            <4>1. ASSUME NEW j \in a + 1 .. Len(Filled.buf)
                  PROVE  (j \in 1 .. h /\ j \in a + 1 .. h) \/ j \in h + 1 .. Len(Filled.buf)
                BY <2>4
            <4>. QED BY <2>2, <2>4, <3>2, <4>1
        <3>4. ParsedUpTo(sent, i, Filled)
            BY <2>3, <3>2, SameParsed
        <3>5. Scanned(Filled)
            <4>1. ASSUME NEW j \in a + 1 .. k PROVE j \in 1 .. h
                BY <2>4
            <4>2. a > 0 => a \in 1 .. h
                BY <2>4
            <4>. QED BY <2>2, <2>3, <2>4, <3>2, <4>1, <4>2 DEF Scanned
        <3>6. Position(sent, said, "parse", Filled, Base, i)
            BY <2>3, <2>4, <3>2, <3>3, <3>4, <3>5 DEF Position
        <3>. QED BY <3>1, <3>6 DEF Tracks
    <2>. QED BY <1>2, <2>1, <2>2, <2>5 DEF Followed
<1>. QED BY <1>3, <1>4
-----------------------------------------------------------------------------
(* The parser *)

LEMMA FoundConn ==
    ASSUME NEW ret, NEW d \in Conn, Found(ret, d)
    PROVE  /\ c'.buf = d.buf /\ c'.start = d.start
           /\ ret = "BadRequest" => c'.code = "BadRequest"
<1>1. CASE ret = "BadRequest"
    <2>1. PICK e : e = [d EXCEPT !.code = "BadRequest"]
        OBVIOUS
    <2>2. e.buf = d.buf /\ e.start = d.start /\ e.code = "BadRequest"
        BY <2>1, CodeFacts
    <2>3. c' = [d EXCEPT !.code = ret]
        BY <1>1, Zenon DEF Found
    <2>4. c' = e
        BY <1>1, <2>1, <2>3
    <2>. QED BY <2>2, <2>4
<1>2. CASE ret # "BadRequest"
    <2>1. c' \in DoRequest(d)
        BY <1>2, Zenon DEF Found
    <2>. QED BY <1>2, <2>1, RequestFacts
<1>. QED BY <1>1, <1>2

LEMMA ParseLength ==
    ASSUME TypeOK, ParseTurn
    PROVE  Len(c'.buf) = Len(c.buf) /\ mode' # "closed"
<1>1. c \in Conn /\ Ordered(c) /\ c.checked \in Nat /\ c.start \in Nat
    BY Types
<1>2. PICK l, r :
          /\ l = IF c.chk = "BODY" /\ status = "Ok" THEN At("Ok", c, c.checked)
                 ELSE ParseLine(c)
          /\ r = Step([l.c EXCEPT !.start = l.c.checked], Text(l.c), c.start)
          /\ \/ l.status # "Ok" /\ Incomplete(l.c)
             \/ /\ l.status = "Ok" /\ r.ret = "NoRequest"
                /\ mode' = mode /\ c' = r.c /\ said' = said
                /\ status' = IF c.chk = "BODY" THEN "Open" ELSE "Ok"
             \/ l.status = "Ok" /\ r.ret # "NoRequest" /\ Found(r.ret, r.c)
    BY ParseCases
<1>3. l.c \in Conn /\ Ordered(l.c) /\ Len(l.c.buf) = Len(c.buf)
    <2>1. CASE l = At("Ok", c, c.checked)
        BY <1>1, <2>1, AtFacts DEF Ordered
    <2>2. CASE l = ParseLine(c)
        BY <1>1, <2>2, ParseLineFacts
    <2>. QED BY <1>2, <2>1, <2>2
<1>4. PICK d : d = [l.c EXCEPT !.start = l.c.checked]
    OBVIOUS
<1>5. d \in Conn /\ d.buf = l.c.buf
    BY <1>3, <1>4, MovedFacts
<1>6. r.c \in Conn /\ Len(r.c.buf) = Len(c.buf)
    <2>1. Text(l.c) \in Seq(Token)
        BY <1>3, TextType
    <2>2. r = Step(d, Text(l.c), c.start)
        BY <1>2, <1>4
    <2>3. r.c \in Conn /\ Len(r.c.buf) = Len(d.buf)
        BY <1>1, <1>5, <2>1, <2>2, StepFacts
    <2>. QED BY <1>3, <1>5, <2>3
<1>7. CASE Incomplete(l.c)
    BY <1>3, <1>7 DEF Incomplete
<1>8. CASE mode' = mode /\ c' = r.c
    BY <1>6, <1>8 DEF ParseTurn
<1>9. CASE Found(r.ret, r.c)
    <2>1. c'.buf = r.c.buf
        BY <1>6, <1>9, FoundConn
    <2>2. mode' = "busy"
        BY <1>9, Zenon DEF Found
    <2>. QED BY <1>6, <2>1, <2>2
<1>. QED BY <1>2, <1>7, <1>8, <1>9

\* Nothing arrives and nothing is read.
LEMMA SameTransit ==
    ASSUME InTransit, net' = net, todo' = todo, sent' = sent, mode # "closed",
           Len(c'.buf) = Len(c.buf)
    PROVE  InTransit' /\ Base' = Base
<1>1. Base' = Base
    BY DEF Base
<1>. QED BY <1>1 DEF InTransit

\* What the state machine makes of the next line.
LEMMA LineJudged ==
    ASSUME NEW s \in Seq(Token), ~HasBody(s), NEW i \in Nat, NEW d, Reading(s, i, d),
           ParsedUpTo(s, i, d), NEW n, NEW b, LineEnd(s, i, i + d.start, n, b),
           NEW e \in Conn, SameHead(d, e), NEW from,
           NEW r, r = Step(e, Line(s, i, n), from)
    PROVE  Judges(s, i, n, r) /\ d.chk # "BODY"
<1>1. PICK p \in Nat : p = i + d.start /\ i <= p
    <2>1. i + d.start \in Nat /\ i <= i + d.start
        BY ReadingTypes
    <2>. QED BY <2>1
<1>2. Undecided(s, i, p) /\ Knows(s, i, p, d) /\ LineEnd(s, i, p, n, b)
    BY <1>1 DEF ParsedUpTo
<1>3. Knows(s, i, p, e) /\ e.chk = d.chk
    BY <1>2 DEF Knows, SameHead
<1>4. CASE p = i
    <2>1. e.chk = "LINE"
        BY <1>3, <1>4 DEF Knows
    <2>2. r = ParseRequestLine(e, Line(s, i, n))
        BY <2>1 DEF Step
    <2>3. Undecided(s, i, i) /\ Knows(s, i, i, e) /\ LineEnd(s, i, i, n, b)
        BY <1>2, <1>3, <1>4
    <2>. QED BY <1>3, <2>1, <2>2, <2>3, JudgesRequestLine
<1>5. CASE p # i
    <2>1. e.chk = "HEADER" /\ i < p
        BY <1>1, <1>3, <1>5 DEF Knows
    <2>2. r = ParseHeaders(e, Line(s, i, n))
        BY <2>1 DEF Step
    <2>. QED BY <1>2, <1>3, <2>1, <2>2, JudgesHeader
<1>. QED BY <1>4, <1>5

LEMMA ReadingHere ==
    ASSUME RInv, mode \in {"read", "parse"}, NEW i \in Nat,
           Position(sent, said, mode, c, Base, i)
    PROVE  /\ Base = i /\ ~LastBad(said) /\ ParsedUpTo(sent, i, c)
           /\ Reading(sent, i, c)
<1>1. /\ Base = i /\ ~LastBad(said) /\ ParsedUpTo(sent, i, c) /\ Scanned(c)
      /\ i = 0 \/ sent[i] = "LF"
      /\ \A j \in c.start + 1 .. Len(c.buf) : c.buf[j] = sent[i + j]
    BY DEF Position
<1>2. c \in Conn /\ Ordered(c)
    BY Types DEF RInv
<1>3. i + Len(c.buf) <= Len(sent)
    BY <1>1, BaseFacts DEF RInv
<1>4. i + c.start = i \/ i + c.start \in Ends(sent, i)
    BY <1>1 DEF ParsedUpTo, Undecided
<1>. QED BY <1>1, <1>2, <1>3, <1>4 DEF Reading, Holds

\* The parser stops: it has to wait, or does not get any further.
LEMMA StopStep ==
    ASSUME RInv, mode = "parse", ~HasBody(sent), NEW e, NEW i \in Nat,
           Chain(sent, said, e), i = e[Len(said)],
           Position(sent, said, mode, c, Base, i),
           NEW d, Reading(sent, i, d), Exhausted(sent, i, d), d.start = c.start,
           SameHead(c, d)
    PROVE  Tracks(sent, said, "read", d, Base)
<1>1. Base = i /\ ~LastBad(said) /\ ParsedUpTo(sent, i, c)
    BY ReadingHere
<1>2. ParsedUpTo(sent, i, d)
    BY <1>1, SameParsed
<1>3. /\ i = 0 \/ sent[i] = "LF"
      /\ \A j \in d.start + 1 .. Len(d.buf) : d.buf[j] = sent[i + j]
      /\ Scanned(d)
    BY DEF Reading, Holds
<1>4. Position(sent, said, "read", d, Base, i)
    BY <1>1, <1>2, <1>3 DEF Position
<1>. QED BY <1>4 DEF Tracks

\* It goes on with the next line.
LEMMA GoOnStep ==
    ASSUME RInv, mode = "parse", ~HasBody(sent), NEW e, NEW i \in Nat,
           Chain(sent, said, e), i = e[Len(said)],
           Position(sent, said, mode, c, Base, i),
           NEW d, Reading(sent, i, d), NEW f, f.start = d.start, f.checked = d.checked,
           f.buf = d.buf, NEW n, n = i + d.start, Undecided(sent, i, n), Knows(sent, i, n, f)
    PROVE  Tracks(sent, said, "parse", f, Base)
<1>1. Base = i /\ ~LastBad(said)
    BY ReadingHere
<1>2. ParsedUpTo(sent, i, f)
    BY DEF ParsedUpTo
<1>3. /\ i = 0 \/ sent[i] = "LF"
      /\ \A j \in d.start + 1 .. Len(d.buf) : d.buf[j] = sent[i + j]
      /\ Scanned(d)
    BY DEF Reading, Holds
<1>4. Scanned(f)
    BY <1>3 DEF Scanned
<1>5. Position(sent, said, "parse", f, Base, i)
    BY <1>1, <1>2, <1>3, <1>4 DEF Position
<1>. QED BY <1>5 DEF Tracks

LEMMA FoundLast ==
    ASSUME TypeOK, NEW ret, NEW d, Found(ret, d)
    PROVE  /\ mode' = "busy" /\ Len(said') = Len(said) + 1
           /\ \A j \in 1 .. Len(said) : said'[j] = said[j]
           /\ said'[Len(said')].ret = ret
BY FoundFacts, Zenon

\* It has found a request.
LEMMA FoundStep ==
    ASSUME RInv, mode = "parse", ~HasBody(sent), NEW e, NEW i \in Nat,
           Chain(sent, said, e), i = e[Len(said)],
           Position(sent, said, mode, c, Base, i), said' \in Seq(Answer),
           NEW d, Reading(sent, i, d), NEW f \in Conn, f.start = d.start, f.buf = d.buf,
           NEW n, n = i + d.start, sent[n] = "LF", NEW ret, Found(ret, f),
           Complete(sent, i), RequestAfter(sent, i).to = n, RequestAfter(sent, i).ret = ret,
           RequestAfter(sent, i).url = said'[Len(said')].url
    PROVE  Tracks(sent, said', mode', c', Base)
<1>1. TypeOK /\ sent \in Seq(Token) /\ said \in Seq(Answer) /\ Len(said) \in Nat
    BY Types DEF RInv
<1>2. Base = i /\ ~LastBad(said)
    BY ReadingHere
<1>3. /\ mode' = "busy" /\ Len(said') = Len(said) + 1
      /\ \A j \in 1 .. Len(said) : said'[j] = said[j]
      /\ said'[Len(said')].ret = ret
    BY <1>1, FoundLast
<1>4. PICK q : q = RequestAfter(sent, i)
    OBVIOUS
<1>5. said'[Len(said) + 1].ret = q.ret /\ said'[Len(said) + 1].url = q.url
    BY <1>3, <1>4
<1>6. PICK z \in Seq(Answer) : z = said'
    OBVIOUS
<1>7. PICK g : Chain(sent, z, g) /\ g[Len(z)] = q.to
    <2>1. /\ Len(z) = Len(said) + 1 /\ \A j \in 1 .. Len(said) : z[j] = said[j]
          /\ z[Len(said) + 1].ret = q.ret /\ z[Len(said) + 1].url = q.url
        BY <1>3, <1>5, <1>6
    <2>2. Complete(sent, e[Len(said)]) /\ q = RequestAfter(sent, e[Len(said)])
        BY <1>4
    <2>. QED BY <1>1, <1>2, <2>1, <2>2, ChainAppend
<1>8. /\ c'.buf = f.buf /\ c'.start = f.start
      /\ ret = "BadRequest" => c'.code = "BadRequest"
    BY FoundConn
<1>9. \A j \in d.start + 1 .. Len(d.buf) : d.buf[j] = sent[i + j]
    BY DEF Reading, Holds
<1>10. z # <<>> /\ (LastBad(z) => ret = "BadRequest")
    BY <1>1, <1>3, <1>6 DEF LastBad
<1>11. Position(sent, z, "busy", c', Base, n)
    BY <1>2, <1>8, <1>9, <1>10 DEF Position
<1>12. g[Len(z)] = n
    BY <1>4, <1>7
<1>. QED BY <1>3, <1>6, <1>7, <1>11, <1>12 DEF Tracks

LEMMA ParseStep ==
    ASSUME RInv, TypeOK', ParseTurn
    PROVE  InTransit' /\ Followed'
<1>1. TypeOK /\ InTransit /\ Followed
    BY DEF RInv
<1>2. mode = "parse" /\ net' = net /\ todo' = todo /\ sent' = sent
    BY DEF ParseTurn, client
<1>3. InTransit' /\ Base' = Base
    BY <1>1, <1>2, ParseLength, SameTransit
<1>4. said' \in Seq(Answer)
    BY DEF TypeOK, Answer
<1>5. ASSUME ~HasBody(sent) PROVE Tracks(sent, said', mode', c', Base)
    <2>1. PICK e, i : /\ Chain(sent, said, e) /\ i = e[Len(said)]
                      /\ Position(sent, said, mode, c, Base, i)
        BY <1>1, <1>5 DEF Followed, Tracks
    <2>2. sent \in Seq(Token) /\ i \in Nat
        <3>1. i \in 0 .. Len(sent)
            BY <1>1, <2>1, ChainEnds, Types
        <3>. QED BY <1>1, <3>1, Types
    <2>3. Reading(sent, i, c) /\ ParsedUpTo(sent, i, c)
        BY <1>2, <2>1, <2>2, ReadingHere
    <2>4. c.chk # "BODY"
        BY <2>3 DEF ParsedUpTo, Knows
    <2>5. PICK l, r :
              /\ l = IF c.chk = "BODY" /\ status = "Ok" THEN At("Ok", c, c.checked)
                     ELSE ParseLine(c)
              /\ r = Step([l.c EXCEPT !.start = l.c.checked], Text(l.c), c.start)
              /\ \/ l.status # "Ok" /\ Incomplete(l.c)
                 \/ /\ l.status = "Ok" /\ r.ret = "NoRequest"
                    /\ mode' = mode /\ c' = r.c /\ said' = said
                    /\ status' = IF c.chk = "BODY" THEN "Open" ELSE "Ok"
                 \/ l.status = "Ok" /\ r.ret # "NoRequest" /\ Found(r.ret, r.c)
        BY ParseCases
    <2>6. l = ParseLine(c)
        BY <2>4, <2>5
    <2>7. CASE l.status # "Ok" /\ Reading(sent, i, l.c) /\ Exhausted(sent, i, l.c)
               /\ l.c.start = c.start /\ SameHead(c, l.c)
        <3>1. mode' = "read" /\ c' = l.c /\ said' = said
            BY <2>5, <2>7 DEF Incomplete
        <3>2. Tracks(sent, said, "read", l.c, Base)
            BY <1>2, <1>5, <2>1, <2>2, <2>7, StopStep
        <3>. QED BY <3>1, <3>2
    <2>8. ASSUME NEW n, NEW b, LineEnd(sent, i, i + c.start, n, b), b < Len(c.buf),
                 l = EndLine(c, b)
          PROVE  Tracks(sent, said', mode', c', Base)
        <3>1. PICK d : d = Past(l.c) /\ d = [l.c EXCEPT !.start = l.c.checked]
            BY DEF Past
        <3>2. l.status = "Ok" /\ Reading(sent, i, d) /\ i + d.start = n /\ SameHead(c, d)
            <4>1. sent \in Seq(Token) /\ i \in Nat /\ Reading(sent, i, c)
                BY <2>2, <2>3
            <4>2. LineEnd(sent, i, i + c.start, n, b)
                BY <2>8
            <4>3. b < Len(c.buf)
                BY <2>8
            <4>4. l = EndLine(c, b)
                BY <2>8
            <4>5. d = Past(l.c)
                BY <3>1
            <4>6. Reading(sent, i, d)
                BY <4>1, <4>2, <4>3, <4>4, <4>5, AfterLine
            <4>7. i + d.start = n /\ SameHead(c, d)
                BY <4>1, <4>2, <4>3, <4>4, <4>5, AfterLine
            <4>8. l.status = "Ok"
                BY <4>1, <4>2, <4>3, <4>4, <4>5, AfterLine
            <4>. QED BY <4>6, <4>7, <4>8
        <3>3. Text(l.c) = Line(sent, i, n)
            BY <2>2, <2>3, <2>8, TextRead
        <3>4. n \in Ends(sent, i) /\ sent[n] = "LF" /\ Line(sent, i, n) \in Seq(Token)
            BY <2>2, <2>8, EndsFacts, LineFacts DEF LineEnd
        <3>5. d \in Conn /\ c.start \in Nat
            BY <1>1, <3>2, Types DEF Reading
        <3>6. r = Step(d, Line(sent, i, n), c.start)
            BY <2>5, <3>1, <3>3
        <3>7. Judges(sent, i, n, r) /\ d.chk # "BODY"
            BY <1>5, <2>2, <2>3, <2>4, <2>8, <3>2, <3>5, <3>6, LineJudged DEF SameHead
        <3>8. /\ r.c \in Conn /\ r.c.start = d.start /\ r.c.checked = d.checked
              /\ r.c.buf = d.buf
            BY <3>4, <3>5, <3>6, <3>7, StepFacts
        <3>9. CASE r.ret = "NoRequest"
            <4>1. mode' = "parse" /\ c' = r.c /\ said' = said
                BY <1>2, <2>5, <3>2, <3>9
            <4>2. Undecided(sent, i, n) /\ Knows(sent, i, n, r.c)
                BY <3>7, <3>9 DEF Judges
            <4>3. Tracks(sent, said, "parse", r.c, Base)
                BY <1>2, <1>5, <2>1, <2>2, <3>2, <3>8, <4>2, GoOnStep
            <4>. QED BY <4>1, <4>3
        <3>10. CASE r.ret # "NoRequest"
            <4>1. Found(r.ret, r.c)
                BY <2>5, <3>2, <3>10
            <4>2. /\ Complete(sent, i) /\ RequestAfter(sent, i).to = n
                  /\ RequestAfter(sent, i).ret = r.ret
                BY <3>7, <3>10, Zenon DEF Judges
            <4>3. RequestAfter(sent, i).url = said'[Len(said')].url
                <5>1. RequestAfter(sent, i).url = IF r.ret = "BadRequest" THEN "" ELSE r.c.url
                    BY <3>7, <3>10, Zenon DEF Judges
                <5>2. said'[Len(said')].url = IF r.ret = "BadRequest" THEN "" ELSE r.c.url
                    BY <1>1, <4>1, FoundFacts, Zenon
                <5>. QED BY <5>1, <5>2
            <4>. QED BY <1>2, <1>4, <1>5, <2>1, <2>2, <3>2, <3>4, <3>8, <4>1, <4>2, <4>3, FoundStep
        <3>. QED BY <3>9, <3>10
    <2>. QED BY <2>2, <2>3, <2>6, <2>7, <2>8, NextStop
<1>. QED BY <1>2, <1>3, <1>5 DEF Followed
-----------------------------------------------------------------------------
(* The answer, and the rest *)

\* The answer is being made or sent.
LEMMA AnswerTracks ==
    ASSUME NEW s, NEW r, NEW m \in {"busy", "write"}, NEW d, NEW b, Tracks(s, r, m, d, b),
           NEW f, f.buf = d.buf, f.start = d.start, f.code = d.code,
           m = "busy" => (f.code = "BadRequest" => ~f.linger),
           m = "write" => (f.linger <=> d.linger)
    PROVE  Tracks(s, r, "write", f, b)
<1>1. PICK e, i : Chain(s, r, e) /\ i = e[Len(r)] /\ Position(s, r, m, d, b, i)
    BY DEF Tracks
<1>2. Position(s, r, "write", f, b, i)
    BY <1>1 DEF Position
<1>. QED BY <1>1, <1>2 DEF Tracks

\* A parser that has read nothing.
LEMMA FreshParsed ==
    ASSUME NEW s \in Seq(Token), NEW i \in Nat, NEW d, SameHead(Fresh, d),
           d.start = 0, d.checked = 0
    PROVE  ParsedUpTo(s, i, d) /\ Scanned(d)
<1>1. /\ \A n \in Ends(s, i) : n \in Nat /\ i < n
      /\ Deciding(s, i) \subseteq Ends(s, i)
    BY EndsFacts
<1>2. \A m \in Strays(s) : m \in Nat
    BY DEF Strays
<1>3. Undecided(s, i, i)
    BY <1>1, <1>2 DEF Undecided
<1>4. Fresh.chk = "LINE" /\ ~Fresh.host /\ Fresh.clen = 0
    BY DEF Fresh
<1>5. ~Has(s, i, i + 1, "host")
    BY <1>1 DEF Has
<1>6. Knows(s, i, i, d)
    BY <1>4, <1>5 DEF Knows, SameHead
<1>7. i + d.start = i
    OBVIOUS
<1>8. ParsedUpTo(s, i, d)
    BY <1>3, <1>6, <1>7 DEF ParsedUpTo
<1>9. Scanned(d)
    BY DEF Scanned
<1>. QED BY <1>8, <1>9

\* The next request on the connection.
LEMMA ResetStep ==
    ASSUME RInv, mode = "write", c.linger, net' = net, todo' = todo, sent' = sent,
           said' = said, c' = ResetForNext(c), mode' \in {"read", "parse"},
           mode' = "read" => ResetForNext(c).buf = <<>>
    PROVE  InTransit' /\ Followed'
<1>1. /\ TypeOK /\ InTransit /\ Followed /\ c \in Conn /\ Ordered(c)
      /\ sent \in Seq(Token) /\ said \in Seq(Answer)
    BY Types DEF RInv
<1>2. PICK z \in Nat, k \in Nat, h \in Nat, a \in Nat :
          z = Len(sent) /\ k = Len(net) /\ h = Len(c.buf) /\ a = c.start /\ a <= h
    <2>1. Len(sent) \in Nat /\ Len(net) \in Nat /\ Len(c.buf) \in Nat /\ c.start \in Nat
          /\ c.start <= Len(c.buf)
        BY <1>1, Types
    <2>. QED BY <2>1
<1>3. PICK d : d = ResetForNext(c)
    OBVIOUS
<1>4. PICK x \in Nat : x = h - a
    <2>1. h - a \in Nat
        BY <1>2
    <2>. QED BY <2>1
<1>5. /\ SameHead(Fresh, d) /\ d.start = 0 /\ d.checked = 0 /\ Len(d.buf) = x
      /\ \A j \in 1 .. x : d.buf[j] = c.buf[a + j]
    BY <1>1, <1>2, <1>3, <1>4, ResetFacts
<1>6. PICK g \in Nat : g = Base /\ g = z - (k + h)
    <2>1. Base \in Nat /\ Base = z - (k + h)
        BY <1>1, <1>2, BaseFacts DEF Base
    <2>. QED BY <2>1
<1>7. Base' = g + a
    <2>1. Base' = z - (k + x)
        BY <1>2, <1>3, <1>5 DEF Base
    <2>2. z - (k + x) = g + a
        BY <1>4, <1>6
    <2>. QED BY <2>1, <2>2
<1>8. InTransit'
    <2>1. Base' >= 0
        BY <1>7
    <2>. QED BY <1>1, <2>1 DEF InTransit
<1>9. ASSUME ~HasBody(sent) PROVE Tracks(sent, said, mode', d, g + a)
    <2>1. PICK e, i : /\ Chain(sent, said, e) /\ i = e[Len(said)]
                      /\ Position(sent, said, "write", c, Base, i)
        BY <1>1, <1>9 DEF Followed, Tracks
    <2>2. /\ i = 0 \/ sent[i] = "LF"
          /\ \A j \in a + 1 .. h : c.buf[j] = sent[g + j]
          /\ g + a = i /\ (LastBad(said) => ~c.linger)
        BY <1>2, <1>6, <2>1 DEF Position
    <2>3. ~LastBad(said) /\ i \in Nat
        BY <2>2
    <2>4. \A j \in d.start + 1 .. Len(d.buf) : d.buf[j] = sent[i + j]
        <3>1. ASSUME NEW j \in 1 .. x PROVE d.buf[j] = sent[i + j]
            <4>1. a + j \in a + 1 .. h /\ g + (a + j) = i + j
                BY <1>4, <2>2
            <4>. QED BY <1>5, <2>2, <4>1
        <3>2. d.start + 1 = 1
            BY <1>5
        <3>. QED BY <1>5, <3>1, <3>2
    <2>5. ParsedUpTo(sent, i, d) /\ Scanned(d)
        BY <1>1, <1>5, <2>3, FreshParsed
    <2>6. mode' = "read" => Exhausted(sent, i, d)
        <3>1. SUFFICES ASSUME mode' = "read" PROVE Exhausted(sent, i, d)
            OBVIOUS
        <3>2. Len(d.buf) = 0
            BY <1>3, <3>1
        <3>3. \A n \in Ends(sent, i) : n \in Nat /\ i < n
            BY <1>1, <2>3, EndsFacts
        <3>. QED BY <1>5, <2>3, <3>2, <3>3 DEF Exhausted
    <2>7. Position(sent, said, mode', d, i, i)
        BY <2>2, <2>3, <2>4, <2>5, <2>6 DEF Position
    <2>. QED BY <2>1, <2>2, <2>7 DEF Tracks
<1>. QED BY <1>3, <1>7, <1>8, <1>9 DEF Followed

LEMMA CloseStep ==
    ASSUME RInv, Close, net' = net, todo' = todo, sent' = sent, said' = said
    PROVE  InTransit' /\ Followed'
<1>1. InTransit /\ Followed /\ mode' = "closed"
    BY DEF RInv, Close
<1>2. InTransit'
    BY <1>1 DEF InTransit
<1>3. ~HasBody(sent) => Tracks(sent, said, "closed", c', Base')
    BY <1>1, ClosedTracks DEF Followed
<1>. QED BY <1>1, <1>2, <1>3 DEF Followed

\* The connection is the same but for what is sent of its answer.
LEMMA AnswerStep ==
    ASSUME RInv, mode \in {"busy", "write"}, mode' = "write", net' = net, todo' = todo,
           sent' = sent, said' = said, c'.buf = c.buf, c'.start = c.start,
           c'.code = c.code,
           mode = "busy" => (c'.code = "BadRequest" => ~c'.linger),
           mode = "write" => (c'.linger <=> c.linger)
    PROVE  InTransit' /\ Followed'
<1>1. InTransit /\ Followed
    BY DEF RInv
<1>2. InTransit' /\ Base' = Base
    BY <1>1, SameTransit
<1>3. PICK f : f = c'
    OBVIOUS
<1>4. ASSUME ~HasBody(sent) PROVE Tracks(sent, said, "write", f, Base)
    <2>1. Tracks(sent, said, mode, c, Base)
        BY <1>1, <1>4 DEF Followed
    <2>. QED BY <1>3, <2>1, AnswerTracks
<1>. QED BY <1>2, <1>3, <1>4 DEF Followed

LEMMA WriteStep ==
    ASSUME RInv, Business \/ DealWrite \/ CutFile
    PROVE  InTransit' /\ Followed'
<1>1. /\ net' = net /\ todo' = todo /\ sent' = sent /\ said' = said
      /\ c \in Conn
    BY Types DEF Business, DealWrite, CutFile, client, RInv
<1>2. CASE Business
    <2>1. mode = "busy" /\ mode' = "write" /\ c' = ProcessWrite(c)
        BY <1>2 DEF Business
    <2>2. PICK f : f = ProcessWrite(c)
        OBVIOUS
    <2>3. /\ f.buf = c.buf /\ f.start = c.start /\ f.code = c.code
          /\ c.code = "BadRequest" => ~f.linger
        BY <1>1, <2>2, WriteFacts
    <2>. QED BY <1>1, <2>1, <2>2, <2>3, AnswerStep
<1>3. ASSUME mode = "write", NEW n \in Nat, WriteMore(n) PROVE InTransit' /\ Followed'
    <2>1. mode' = "write" /\ c' = [c EXCEPT !.off = @ + n]
        BY <1>3 DEF WriteMore
    <2>2. PICK f : f = [c EXCEPT !.off = @ + n]
        OBVIOUS
    <2>3. /\ f.buf = c.buf /\ f.start = c.start /\ f.code = c.code
          /\ f.linger = c.linger
        BY <1>1, <2>2, MoveFacts
    <2>. QED BY <1>1, <1>3, <2>1, <2>2, <2>3, AnswerStep
<1>4. CASE CutFile
    <2>1. mode = "write" /\ mode' = "write" /\ c.actual > 0
          /\ c' = [c EXCEPT !.actual = @ - 1]
        BY <1>4 DEF CutFile
    <2>2. PICK f : f = [c EXCEPT !.actual = @ - 1]
        OBVIOUS
    <2>3. /\ f.buf = c.buf /\ f.start = c.start /\ f.code = c.code
          /\ f.linger = c.linger
        BY <1>1, <2>1, <2>2, CutFacts
    <2>. QED BY <1>1, <2>1, <2>2, <2>3, AnswerStep
<1>5. CASE DealWrite
    <2>1. mode = "write"
        BY <1>5 DEF DealWrite
    <2>2. CASE Close
        BY <1>1, <2>2, CloseStep
    <2>3. CASE Finish
        <3>1. CASE ~c.linger
            BY <2>2, <2>3, <3>1 DEF Finish
        <3>2. CASE c.linger
            <4>1. /\ c' = ResetForNext(c) /\ mode' \in {"read", "parse"}
                  /\ mode' = "read" => ResetForNext(c).buf = <<>>
                BY <2>3, <3>2 DEF Finish, Parse
            <4>. QED BY <1>1, <2>1, <3>2, <4>1, ResetStep
        <3>. QED BY <3>1, <3>2
    <2>4. CASE EndOfFile
        BY <1>3, <2>1, <2>2, <2>4 DEF EndOfFile
    <2>5. ASSUME NEW n \in {0} \cup 1 .. End - c.off, n > 0, WriteMore(n)
          PROVE  InTransit' /\ Followed'
        <3>1. n \in Nat
            OBVIOUS
        <3>. QED BY <1>3, <2>1, <2>5, <3>1
    <2>. QED BY <1>5, <2>2, <2>3, <2>4, <2>5 DEF DealWrite
<1>. QED BY <1>2, <1>4, <1>5

LEMMA SameStep ==
    ASSUME RInv, c' = c, mode' = mode, net' = net, todo' = todo, sent' = sent, said' = said
    PROVE  InTransit' /\ Followed'
<1>1. InTransit /\ Followed /\ Base' = Base
    BY DEF RInv, Base
<1>. QED BY <1>1 DEF InTransit, Followed

LEMMA FollowInit == Init => RInv
<1>. SUFFICES ASSUME Init PROVE RInv
    OBVIOUS
<1>1. TypeOK /\ todo \in Seq(Token) /\ todo \in Streams
    BY TypeInit, StreamsAssumption DEF Init
<1>2. /\ sent = <<>> /\ net = <<>> /\ said = <<>> /\ mode = "read" /\ c = Fresh
      /\ Len(sent) = 0 /\ Len(net) = 0 /\ Len(said) = 0 /\ Len(c.buf) = 0
    BY FreshFacts DEF Init
<1>3. Base = 0
    BY <1>2 DEF Base
<1>4. sent \o todo = todo
    BY <1>1, <1>2
<1>5. InTransit
    BY <1>1, <1>2, <1>3, <1>4 DEF InTransit
<1>6. SameHead(Fresh, c) /\ c.start = 0 /\ c.checked = 0
    BY <1>2, FreshFacts DEF SameHead
<1>7. sent \in Seq(Token) /\ 0 \in Nat
    BY <1>2
<1>8. ParsedUpTo(sent, 0, c) /\ Scanned(c)
    BY <1>6, <1>7, FreshParsed
<1>9. Exhausted(sent, 0, c)
    <2>1. \A n \in Ends(sent, 0) : n \in 2 .. 0
        BY <1>2, <1>7, EndsFacts
    <2>. QED BY <2>1 DEF Exhausted
<1>10. Position(sent, said, mode, c, Base, 0)
    <2>1. \A j \in c.start + 1 .. Len(c.buf) : FALSE
        BY <1>2, <1>6
    <2>2. ~LastBad(said)
        BY <1>2 DEF LastBad
    <2>. QED BY <1>2, <1>3, <1>8, <1>9, <2>1, <2>2 DEF Position
<1>11. PICK e : e = [j \in 0 .. 0 |-> 0]
    OBVIOUS
<1>12. Chain(sent, said, e) /\ e[Len(said)] = 0
    BY <1>2, <1>11 DEF Chain
<1>13. Tracks(sent, said, mode, c, Base)
    BY <1>10, <1>12 DEF Tracks
<1>. QED BY <1>1, <1>5, <1>13 DEF RInv, Followed

LEMMA FollowNext == RInv /\ [Next]_vars => RInv'
<1>. SUFFICES ASSUME RInv, [Next]_vars PROVE RInv'
    OBVIOUS
<1>1. TypeOK'
    BY TypeNext DEF RInv
<1>2. CASE DealRead
    BY <1>1, <1>2, ReadStep DEF RInv
<1>3. CASE ParseTurn
    BY <1>1, <1>3, ParseStep DEF RInv
<1>4. CASE Business \/ DealWrite \/ CutFile
    BY <1>1, <1>4, WriteStep DEF RInv
<1>5. ASSUME NEW n \in 1 .. Len(todo), Send(n) PROVE RInv'
    BY <1>1, <1>5, SendStep DEF RInv
<1>6. CASE Leave \/ UNCHANGED vars
    <2>1. InTransit' /\ Followed'
        BY <1>6, SameStep DEF Leave, vars
    <2>. QED BY <1>1, <2>1 DEF RInv
<1>. QED BY <1>2, <1>3, <1>4, <1>5, <1>6 DEF Next, Server
-----------------------------------------------------------------------------
(* The requests found are those of the stream *)

\* What the invariant says about a reader that waits, in a stream without bodies.
LEMMA WaitingReader ==
    ASSUME RInv, ~HasBody(sent), mode = "read"
    PROVE  LET k == Len(said) IN
           /\ k <= Len(Requests) /\ k \in Nat /\ Len(Requests) \in Nat
           /\ EndOf(k) \in Nat /\ EndOf(k) + Len(c.buf) = Len(sent) - Len(net)
           /\ Len(Requests) > k =>
                 /\ EndOf(k + 1) \in Nat /\ EndOf(k) + Len(c.buf) < EndOf(k + 1)
                 /\ EndOf(k + 1) <= Len(sent)
<1> DEFINE k == Len(said)
<1>1. TypeOK /\ InTransit /\ Tracks(sent, said, mode, c, Base)
    BY DEF RInv, Followed
<1>2. PICK e, i : Chain(sent, said, e) /\ i = e[Len(said)]
                  /\ Position(sent, said, mode, c, Base, i)
    BY <1>1 DEF Tracks
<1>3. /\ sent \in Seq(Token) /\ said \in Seq(Answer) /\ k \in Nat /\ c \in Conn
      /\ Len(sent) \in Nat /\ Len(net) \in Nat /\ Len(c.buf) \in Nat
    BY <1>1, Types
<1>4. i \in Nat
    BY <1>2, <1>3, ChainEnds
<1>5. Base = i /\ ~LastBad(said) /\ ParsedUpTo(sent, i, c)
    BY <1>2, <1>4, ReadingHere
<1>6. Exhausted(sent, i, c)
    BY <1>2 DEF Position
<1>7. i + Len(c.buf) = Len(sent) - Len(net)
    BY <1>1, <1>5, BaseFacts
<1>8. PICK P : P = Parsed(sent)
    OBVIOUS
<1>9. Requests = P
    BY <1>1, <1>8, RequestsAre
<1>10. /\ Len(P) \in Nat /\ k <= Len(P)
       /\ \A j \in 1 .. k : P[j].to = e[j]
       /\ Complete(sent, i) => P[k + 1] = RequestAfter(sent, i)
       /\ ~Complete(sent, i) => Len(P) = k
    BY <1>2, <1>3, <1>5, <1>8, ChainParsed
<1>11. EndOf(k) = i
    <2>1. CASE k = 0
        BY <1>2, <2>1 DEF EndOf, Chain
    <2>2. CASE k # 0
        <3>1. k \in 1 .. k
            BY <1>3, <2>2
        <3>. QED BY <1>2, <1>9, <1>10, <2>2, <3>1 DEF EndOf
    <2>. QED BY <2>1, <2>2
<1>12. ASSUME Len(P) > k
       PROVE  /\ EndOf(k + 1) \in Nat /\ i + Len(c.buf) < EndOf(k + 1)
              /\ EndOf(k + 1) <= Len(sent)
    <2>1. Complete(sent, i)
        BY <1>3, <1>10, <1>12
    <2>2. k + 1 # 0
        BY <1>3
    <2>3. EndOf(k + 1) = RequestAfter(sent, i).to
        BY <1>9, <1>10, <2>1, <2>2 DEF EndOf
    <2>4. RequestAfter(sent, i).to = Min(Deciding(sent, i))
        BY <1>3, <1>4, <2>1, NoBodies
    <2>5. i + Len(c.buf) < Min(Deciding(sent, i))
        BY <1>3, <1>4, <1>5, <1>6, <2>1, NotOverlooked
    <2>6. RequestAfter(sent, i).to \in Nat /\ RequestAfter(sent, i).to <= Len(sent)
        BY <1>3, <1>4, <2>1, RequestEnds
    <2>. QED BY <2>3, <2>4, <2>5, <2>6
<1>. QED BY <1>3, <1>4, <1>7, <1>9, <1>10, <1>11, <1>12

LEMMA AsSent == RInv => FoundIfPlain
<1>. SUFFICES ASSUME RInv, ~HasBody(sent) PROVE FoundAsSent
    BY DEF FoundIfPlain, Plain
<1> DEFINE k == Len(said)
<1>1. TypeOK /\ InTransit /\ Tracks(sent, said, mode, c, Base)
    BY DEF RInv, Followed
<1>2. PICK e : Chain(sent, said, e)
    BY <1>1 DEF Tracks
<1>3. sent \in Seq(Token) /\ said \in Seq(Answer) /\ Len(sent) \in Nat
    BY <1>1, Types
<1>4. PICK P : P = Parsed(sent)
    OBVIOUS
<1>5. Requests = P
    BY <1>1, <1>4, RequestsAre
<1>6. /\ k <= Len(P)
      /\ \A j \in 1 .. k : P[j].ret = said[j].ret /\ P[j].url = said[j].url
    BY <1>2, <1>3, <1>4, ChainParsed
<1>7. ASSUME mode = "read", net = <<>> PROVE k = Len(Requests)
    <2>1. Len(net) = 0
        BY <1>7
    <2>2. /\ k <= Len(Requests) /\ k \in Nat /\ Len(Requests) \in Nat
          /\ EndOf(k) + Len(c.buf) = Len(sent) - Len(net)
          /\ Len(Requests) > k => /\ EndOf(k + 1) \in Nat
                                  /\ EndOf(k) + Len(c.buf) < EndOf(k + 1)
                                  /\ EndOf(k + 1) <= Len(sent)
        BY <1>7, WaitingReader
    <2>. QED BY <1>3, <2>1, <2>2
<1>. QED BY <1>5, <1>6, <1>7 DEF FoundAsSent

\* The requests found in a plain stream are those of the stream, in
\* order, and none is left unnoticed: wherever the stream is cut, a CR from
\* its LF included, whichever requests share the buffer, and over any number
\* of requests on the connection (read_once, parse_line, process_read,
\* reset_for_next).
THEOREM RequestsFound == Spec => []FoundIfPlain
BY AsSent, FollowInit, FollowNext, PTL DEF Spec

LEMMA HangsUp ==
    ASSUME RInv, [Next]_vars, mode = "read", mode' = "closed", Plain(sent)
    PROVE  \/ peer = "rst"
           \/ peer = "fin" /\ Len(said) = Len(Requests)
           \/ Len(sent) - EndOf(Len(said)) >= BufSize /\ ~NextFits(Len(said))
<1> DEFINE k == Len(said)
<1>1. ReadFails
    <2>1. DealRead
        BY DEF Next, Server, ParseTurn, Business, DealWrite, CutFile, Send, Leave, vars
    <2>. QED BY <2>1 DEF DealRead, Parse
<1>2. CASE peer = "fin" /\ net = <<>>
    <2>1. FoundAsSent
        BY AsSent DEF FoundIfPlain
    <2>. QED BY <1>2, <2>1 DEF FoundAsSent
<1>3. CASE Room = 0
    <2>1. Len(c.buf) \in Nat /\ Len(net) \in Nat /\ Len(sent) \in Nat /\ BufSize \in Nat
        BY Types DEF RInv
    <2>2. Len(c.buf) = BufSize
        BY <1>3, <2>1 DEF Room
    <2>3. /\ k \in Nat /\ Len(Requests) \in Nat
          /\ EndOf(k) \in Nat /\ EndOf(k) + Len(c.buf) = Len(sent) - Len(net)
          /\ Len(Requests) > k => /\ EndOf(k + 1) \in Nat
                                  /\ EndOf(k) + Len(c.buf) < EndOf(k + 1)
        BY WaitingReader DEF Plain
    <2>4. Len(sent) - EndOf(k) >= BufSize
        BY <2>1, <2>2, <2>3
    <2>5. ~NextFits(k)
        BY <2>1, <2>2, <2>3 DEF NextFits
    <2>. QED BY <2>4, <2>5
<1>. QED BY <1>1, <1>2, <1>3 DEF ReadFails

\* deal_read hangs up on a client that has not broken the connection only when
\* it has found every complete request the client sent before its FIN, or when
\* the READ_BUFFER_SIZE bytes after the last request do not hold the next one:
\* neither a FIN behind data nor a read that fills the buffer to the last byte
\* is taken for the end (read_once).
THEOREM HangsUpWhenDue == Spec => HangsUpOnlyWhenDue
<1> DEFINE Due ==
        mode = "read" /\ mode' = "closed" /\ Plain(sent) =>
            \/ peer = "rst"
            \/ peer = "fin" /\ Len(said) = Len(Requests)
            \/ Len(sent) - EndOf(Len(said)) >= BufSize /\ ~NextFits(Len(said))
<1>1. RInv /\ [Next]_vars => [Due]_vars
    BY HangsUp
<1>. QED BY <1>1, FollowInit, FollowNext, PTL DEF Spec, HangsUpOnlyWhenDue
=============================================================================
