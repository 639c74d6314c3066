--------------------------- MODULE TenantScan_proofs ---------------------------
(***************************************************************************)
(* The scan and the database read every text alike, however long it is: the*)
(* scan jumps over literals and comments, the database's lexer goes symbol *)
(* by symbol, and between two steps of the scan the lexer is in the mode   *)
(* that the scan's position and quote say.  So each place that the database*)
(* will see has its value, and an insert of safe names is sent as a row.   *)
(*                                                                         *)
(* The lexer is defined by recursion over the text.  What it does is proved*)
(* from the least position at which it would do otherwise (LeastNatural).  *)
(***************************************************************************)
EXTENDS TenantSql, SequenceTheorems, FiniteSetTheorems, WellFoundedInduction, TLAPS

\* How much of the text is copied: the scan may step over its end.
Done == IF i <= Len(text) THEN i - 1 ELSE Len(text)

\* Where the scan is, the database is: in the literal that the same quote opened,
\* or in code, unless the text ended in a comment.
InStep ==
    LET mode == Lexed(text)[i - 1] IN
    /\ i <= Len(text) + 1 => (quote # None => mode = <<"literal", quote>>)
    /\ i <= Len(text) /\ quote = None =>
         \/ mode = <<"code">>
         \/ mode = <<"dash">> /\ text[i] # "dash"
         \/ mode = <<"slash">> /\ text[i] # "star"
         \/ mode = <<"line">> /\ text[i] = "newline"

\* What is copied is the text, with a placeholder for each marker.
Copied ==
    /\ Len(out) = Done
    /\ \A k \in 1..Done : out[k] = IF k \in Markers(text) THEN "?" ELSE text[k]

\* What of S comes before j.
Before(S, j) == {k \in S : k < j}

\* What is bound is a value for each place passed.
Counted ==
    /\ used = Cardinality(Before(Questions(text), i))
    /\ refs = Cardinality(Before(Markers(text), i))
    /\ Len(bound) = Cardinality(Before(Places(text), i))
    /\ \A k \in Before(Places(text), i) :
         bound[Rank(Places(text), k)] =
            IF k \in Markers(text) THEN Tenant ELSE Params[Rank(Questions(text), k)]

\* The scan and the database agree on the text up to i.
Agreed == pc = "scan" => InStep /\ Copied /\ Counted

\* Nothing is copied before a call, and the scan begins at the beginning.
Begun == pc = "idle" => /\ text = <<>> /\ out = <<>> /\ bound = <<>>
                        /\ i = 1 /\ quote = None /\ used = 0 /\ refs = 0

\* What is sent, of whatever call, is the text with a value for each place.
SentBound ==
    pc = "sent" =>
        /\ Places(out) = Places(text) /\ Len(bound) = Cardinality(Places(text))
        /\ \A k \in Places(text) :
             bound[Rank(Places(text), k)] =
                IF k \in Markers(text) THEN Tenant ELSE Params[Rank(Questions(text), k)]
        /\ out = [k \in 1..Len(text) |-> IF k \in Markers(text) THEN "?" ELSE text[k]]

\* It is sent if it has a marker and as many placeholders as parameters.
Judged ==
    pc \in {"sent", "refused"} =>
        (pc = "sent" <=> /\ Markers(text) # {}
                         /\ Cardinality(Questions(text)) = Len(Params))

\* The names of an insert are safe.
SafeInsert(s) == /\ SafeName(s.table)
                 /\ \A k \in DOMAIN s.columns :
                      s.columns[k] # <<"tenant_id">> /\ SafeName(s.columns[k])

\* An insert that is scanned is one of safe names, with its own text.
Asked ==
    pc # "idle" /\ call.op = "insert" =>
        \/ text = <<>>
        \/ \E s \in Inserts : /\ SafeInsert(s) /\ text = InsertText(s.table, s.columns)
                              /\ call.columns = s.columns /\ call.params = s.params

ScanInv == TypeOK /\ Begun /\ Agreed /\ SentBound /\ Judged

----------------------------------------------------------------------------
(* The lexer.                                                              *)

\* A set of naturals that is not empty has a least element.
LEMMA LeastNatural ==
  ASSUME NEW T \in SUBSET Nat, T # {}
  PROVE  \E n \in T : \A k \in T : n <= k
<1> DEFINE R == {p \in Nat \X Nat : p[1] < p[2]}
<1>1. IsWellFoundedOn(R, Nat)
  <2>1. OpToRel(<, Nat) = R
    BY DEF OpToRel
  <2> QED
    BY <2>1, NatLessThanWellFounded
<1>2. PICK n \in T : \A k \in T : <<k, n>> \notin R
  <2> HIDE DEF R
  <2> QED
    BY <1>1, WFMin
<1>3. \A k \in T : ~(k < n)
  BY <1>2
<1>4. \A k \in T : n <= k
  BY <1>3
<1> QED
  BY <1>4

\* m follows the lexer through the first n symbols of t.
Follows(m, t, n) == /\ m[0] = <<"code">>
                    /\ \A k \in 1..n : m[k] = Read(m[k - 1], t[k])

\* Some function follows it.
LEMMA SomeFollows ==
  ASSUME NEW t \in Seq(Symbols)
  PROVE  \E m : Follows(m, t, Len(t))
<1> DEFINE Unread == {n \in Nat : n <= Len(t) /\ ~\E m : Follows(m, t, n)}
<1>1. Len(t) \in Nat
  OBVIOUS
<1>2. CASE Unread = {}
  BY <1>1, <1>2
<1>3. CASE Unread # {}
  <2>1. PICK n \in Unread : \A k \in Unread : n <= k
    <3>1. Unread \in SUBSET Nat
      OBVIOUS
    <3> HIDE DEF Unread
    <3> QED
      BY <1>3, <3>1, LeastNatural
  <2>2. n # 0
    <3> DEFINE m == [k \in {0} |-> <<"code">>]
    <3>1. Follows(m, t, 0)
      BY DEF Follows
    <3> QED
      BY <3>1
  <2>3. n - 1 \in Nat /\ n \in Nat /\ n - 1 \notin Unread /\ n <= Len(t)
    <3>1. n \in Nat /\ n <= Len(t)
      BY <2>1
    <3>2. \A k \in Unread : n <= k
      BY <2>1
    <3> HIDE DEF Unread
    <3> QED
      BY <2>2, <3>1, <3>2
  <2>4. PICK m : Follows(m, t, n - 1)
    BY <1>1, <2>3
  <2> DEFINE g == [k \in 0..n |-> IF k = n THEN Read(m[n - 1], t[n]) ELSE m[k]]
  <2>5. Follows(g, t, n)
    <3>1. g[0] = <<"code">>
      BY <2>3, <2>4 DEF Follows
    <3>2. ASSUME NEW k \in 1..n PROVE g[k] = Read(g[k - 1], t[k])
      <4>1. k - 1 \in 0..n /\ k \in 0..n /\ g[k - 1] = m[k - 1]
        BY <2>3
      <4>2. CASE k = n
        BY <4>1, <4>2
      <4>3. CASE k # n
        <5>1. k \in 1..(n - 1) /\ g[k] = m[k]
          BY <2>3, <4>3
        <5> QED
          BY <2>4, <4>1, <5>1 DEF Follows
      <4> QED
        BY <4>2, <4>3
    <3> HIDE DEF g
    <3> QED
      BY <3>1, <3>2 DEF Follows
  <2> QED
    BY <2>1, <2>5
<1> QED
  BY <1>2, <1>3

\* The lexer's function does.
LEMMA LexedFollows ==
  ASSUME NEW t \in Seq(Symbols)
  PROVE  Follows(Lexed(t), t, Len(t))
<1> DEFINE Rule(m) == [k \in 0..Len(t) |-> IF k = 0 THEN <<"code">> ELSE Read(m[k - 1], t[k])]
<1>1. Len(t) \in Nat
  OBVIOUS
<1>2. PICK f : Follows(f, t, Len(t))
  BY SomeFollows
<1> DEFINE m == [k \in 0..Len(t) |-> f[k]]
<1>3. m = Rule(m)
  <2>1. ASSUME NEW k \in 0..Len(t)
        PROVE  f[k] = IF k = 0 THEN <<"code">> ELSE Read(m[k - 1], t[k])
    <3>1. CASE k = 0
      BY <1>2, <3>1 DEF Follows
    <3>2. CASE k # 0
      <4>1. k \in 1..Len(t) /\ k - 1 \in 0..Len(t)
        BY <1>1, <3>2
      <4>2. m[k - 1] = f[k - 1]
        BY <4>1
      <4> QED
        BY <1>2, <3>2, <4>1, <4>2 DEF Follows
    <3> QED
      BY <3>1, <3>2
  <2> QED
    BY <2>1
<1>4. \E g : g = Rule(g)
  BY <1>3
<1>5. Lexed(t) = CHOOSE g : g = Rule(g)
  BY DEF Lexed
<1>6. Lexed(t) = Rule(Lexed(t))
  BY <1>4, <1>5
<1>7. \A k \in 0..Len(t) :
        Lexed(t)[k] = IF k = 0 THEN <<"code">> ELSE Read(Lexed(t)[k - 1], t[k])
  BY <1>6
<1> QED
  BY <1>1, <1>7 DEF Follows

\* What the lexer makes of a symbol, mode by mode.
LEMMA ReadIs ==
  ASSUME NEW s
  PROVE  /\ Read(<<"code">>, s) = FromCode(s)
         /\ s # "dash" => Read(<<"dash">>, s) = FromCode(s)
         /\ s # "star" => Read(<<"slash">>, s) = FromCode(s)
         /\ s = "dash" => Read(<<"dash">>, s) = <<"line">>
         /\ s = "star" => Read(<<"slash">>, s) = <<"block">>
         /\ Read(<<"line">>, s) = IF s = "newline" THEN <<"code">> ELSE <<"line">>
         /\ Read(<<"block">>, s) = IF s = "star" THEN <<"star">> ELSE <<"block">>
         /\ Read(<<"star">>, s) = IF s = "slash" THEN <<"code">>
                                  ELSE IF s = "star" THEN <<"star">> ELSE <<"block">>
BY DEF Read

LEMMA ReadLiteral ==
  ASSUME NEW s, NEW q
  PROVE  /\ Read(<<"escape", q>>, s) = <<"literal", q>>
         /\ s = "backslash" /\ q # "backtick" => Read(<<"literal", q>>, s) = <<"escape", q>>
         /\ ~(s = "backslash" /\ q # "backtick") =>
              Read(<<"literal", q>>, s) = IF s = q THEN <<"code">> ELSE <<"literal", q>>
BY DEF Read

\* In which modes a symbol is code.
LEMMA CodeModes ==
  /\ InCode(<<"code">>) /\ InCode(<<"dash">>) /\ InCode(<<"slash">>)
  /\ ~InCode(<<"line">>) /\ ~InCode(<<"block">>) /\ ~InCode(<<"star">>)
  /\ \A q : ~InCode(<<"literal", q>>) /\ ~InCode(<<"escape", q>>)
BY DEF InCode

\* A placeholder or a marker in code is code.
LEMMA ReadInCode ==
  ASSUME NEW mode, InCode(mode), NEW s \in {"?", ":tenant"}
  PROVE  Read(mode, s) = <<"code">>
BY DEF Read, FromCode, InCode, Quotes

\* Once it reads a line comment, the lexer does so up to the end of the line.
LEMMA LineModes ==
  ASSUME NEW t \in Seq(Symbols), NEW j \in Nat, NEW e \in Nat, e <= Len(t),
         Lexed(t)[j] = <<"line">>,
         \A k \in (j + 1)..e : t[k] # "newline"
  PROVE  \A k \in j..e : Lexed(t)[k] = <<"line">>
<1> DEFINE Other == {k \in j..e : Lexed(t)[k] # <<"line">>}
<1>1. SUFFICES ASSUME Other # {} PROVE FALSE
  OBVIOUS
<1>2. PICK n \in Other : \A k \in Other : n <= k
  <2>1. Other \in SUBSET Nat
    OBVIOUS
  <2> HIDE DEF Other
  <2> QED
    BY <1>1, <2>1, LeastNatural
<1>3. n \in j..e /\ Lexed(t)[n] # <<"line">> /\ n # j
  BY <1>2
<1>4. n - 1 \in j..e /\ n - 1 \notin Other
  <2>1. n - 1 \in j..e /\ n - 1 < n
    BY <1>3
  <2> HIDE DEF Other
  <2> QED
    BY <1>2, <1>3, <2>1
<1>5. Lexed(t)[n - 1] = <<"line">>
  BY <1>4
<1>6. n \in 1..Len(t) /\ n \in (j + 1)..e
  BY <1>3
<1>7. Lexed(t)[n] = Read(<<"line">>, t[n])
  BY <1>5, <1>6, LexedFollows DEF Follows
<1> QED
  BY <1>3, <1>6, <1>7, ReadIs

\* And a block comment until a star is followed by a slash.
LEMMA BlockModes ==
  ASSUME NEW t \in Seq(Symbols), NEW j \in Nat, NEW e \in Nat, e <= Len(t),
         Lexed(t)[j] = <<"block">>,
         \A k \in (j + 2)..e : ~(t[k - 1] = "star" /\ t[k] = "slash")
  PROVE  \A k \in (j + 1)..e :
           Lexed(t)[k] = IF t[k] = "star" THEN <<"star">> ELSE <<"block">>
<1> DEFINE Expected(k) == IF t[k] = "star" THEN <<"star">> ELSE <<"block">>
           Other == {k \in (j + 1)..e : Lexed(t)[k] # Expected(k)}
<1>1. SUFFICES ASSUME Other # {} PROVE FALSE
  OBVIOUS
<1>2. PICK n \in Other : \A k \in Other : n <= k
  <2>1. Other \in SUBSET Nat
    OBVIOUS
  <2> HIDE DEF Other
  <2> QED
    BY <1>1, <2>1, LeastNatural
<1>3. n \in (j + 1)..e /\ Lexed(t)[n] # Expected(n)
  BY <1>2
<1>4. n \in 1..Len(t) /\ Lexed(t)[n] = Read(Lexed(t)[n - 1], t[n])
  BY <1>3, LexedFollows DEF Follows
<1>5. CASE n = j + 1
  <2>1. n - 1 = j
    BY <1>5
  <2>2. Lexed(t)[n] = Read(<<"block">>, t[n])
    BY <1>4, <2>1
  <2> QED
    BY <1>3, <2>2, ReadIs
<1>6. CASE n # j + 1
  <2>1. n - 1 \in (j + 1)..e /\ n \in (j + 2)..e /\ n - 1 < n
    <3>1. n \in Int /\ j + 1 <= n /\ n <= e
      BY <1>3
    <3> QED
      BY <1>6, <3>1
  <2>2. n - 1 \notin Other
    <3> HIDE DEF Other
    <3> QED
      BY <1>2, <1>3, <2>1
  <2>3. Lexed(t)[n - 1] = Expected(n - 1)
    BY <2>1, <2>2
  <2>4. ~(t[n - 1] = "star" /\ t[n] = "slash")
    BY <2>1
  <2>5. CASE t[n - 1] = "star"
    <3>1. Lexed(t)[n] = Read(<<"star">>, t[n])
      BY <1>4, <2>3, <2>5
    <3> QED
      BY <1>3, <2>4, <2>5, <3>1, ReadIs
  <2>6. CASE t[n - 1] # "star"
    <3>1. Lexed(t)[n] = Read(<<"block">>, t[n])
      BY <1>4, <2>3, <2>6
    <3> QED
      BY <1>3, <3>1, ReadIs
  <2> QED
    BY <2>5, <2>6
<1> QED
  BY <1>5, <1>6

\* A text whose markers became placeholders is read alike.
LEMMA SameModes ==
  ASSUME NEW t \in Seq(Symbols), NEW o \in Seq(Symbols), Len(o) = Len(t),
         \A k \in 1..Len(t) : o[k] = IF k \in Markers(t) THEN "?" ELSE t[k]
  PROVE  \A k \in 0..Len(t) : Lexed(o)[k] = Lexed(t)[k]
<1> DEFINE Other == {k \in 0..Len(t) : Lexed(o)[k] # Lexed(t)[k]}
<1>0. Len(t) \in Nat
  OBVIOUS
<1>1. SUFFICES ASSUME Other # {} PROVE FALSE
  OBVIOUS
<1>2. PICK n \in Other : \A k \in Other : n <= k
  <2>1. Other \in SUBSET Nat
    BY <1>0
  <2> HIDE DEF Other
  <2> QED
    BY <1>1, <2>1, LeastNatural
<1>3. n \in 0..Len(t) /\ Lexed(o)[n] # Lexed(t)[n]
  BY <1>2
<1>4. Follows(Lexed(o), o, Len(t)) /\ Follows(Lexed(t), t, Len(t))
  BY LexedFollows
<1>5. n \in 1..Len(t) /\ n - 1 \in 0..Len(t) /\ n - 1 < n
  BY <1>0, <1>3, <1>4 DEF Follows
<1>6. n - 1 \notin Other
  <2> HIDE DEF Other
  <2> QED
    BY <1>0, <1>2, <1>5
<1>7. Lexed(o)[n - 1] = Lexed(t)[n - 1]
  BY <1>5, <1>6
<1>8. /\ Lexed(o)[n] = Read(Lexed(t)[n - 1], o[n])
      /\ Lexed(t)[n] = Read(Lexed(t)[n - 1], t[n])
  BY <1>4, <1>5, <1>7 DEF Follows
<1>9. CASE n \in Markers(t)
  <2>1. InCode(Lexed(t)[n - 1]) /\ t[n] = ":tenant" /\ o[n] = "?"
    BY <1>5, <1>9 DEF Markers, Places
  <2> QED
    BY <1>3, <1>8, <2>1, ReadInCode
<1>10. CASE n \notin Markers(t)
  BY <1>3, <1>5, <1>8, <1>10
<1> QED
  BY <1>9, <1>10

LEMMA SamePlaces ==
  ASSUME NEW t \in Seq(Symbols), NEW o \in Seq(Symbols), Len(o) = Len(t),
         \A k \in 1..Len(t) : o[k] = IF k \in Markers(t) THEN "?" ELSE t[k]
  PROVE  Places(o) = Places(t)
<1>1. \A k \in 0..Len(t) : Lexed(o)[k] = Lexed(t)[k]
  BY SameModes
<1>2. ASSUME NEW k \in 1..Len(t)
      PROVE  k \in Places(o) <=> k \in Places(t)
  <2>1. InCode(Lexed(o)[k - 1]) <=> InCode(Lexed(t)[k - 1])
    <3>1. k - 1 \in 0..Len(t)
      OBVIOUS
    <3> QED
      BY <1>1, <3>1
  <2>2. k \in Markers(t) => k \in Places(t) /\ t[k] = ":tenant" /\ o[k] = "?"
    BY DEF Markers
  <2>3. k \notin Markers(t) => o[k] = t[k]
    OBVIOUS
  <2>4. k < Len(t) => (o[k + 1] \in Letters <=> t[k + 1] \in Letters)
    <3> SUFFICES ASSUME k < Len(t) PROVE o[k + 1] \in Letters <=> t[k + 1] \in Letters
      OBVIOUS
    <3>1. k + 1 \in 1..Len(t)
      OBVIOUS
    <3>2. k + 1 \in Markers(t) => t[k + 1] = ":tenant" /\ o[k + 1] = "?"
      BY <3>1 DEF Markers
    <3> QED
      BY <3>1, <3>2 DEF Letters
  <2> QED
    BY <2>1, <2>2, <2>3, <2>4 DEF Places, Markers
<1>3. Places(o) \subseteq 1..Len(t) /\ Places(t) \subseteq 1..Len(t)
  BY DEF Places
<1> QED
  BY <1>2, <1>3

----------------------------------------------------------------------------
(* Counting the places.                                                    *)

\* The places passed are finitely many.
LEMMA BeforeIn ==
  ASSUME NEW n \in Nat, NEW S \in SUBSET (1..n), NEW j \in Nat
  PROVE  /\ Before(S, j) \in SUBSET S /\ IsFiniteSet(Before(S, j))
         /\ Cardinality(Before(S, j)) \in Nat
<1>1. IsFiniteSet(S)
  <2>1. IsFiniteSet(1..n)
    BY FS_Interval
  <2> QED
    BY <2>1, FS_Subset
<1>2. Before(S, j) \in SUBSET S
  BY DEF Before
<1>3. IsFiniteSet(Before(S, j))
  BY <1>1, <1>2, FS_Subset
<1> QED
  BY <1>2, <1>3, FS_CardinalityType

\* Passing a place counts one more.
LEMMA OneMore ==
  ASSUME NEW n \in Nat, NEW S \in SUBSET (1..n), NEW j \in S
  PROVE  /\ Cardinality(Before(S, j + 1)) = Cardinality(Before(S, j)) + 1
         /\ Rank(S, j) = Cardinality(Before(S, j)) + 1
<1>0. j \in Nat /\ \A k \in S : k \in Int
  OBVIOUS
<1>1. IsFiniteSet(Before(S, j))
  BY <1>0, BeforeIn
<1>2. j \notin Before(S, j)
  BY <1>0 DEF Before
<1>3. Before(S, j + 1) = Before(S, j) \cup {j}
  <2>1. \A k \in S : k < j + 1 <=> (k < j \/ k = j)
    BY <1>0
  <2> QED
    BY <2>1, Zenon DEF Before
<1>4. {k \in S : k <= j} = Before(S, j) \cup {j}
  <2>1. \A k \in S : k <= j <=> (k < j \/ k = j)
    BY <1>0
  <2> QED
    BY <2>1, Zenon DEF Before
<1>5. Cardinality(Before(S, j) \cup {j}) = Cardinality(Before(S, j)) + 1
  BY <1>1, <1>2, FS_AddElement
<1> QED
  BY <1>3, <1>4, <1>5 DEF Rank

\* The rank of a place passed is among those counted.
LEMMA RankCounted ==
  ASSUME NEW n \in Nat, NEW S \in SUBSET (1..n), NEW j \in Nat, NEW k \in Before(S, j)
  PROVE  Rank(S, k) \in 1..Cardinality(Before(S, j))
<1>1. k \in S /\ k < j /\ k \in Nat
  BY DEF Before
<1>2. \A m \in S : m \in Int
  OBVIOUS
<1>3. {m \in S : m <= k} \in SUBSET Before(S, j)
  <2>1. \A m \in S : m <= k => m < j
    BY <1>1, <1>2
  <2> QED
    BY <2>1, Zenon DEF Before
<1>4. IsFiniteSet(Before(S, j)) /\ Cardinality(Before(S, j)) \in Nat
  BY BeforeIn
<1>5. Rank(S, k) <= Cardinality(Before(S, j))
  BY <1>3, <1>4, FS_Subset DEF Rank
<1>6. Cardinality(Before(S, k)) \in Nat /\ Rank(S, k) = Cardinality(Before(S, k)) + 1
  BY <1>1, OneMore, BeforeIn
<1> QED
  BY <1>4, <1>5, <1>6

\* A symbol that is no place counts for nothing.
LEMMA NoMore ==
  ASSUME NEW n \in Nat, NEW S \in SUBSET (1..n), NEW j \in Nat, NEW e \in Nat, j <= e,
         \A k \in S : ~(j <= k /\ k < e)
  PROVE  Before(S, e) = Before(S, j)
<1>1. \A k \in S : k \in Int
  OBVIOUS
<1>2. \A k \in S : k < e <=> k < j
  BY <1>1
<1> QED
  BY <1>2, Zenon DEF Before

\* All places are passed at the end.
LEMMA AllPassed ==
  ASSUME NEW n \in Nat, NEW S \in SUBSET (1..n), NEW j \in Nat, j > n
  PROVE  Before(S, j) = S
<1>1. \A k \in S : k < j
  OBVIOUS
<1> QED
  BY <1>1, Zenon DEF Before

----------------------------------------------------------------------------
(* The scan and the database read the same text.                           *)

\* A text after a text.
LEMMA Joined ==
  ASSUME NEW s \in Seq(Symbols), NEW m \in Seq(Symbols)
  PROVE  /\ s \o m \in Seq(Symbols) /\ Len(s \o m) = Len(s) + Len(m)
         /\ \A k \in 1..Len(s) : (s \o m)[k] = s[k]
         /\ \A k \in 1..Len(m) : (s \o m)[Len(s) + k] = m[k]
<1>1. s \o m \in Seq(Symbols) /\ Len(s \o m) = Len(s) + Len(m)
  BY ConcatProperties
<1>2. \A k \in 1..Len(s) : (s \o m)[k] = s[k]
  OBVIOUS
<1>3. \A k \in 1..Len(m) : (s \o m)[Len(s) + k] = m[k]
  OBVIOUS
<1> QED
  BY <1>1, <1>2, <1>3

\* Where a scan stands.
LEMMA Here ==
  ASSUME ScanInv, Scanning
  PROVE  /\ text \in Seq(Symbols) /\ Len(text) \in Nat /\ i \in 1..Len(text)
         /\ text[i] \in Symbols
         /\ InStep /\ Copied /\ Counted
         /\ Lexed(text)[i] = Read(Lexed(text)[i - 1], text[i])
         /\ \A k \in 1..Len(text) : Lexed(text)[k] = Read(Lexed(text)[k - 1], text[k])
         /\ Places(text) \in SUBSET (1..Len(text))
         /\ Markers(text) \in SUBSET Places(text) /\ Questions(text) \in SUBSET Places(text)
<1>1. text \in Seq(Symbols) /\ i \in Nat \ {0} /\ pc = "scan" /\ i <= Len(text)
  BY DEF ScanInv, TypeOK, Scanning
<1>2. Len(text) \in Nat /\ i \in 1..Len(text)
  BY <1>1
<1>3. text[i] \in Symbols
  BY <1>1, <1>2
<1>4. \A k \in 1..Len(text) : Lexed(text)[k] = Read(Lexed(text)[k - 1], text[k])
  BY <1>1, LexedFollows DEF Follows
<1>5. InStep /\ Copied /\ Counted
  BY <1>1 DEF ScanInv, Agreed
<1>6. /\ Places(text) \in SUBSET (1..Len(text))
      /\ Markers(text) \in SUBSET Places(text) /\ Questions(text) \in SUBSET Places(text)
  BY DEF Places, Markers, Questions
<1> QED
  BY <1>1, <1>2, <1>3, <1>4, <1>5, <1>6

\* Copying symbols that are no places keeps what is copied and counted.
LEMMA CopyKeeps ==
  ASSUME ScanInv, Scanning, Keep, NEW e \in Nat, i < e, CopyUpTo(e),
         quote' \in Quotes \cup {None}, InStep',
         \A k \in Places(text) : ~(i <= k /\ k < e)
  PROVE  ScanInv'
<1>1. /\ text \in Seq(Symbols) /\ Len(text) \in Nat /\ i \in 1..Len(text)
      /\ Copied /\ Counted
      /\ Places(text) \in SUBSET (1..Len(text))
      /\ Markers(text) \in SUBSET Places(text) /\ Questions(text) \in SUBSET Places(text)
  BY Here
<1>2. /\ UNCHANGED <<pc, call, text, bound, used, refs>> /\ pc = "scan" /\ i' = e
      /\ out \in Seq(Symbols)
  BY DEF Keep, Scanning, CopyUpTo, ScanInv, TypeOK
<1> DEFINE last == IF e <= Len(text) + 1 THEN e - 1 ELSE Len(text)
<1>3. /\ last \in 1..Len(text) /\ i <= last /\ Done' = last /\ last < e
      /\ out' = out \o SubSeq(text, i, last)
  <2>1. last \in 1..Len(text) /\ i <= last /\ last < e
    BY <1>1
  <2>2. Done' = last
    BY <1>1, <1>2 DEF Done
  <2>3. out' = out \o SubSeq(text, i, last)
    BY DEF CopyUpTo
  <2> QED
    BY <2>1, <2>2, <2>3
<1> HIDE DEF last
<1>4. /\ SubSeq(text, i, last) \in Seq(Symbols) /\ Len(SubSeq(text, i, last)) = last - i + 1
      /\ \A k \in 1..(last - i + 1) : SubSeq(text, i, last)[k] = text[i + k - 1]
  <2>1. SubSeq(text, i, last) \in Seq(Symbols)
    BY <1>1, <1>3
  <2>2. Len(SubSeq(text, i, last)) = last - i + 1
    BY <1>1, <1>3
  <2>3. \A k \in 1..(last - i + 1) : SubSeq(text, i, last)[k] = text[i + k - 1]
    BY <1>1, <1>3
  <2> QED
    BY <2>1, <2>2, <2>3
<1>5. Len(out) = i - 1 /\ \A k \in 1..(i - 1) : out[k] = IF k \in Markers(text) THEN "?" ELSE text[k]
  BY <1>1 DEF Copied, Done
<1>6. /\ out' \in Seq(Symbols) /\ Len(out') = last
      /\ \A k \in 1..(i - 1) : out'[k] = out[k]
      /\ \A k \in 1..(last - i + 1) : out'[(i - 1) + k] = SubSeq(text, i, last)[k]
  <2>1. PICK m \in Seq(Symbols) : m = SubSeq(text, i, last)
    BY <1>4
  <2>2. out' = out \o m /\ Len(m) = last - i + 1 /\ i \in Nat /\ last \in Nat
    BY <1>1, <1>3, <1>4, <2>1
  <2>3. /\ out \o m \in Seq(Symbols) /\ Len(out \o m) = Len(out) + Len(m)
        /\ \A k \in 1..Len(out) : (out \o m)[k] = out[k]
        /\ \A k \in 1..Len(m) : (out \o m)[Len(out) + k] = m[k]
    BY <1>2, Joined
  <2>4. Len(out) = i - 1 /\ Len(m) = last - (i - 1) /\ i - 1 \in Nat
    BY <1>1, <1>5, <2>2
  <2>5. Len(out) + Len(m) = last
    BY <2>2, <2>4
  <2>6. /\ \A k \in 1..(i - 1) : out'[k] = out[k]
        /\ \A k \in 1..Len(m) : out'[(i - 1) + k] = m[k]
    BY <2>2, <2>3, <2>4
  <2> QED
    BY <2>1, <2>2, <2>3, <2>5, <2>6
<1>7. Copied'
  <2>1. ASSUME NEW k \in 1..last
        PROVE  out'[k] = IF k \in Markers(text) THEN "?" ELSE text[k]
    <3>1. CASE k <= i - 1
      <4>1. out'[k] = out[k]
        BY <1>1, <1>6, <3>1
      <4> QED
        BY <1>1, <1>5, <3>1, <4>1
    <3>2. CASE k > i - 1
      <4>1. k - (i - 1) \in 1..(last - i + 1)
        BY <1>1, <1>3, <3>2
      <4>2. out'[k] = SubSeq(text, i, last)[k - (i - 1)]
        <5>1. (i - 1) + (k - (i - 1)) = k
          BY <1>1
        <5> QED
          BY <1>6, <4>1, <5>1
      <4>3. out'[k] = text[k]
        BY <1>1, <1>4, <4>1, <4>2
      <4>4. k \notin Markers(text)
        BY <1>1, <1>3, <3>2
      <4> QED
        BY <4>3, <4>4
    <3> QED
      BY <1>1, <3>1, <3>2
  <2> QED
    BY <1>2, <1>3, <1>6, <2>1 DEF Copied
<1>8. Counted'
  <2>1. ASSUME NEW S \in SUBSET Places(text) PROVE Before(S, e) = Before(S, i)
    <3>1. S \in SUBSET (1..Len(text)) /\ \A k \in S : ~(i <= k /\ k < e)
      BY <1>1, <2>1
    <3>2. PICK j \in Nat : j = i
      BY <1>1
    <3>3. Before(S, e) = Before(S, j)
      BY <1>1, <3>1, <3>2, NoMore
    <3> QED
      BY <3>2, <3>3
  <2>2. /\ Before(Places(text), e) = Before(Places(text), i)
        /\ Before(Markers(text), e) = Before(Markers(text), i)
        /\ Before(Questions(text), e) = Before(Questions(text), i)
    BY <1>1, <2>1
  <2>3. Params' = Params
    BY <1>2 DEF Params
  <2> QED
    BY <1>1, <1>2, <2>2, <2>3 DEF Counted
<1>9. TypeOK'
  BY <1>2, <1>6 DEF ScanInv, TypeOK
<1> QED
  BY <1>2, <1>7, <1>8, <1>9 DEF ScanInv, Begun, Agreed, SentBound, Judged

\* Inside a literal, the database is inside it too, and meets no place.
LEMMA LiteralInStep ==
  ASSUME ScanInv, Literal
  PROVE  ScanInv'
<1>1. /\ text \in Seq(Symbols) /\ Len(text) \in Nat /\ i \in 1..Len(text) /\ InStep
      /\ Lexed(text)[i] = Read(Lexed(text)[i - 1], text[i])
      /\ \A k \in 1..Len(text) : Lexed(text)[k] = Read(Lexed(text)[k - 1], text[k])
  BY Here DEF Literal
<1>2. Scanning /\ Keep /\ quote # None /\ text' = text
  BY DEF Literal, Keep
<1>3. quote \in Quotes
  BY <1>2 DEF ScanInv, TypeOK
<1>4. Lexed(text)[i - 1] = <<"literal", quote>>
  BY <1>1, <1>2 DEF InStep
<1>5. i \notin Places(text)
  BY <1>4, CodeModes DEF Places
<1>6. CASE (Escaped \/ Doubled) /\ CopyUpTo(i + 2) /\ UNCHANGED quote
  <2>1. i + 1 \in 1..Len(text) =>
          /\ Lexed(text)[i + 1] = <<"literal", quote>>
          /\ i + 1 \notin Places(text)
    <3> SUFFICES ASSUME i + 1 \in 1..Len(text)
                 PROVE  /\ Lexed(text)[i + 1] = <<"literal", quote>>
                        /\ i + 1 \notin Places(text)
      OBVIOUS
    <3>1. Lexed(text)[i + 1] = Read(Lexed(text)[i], text[i + 1])
      <4>1. (i + 1) - 1 = i
        BY <1>1
      <4> QED
        BY <1>1, <4>1
    <3>2. CASE Escaped
      <4>1. Lexed(text)[i] = <<"escape", quote>>
        <5>1. text[i] = "backslash" /\ quote # "backtick"
          BY <3>2 DEF Escaped, Has
        <5>2. Lexed(text)[i] = Read(<<"literal", quote>>, text[i])
          BY <1>1, <1>4
        <5> QED
          BY <5>1, <5>2, ReadLiteral
      <4>2. (i + 1) - 1 = i
        BY <1>1
      <4>3. Lexed(text)[i + 1] = Read(<<"escape", quote>>, text[i + 1])
        BY <3>1, <4>1
      <4>4. Lexed(text)[i + 1] = <<"literal", quote>>
        BY <4>3, ReadLiteral
      <4>5. i + 1 \notin Places(text)
        <5>1. ~InCode(Lexed(text)[(i + 1) - 1])
          BY <4>1, <4>2, CodeModes
        <5> QED
          BY <5>1 DEF Places
      <4> QED
        BY <4>4, <4>5
    <3>3. CASE Doubled
      <4>1. text[i] = quote /\ text[i + 1] = quote
        BY <3>3 DEF Doubled, Has
      <4>2. Lexed(text)[i] = <<"code">>
        <5>1. text[i] # "backslash"
          BY <1>3, <4>1 DEF Quotes
        <5> QED
          BY <1>1, <1>4, <4>1, <5>1, ReadLiteral
      <4>3. Lexed(text)[i + 1] = FromCode(quote)
        BY <3>1, <4>1, <4>2, ReadIs
      <4>4. text[i + 1] \notin {"?", ":tenant"}
        BY <1>3, <4>1 DEF Quotes
      <4>5. FromCode(quote) = <<"literal", quote>>
        BY <1>3 DEF FromCode, Quotes
      <4>6. i + 1 \notin Places(text)
        BY <4>4 DEF Places
      <4> QED
        BY <4>3, <4>5, <4>6
    <3> QED
      BY <1>6, <3>2, <3>3
  <2>2. PICK e \in Nat : e = i + 2
    BY <1>1
  <2>3. CopyUpTo(e) /\ i < e /\ i' = e
    BY <1>1, <1>6, <2>2 DEF CopyUpTo
  <2>4. InStep'
    <3>1. e <= Len(text) + 1 => Lexed(text)[e - 1] = <<"literal", quote>>
      <4>1. e - 1 = i + 1 /\ (e <= Len(text) + 1 => i + 1 \in 1..Len(text))
        BY <1>1, <2>2
      <4> QED
        BY <2>1, <4>1
    <3> QED
      BY <1>2, <1>6, <2>3, <3>1 DEF InStep
  <2>5. \A k \in Places(text) : ~(i <= k /\ k < e)
    <3> SUFFICES ASSUME NEW k \in Places(text), i <= k, k < e PROVE FALSE
      OBVIOUS
    <3>1. k \in 1..Len(text)
      BY DEF Places
    <3>2. k = i \/ k = i + 1
      BY <1>1, <2>2, <3>1
    <3> QED
      BY <1>5, <2>1, <3>1, <3>2
  <2>6. quote' \in Quotes \cup {None}
    BY <1>3, <1>6
  <2> QED
    BY <1>2, <2>3, <2>4, <2>5, <2>6, CopyKeeps
<1>7. CASE Has(i, quote) /\ ~Doubled /\ CopyUpTo(i + 1) /\ quote' = None
  <2>1. Lexed(text)[i] = <<"code">>
    <3>1. text[i] = quote /\ text[i] # "backslash"
      BY <1>3, <1>7 DEF Quotes, Has
    <3> QED
      BY <1>1, <1>4, <3>1, ReadLiteral
  <2>2. PICK e \in Nat : e = i + 1
    BY <1>1
  <2>3. CopyUpTo(e) /\ i < e /\ i' = e /\ e - 1 = i
    BY <1>1, <1>7, <2>2 DEF CopyUpTo
  <2>4. InStep'
    BY <1>2, <1>7, <2>1, <2>3 DEF InStep
  <2>5. \A k \in Places(text) : ~(i <= k /\ k < e)
    <3>1. \A k \in Places(text) : k \in Nat
      BY DEF Places
    <3> QED
      BY <1>1, <1>5, <2>2, <3>1
  <2> QED
    BY <1>2, <1>7, <2>3, <2>4, <2>5, CopyKeeps
<1>8. CASE ~Has(i, quote) /\ ~Escaped /\ CopyUpTo(i + 1) /\ UNCHANGED quote
  <2>1. Lexed(text)[i] = <<"literal", quote>>
    <3>1. text[i] # quote /\ ~(text[i] = "backslash" /\ quote # "backtick")
      BY <1>1, <1>8 DEF Escaped, Has
    <3>2. Lexed(text)[i] = Read(<<"literal", quote>>, text[i])
      BY <1>1, <1>4
    <3>3. Read(<<"literal", quote>>, text[i]) =
            IF text[i] = quote THEN <<"code">> ELSE <<"literal", quote>>
      BY <3>1, ReadLiteral
    <3> QED
      BY <3>1, <3>2, <3>3
  <2>2. PICK e \in Nat : e = i + 1
    BY <1>1
  <2>3. CopyUpTo(e) /\ i < e /\ i' = e /\ e - 1 = i
    BY <1>1, <1>8, <2>2 DEF CopyUpTo
  <2>4. InStep'
    BY <1>2, <1>8, <2>1, <2>3 DEF InStep
  <2>5. \A k \in Places(text) : ~(i <= k /\ k < e)
    <3>1. \A k \in Places(text) : k \in Nat
      BY DEF Places
    <3> QED
      BY <1>1, <1>5, <2>2, <3>1
  <2> QED
    BY <1>2, <1>3, <1>8, <2>3, <2>4, <2>5, CopyKeeps
<1> QED
  BY <1>6, <1>7, <1>8 DEF Literal

\* Outside literals the database reads code.
LEMMA InCodeHere ==
  ASSUME ScanInv, Scanning, quote = None
  PROVE  /\ Lexed(text)[i] = FromCode(text[i])
         /\ text[i] # "newline" => InCode(Lexed(text)[i - 1])
<1>1. /\ i \in 1..Len(text) /\ InStep
      /\ Lexed(text)[i] = Read(Lexed(text)[i - 1], text[i])
  BY Here
<1>2. \/ Lexed(text)[i - 1] = <<"code">>
      \/ Lexed(text)[i - 1] = <<"dash">> /\ text[i] # "dash"
      \/ Lexed(text)[i - 1] = <<"slash">> /\ text[i] # "star"
      \/ Lexed(text)[i - 1] = <<"line">> /\ text[i] = "newline"
  BY <1>1 DEF InStep
<1>3. FromCode("newline") = <<"code">>
  BY DEF FromCode, Quotes
<1> QED
  BY <1>1, <1>2, <1>3, ReadIs, CodeModes

\* A quote opens a literal for both.
LEMMA OpenLiteralInStep ==
  ASSUME ScanInv, OpenLiteral
  PROVE  ScanInv'
<1>1. Scanning /\ Keep /\ quote = None /\ text[i] \in Quotes /\ quote' = text[i] /\ text' = text
  BY DEF OpenLiteral, Keep
<1>2. i \in 1..Len(text) /\ Len(text) \in Nat
  BY <1>1, Here
<1>3. Lexed(text)[i] = <<"literal", text[i]>>
  <2>1. Lexed(text)[i] = FromCode(text[i])
    BY <1>1, InCodeHere
  <2>2. FromCode(text[i]) = <<"literal", text[i]>>
    BY <1>1 DEF FromCode, Quotes
  <2> QED
    BY <2>1, <2>2
<1>4. PICK e \in Nat : e = i + 1
  BY <1>2
<1>5. CopyUpTo(e) /\ i < e /\ i' = e /\ e - 1 = i
  BY <1>2, <1>4 DEF OpenLiteral, CopyUpTo
<1>6. InStep'
  BY <1>1, <1>3, <1>5, TenantAssumption DEF InStep
<1>7. \A k \in Places(text) : ~(i <= k /\ k < e)
  <2>1. i \notin Places(text)
    BY <1>1 DEF Quotes, Places
  <2>2. \A k \in Places(text) : k \in Nat
    BY DEF Places
  <2> QED
    BY <1>2, <1>4, <2>1, <2>2
<1> QED
  BY <1>1, <1>5, <1>6, <1>7, CopyKeeps

\* Every other symbol that is copied is code for both, and no place.
LEMMA PlainInStep ==
  ASSUME ScanInv, Plain
  PROVE  ScanInv'
<1>1. /\ Scanning /\ Keep /\ quote = None /\ UNCHANGED quote /\ text' = text
      /\ text[i] \notin Quotes \cup {"?"} /\ ~AtMarker /\ ~AtLineComment /\ ~AtBlockComment
  BY DEF Plain, Keep
<1>2. i \in 1..Len(text) /\ Len(text) \in Nat
  BY <1>1, Here
<1>3. Lexed(text)[i] = FromCode(text[i])
  BY <1>1, InCodeHere
<1>4. PICK e \in Nat : e = i + 1
  BY <1>2
<1>5. CopyUpTo(e) /\ i < e /\ i' = e /\ e - 1 = i
  BY <1>2, <1>4 DEF Plain, CopyUpTo
<1>6. InStep'
  <2>1. FromCode(text[i]) \in {<<"code">>, <<"dash">>, <<"slash">>}
        /\ (FromCode(text[i]) = <<"dash">> => text[i] = "dash")
        /\ (FromCode(text[i]) = <<"slash">> => text[i] = "slash")
    BY <1>1 DEF FromCode
  <2>2. /\ text[i] = "dash" /\ e <= Len(text) => text[e] # "dash"
        /\ text[i] = "slash" /\ e <= Len(text) => text[e] # "star"
    BY <1>1, <1>2, <1>4 DEF AtLineComment, AtBlockComment, Has
  <2> QED
    BY <1>1, <1>3, <1>5, <2>1, <2>2 DEF InStep
<1>7. \A k \in Places(text) : ~(i <= k /\ k < e)
  <2>1. i \notin Places(text)
    <3> SUFFICES ASSUME i \in Places(text) PROVE FALSE
      OBVIOUS
    <3>1. text[i] = ":tenant" /\ ~(i < Len(text) /\ text[i + 1] \in Letters)
      BY <1>1 DEF Places
    <3> QED
      BY <1>1, <1>2, <3>1 DEF AtMarker, Has
  <2>2. \A k \in Places(text) : k \in Nat
    BY DEF Places
  <2> QED
    BY <1>2, <1>4, <2>1, <2>2
<1>8. quote' \in Quotes \cup {None}
  BY <1>1
<1> QED
  BY <1>1, <1>5, <1>6, <1>7, <1>8, CopyKeeps

\* The least of the places where a comment can end.
LEMMA EarliestIs ==
  ASSUME NEW T \in SUBSET Nat, NEW otherwise \in Nat
  PROVE  /\ T = {} => Earliest(T, otherwise) = otherwise
         /\ T # {} => Earliest(T, otherwise) \in T
         /\ \A k \in T : Earliest(T, otherwise) <= k
<1>1. CASE T = {}
  BY <1>1 DEF Earliest
<1>2. CASE T # {}
  <2>1. \E n \in T : \A k \in T : n <= k
    BY <1>2, LeastNatural
  <2>2. Earliest(T, otherwise) = CHOOSE n \in T : \A k \in T : n <= k
    BY <1>2 DEF Earliest
  <2> QED
    BY <1>2, <2>1, <2>2
<1> QED
  BY <1>1, <1>2

\* A line comment ends before the next newline, if there is one.
LEMMA LineEndIs ==
  ASSUME text \in Seq(Symbols), i \in 1..Len(text)
  PROVE  /\ LineEnd \in i..(Len(text) + 1)
         /\ LineEnd <= Len(text) => text[LineEnd] = "newline"
         /\ \A k \in i..Len(text) : k < LineEnd => text[k] # "newline"
<1> DEFINE T == {k \in i..Len(text) : text[k] = "newline"}
<1>1. Len(text) \in Nat /\ i \in Nat /\ Len(text) + 1 \in Nat
  OBVIOUS
<1>2. T \in SUBSET Nat
  BY <1>1
<1>3. PICK S \in SUBSET Nat, n \in Nat : S = T /\ n = Len(text) + 1
  BY <1>1, <1>2
<1>4. LineEnd = Earliest(S, n)
  BY <1>3 DEF LineEnd
<1>5. /\ S = {} => LineEnd = n
      /\ S # {} => LineEnd \in S
      /\ \A k \in S : LineEnd <= k
  BY <1>4, EarliestIs
<1>6. LineEnd \in i..(Len(text) + 1)
  BY <1>1, <1>3, <1>5
<1>7. LineEnd <= Len(text) => text[LineEnd] = "newline"
  BY <1>1, <1>3, <1>5
<1>8. \A k \in i..Len(text) : k < LineEnd => text[k] # "newline"
  BY <1>1, <1>3, <1>5, <1>6
<1> QED
  BY <1>6, <1>7, <1>8

\* A block comment ends after the next star and slash, if they are there.
LEMMA BlockEndIs ==
  ASSUME text \in Seq(Symbols), i \in 1..Len(text), i + 1 \in 1..Len(text)
  PROVE  /\ BlockEnd \in (i + 2)..(Len(text) + 1)
         /\ BlockEnd <= Len(text) =>
              /\ i + 4 <= BlockEnd
              /\ text[BlockEnd - 2] = "star" /\ text[BlockEnd - 1] = "slash"
         /\ \A k \in (i + 4)..(Len(text) + 1) :
              k < BlockEnd => ~(text[k - 2] = "star" /\ text[k - 1] = "slash")
<1> DEFINE T == {k \in i + 4..Len(text) + 1 : Has(k - 2, "star") /\ Has(k - 1, "slash")}
<1>1. Len(text) \in Nat /\ i \in Nat /\ Len(text) + 1 \in Nat /\ i + 1 <= Len(text)
  OBVIOUS
<1>2. T \in SUBSET Nat
  BY <1>1
<1>3. PICK S \in SUBSET Nat, n \in Nat : S = T /\ n = Len(text) + 1
  BY <1>1, <1>2
<1>4. BlockEnd = Earliest(S, n)
  BY <1>3 DEF BlockEnd
<1>5. /\ S = {} => BlockEnd = n
      /\ S # {} => BlockEnd \in S
      /\ \A k \in S : BlockEnd <= k
  BY <1>4, EarliestIs
<1>6. S # {} => /\ BlockEnd \in i + 4..Len(text) + 1
                /\ text[BlockEnd - 2] = "star" /\ text[BlockEnd - 1] = "slash"
  BY <1>3, <1>5 DEF Has
<1>7. BlockEnd \in (i + 2)..(Len(text) + 1)
  BY <1>1, <1>3, <1>5, <1>6
<1>8. BlockEnd <= Len(text) =>
        i + 4 <= BlockEnd /\ text[BlockEnd - 2] = "star" /\ text[BlockEnd - 1] = "slash"
  BY <1>1, <1>3, <1>5, <1>6
<1>9. ASSUME NEW k \in (i + 4)..(Len(text) + 1), k < BlockEnd
      PROVE  ~(text[k - 2] = "star" /\ text[k - 1] = "slash")
  <2>1. k \in Int /\ BlockEnd \in Int
    BY <1>1, <1>7
  <2>2. k \notin S
    BY <1>5, <1>9, <2>1
  <2>3. k - 2 <= Len(text) /\ k - 1 <= Len(text)
    BY <1>1, <2>1
  <2> QED
    BY <1>3, <2>2, <2>3 DEF Has
<1> QED
  BY <1>7, <1>8, <1>9

\* Inside a comment both read on to its end.
LEMMA CommentInStep ==
  ASSUME ScanInv, Comment
  PROVE  ScanInv'
<1>1. /\ Scanning /\ Keep /\ quote = None /\ UNCHANGED quote /\ text' = text
  BY DEF Comment, Keep
<1>2. /\ i \in 1..Len(text) /\ Len(text) \in Nat /\ text \in Seq(Symbols) /\ i \in Nat
      /\ \A k \in 1..Len(text) : Lexed(text)[k] = Read(Lexed(text)[k - 1], text[k])
  <2>1. /\ i \in 1..Len(text) /\ Len(text) \in Nat /\ text \in Seq(Symbols)
        /\ \A k \in 1..Len(text) : Lexed(text)[k] = Read(Lexed(text)[k - 1], text[k])
    BY <1>1, Here
  <2> QED
    BY <2>1
<1>3. Lexed(text)[i] = FromCode(text[i])
  BY <1>1, InCodeHere
<1>4. quote' \in Quotes \cup {None}
  BY <1>1
<1>5. ASSUME NEW k \in Places(text)
      PROVE  k \in 1..Len(text) /\ InCode(Lexed(text)[k - 1]) /\ text[k] \in {"?", ":tenant"}
  BY DEF Places
<1>6. CASE AtLineComment /\ CopyUpTo(LineEnd)
  <2>1. i + 1 \in 1..Len(text) /\ text[i] = "dash" /\ text[i + 1] = "dash"
    BY <1>2, <1>6 DEF AtLineComment, Has
  <2>2. Lexed(text)[i + 1] = <<"line">>
    <3>1. (i + 1) - 1 = i
      BY <1>2
    <3>2. Lexed(text)[i + 1] = Read(Lexed(text)[i], text[i + 1])
      BY <1>2, <2>1, <3>1
    <3>3. Lexed(text)[i] = <<"dash">>
      BY <1>3, <2>1 DEF FromCode, Quotes
    <3> QED
      BY <2>1, <3>2, <3>3, ReadIs
  <2>3. PICK e \in Nat : e = LineEnd
    BY <1>2, LineEndIs
  <2>4. /\ e \in i..(Len(text) + 1) /\ (e <= Len(text) => text[e] = "newline")
        /\ \A k \in i..Len(text) : k < e => text[k] # "newline"
    BY <1>2, <2>3, LineEndIs
  <2>5. e # i /\ e # i + 1
    BY <1>2, <2>1, <2>4
  <2>6. i + 1 < e /\ i < e /\ e - 1 \in Nat /\ e - 1 <= Len(text)
    BY <1>2, <2>4, <2>5
  <2>7. \A k \in (i + 1)..(e - 1) : Lexed(text)[k] = <<"line">>
    <3>1. PICK j \in Nat, f \in Nat : j = i + 1 /\ f = e - 1
      BY <1>2, <2>6
    <3>2. \A k \in (j + 1)..f : text[k] # "newline"
      BY <1>2, <2>4, <2>6, <3>1
    <3>3. Lexed(text)[j] = <<"line">> /\ f <= Len(text)
      BY <2>2, <2>6, <3>1
    <3>4. \A k \in j..f : Lexed(text)[k] = <<"line">>
      BY <1>2, <3>2, <3>3, LineModes
    <3> QED
      BY <3>1, <3>4
  <2>8. CopyUpTo(e) /\ i' = e
    BY <1>6, <2>3 DEF CopyUpTo
  <2>9. InStep'
    <3>1. Lexed(text)[e - 1] = <<"line">>
      BY <1>2, <2>6, <2>7
    <3> QED
      BY <1>1, <2>4, <2>8, <3>1 DEF InStep
  <2>10. \A k \in Places(text) : ~(i <= k /\ k < e)
    <3> SUFFICES ASSUME NEW k \in Places(text), i <= k, k < e PROVE FALSE
      OBVIOUS
    <3>1. k \in 1..Len(text) /\ InCode(Lexed(text)[k - 1]) /\ text[k] # "dash"
      BY <1>5
    <3>2. k # i /\ k # i + 1
      BY <2>1, <3>1
    <3>3. k - 1 \in (i + 1)..(e - 1)
      BY <1>2, <2>6, <3>1, <3>2
    <3> QED
      BY <2>7, <3>1, <3>3, CodeModes
  <2> QED
    BY <1>1, <1>4, <2>6, <2>8, <2>9, <2>10, CopyKeeps
<1>7. CASE AtBlockComment /\ CopyUpTo(BlockEnd)
  <2>1. i + 1 \in 1..Len(text) /\ text[i] = "slash" /\ text[i + 1] = "star"
    BY <1>2, <1>7 DEF AtBlockComment, Has
  <2>2. Lexed(text)[i + 1] = <<"block">>
    <3>1. (i + 1) - 1 = i
      BY <1>2
    <3>2. Lexed(text)[i + 1] = Read(Lexed(text)[i], text[i + 1])
      BY <1>2, <2>1, <3>1
    <3>3. Lexed(text)[i] = <<"slash">>
      BY <1>3, <2>1 DEF FromCode, Quotes
    <3> QED
      BY <2>1, <3>2, <3>3, ReadIs
  <2>3. PICK e \in Nat : e = BlockEnd
    BY <1>2, <2>1, BlockEndIs
  <2>4. /\ e \in (i + 2)..(Len(text) + 1)
        /\ e <= Len(text) => i + 4 <= e /\ text[e - 2] = "star" /\ text[e - 1] = "slash"
        /\ \A k \in (i + 4)..(Len(text) + 1) :
             k < e => ~(text[k - 2] = "star" /\ text[k - 1] = "slash")
    BY <1>2, <2>1, <2>3, BlockEndIs
  <2>5. i + 1 < e /\ i < e /\ e - 2 \in Nat /\ e - 2 <= Len(text) /\ i + 1 \in Nat
    BY <1>2, <2>4
  <2>6. \A k \in (i + 2)..(e - 2) :
          Lexed(text)[k] = IF text[k] = "star" THEN <<"star">> ELSE <<"block">>
    <3>1. PICK j \in Nat, f \in Nat : j = i + 1 /\ f = e - 2
      BY <2>5
    <3>2. ASSUME NEW k \in (j + 2)..f PROVE ~(text[k - 1] = "star" /\ text[k] = "slash")
      <4>1. /\ k + 1 \in (i + 4)..(Len(text) + 1) /\ k + 1 < e
            /\ (k + 1) - 2 = k - 1 /\ (k + 1) - 1 = k
        BY <1>2, <2>5, <3>1
      <4> QED
        BY <2>4, <4>1
    <3>3. Lexed(text)[j] = <<"block">> /\ f <= Len(text)
      BY <2>2, <2>5, <3>1
    <3>4. \A k \in (j + 1)..f :
            Lexed(text)[k] = IF text[k] = "star" THEN <<"star">> ELSE <<"block">>
      BY <1>2, <3>2, <3>3, BlockModes
    <3>5. j + 1 = i + 2
      BY <1>2, <3>1
    <3> QED
      BY <3>1, <3>4, <3>5
  <2>7. CopyUpTo(e) /\ i' = e
    BY <1>7, <2>3 DEF CopyUpTo
  <2>8. InStep'
    <3>1. e <= Len(text) => Lexed(text)[e - 1] = <<"code">>
      <4> SUFFICES ASSUME e <= Len(text) PROVE Lexed(text)[e - 1] = <<"code">>
        OBVIOUS
      <4>1. /\ e - 2 \in (i + 2)..(e - 2) /\ e - 1 \in 1..Len(text) /\ (e - 1) - 1 = e - 2
            /\ text[e - 2] = "star" /\ text[e - 1] = "slash"
        BY <1>2, <2>4, <2>5
      <4>2. Lexed(text)[e - 2] = <<"star">>
        BY <2>6, <4>1
      <4>3. Lexed(text)[e - 1] = Read(<<"star">>, "slash")
        BY <1>2, <4>1, <4>2
      <4> QED
        BY <4>3, ReadIs
    <3> QED
      BY <1>1, <2>7, <3>1 DEF InStep
  <2>9. \A k \in Places(text) : ~(i <= k /\ k < e)
    <3> SUFFICES ASSUME NEW k \in Places(text), i <= k, k < e PROVE FALSE
      OBVIOUS
    <3>1. k \in 1..Len(text) /\ InCode(Lexed(text)[k - 1]) /\ text[k] \notin {"slash", "star"}
      BY <1>5
    <3>2. k # i /\ k # i + 1
      BY <2>1, <3>1
    <3>3. k - 1 = i + 1 \/ k - 1 \in (i + 2)..(e - 2)
      BY <1>2, <2>5, <3>1, <3>2
    <3> QED
      BY <2>2, <2>6, <3>1, <3>3, CodeModes
  <2> QED
    BY <1>1, <1>4, <2>5, <2>7, <2>8, <2>9, CopyKeeps
<1> QED
  BY <1>6, <1>7 DEF Comment

\* A value is bound for a place: the values before it keep theirs.
LEMMA PlaceKeeps ==
  ASSUME ScanInv, Scanning, quote = None, i \in Places(text),
         NEW v \in Nat, v = IF i \in Markers(text) THEN Tenant ELSE Params[used + 1],
         out' = Append(out, "?"), bound' = Append(bound, v), i' = i + 1,
         UNCHANGED <<pc, call, text, quote>>,
         used' = IF i \in Markers(text) THEN used ELSE used + 1,
         refs' = IF i \in Markers(text) THEN refs + 1 ELSE refs
  PROVE  ScanInv'
<1>1. /\ text \in Seq(Symbols) /\ Len(text) \in Nat /\ i \in 1..Len(text) /\ i \in Nat
      /\ Copied /\ Counted
      /\ Lexed(text)[i] = Read(Lexed(text)[i - 1], text[i])
      /\ Places(text) \in SUBSET (1..Len(text))
      /\ Markers(text) \in SUBSET Places(text) /\ Questions(text) \in SUBSET Places(text)
  <2>1. i \in 1..Len(text) /\ Len(text) \in Nat
    BY Here
  <2>2. i \in Nat
    BY <2>1
  <2> QED
    BY <2>2, Here
<1>2. /\ pc = "scan" /\ out \in Seq(Symbols) /\ bound \in Seq(Nat) /\ used \in Nat
      /\ refs \in Nat /\ quote \in Quotes \cup {None} /\ Params' = Params
      /\ pc # "idle" => call.params \in Seq(Nat)
  BY DEF Scanning, ScanInv, TypeOK, Params
<1>3. InCode(Lexed(text)[i - 1]) /\ text[i] \in {"?", ":tenant"}
  BY DEF Places
<1>4. i \notin Markers(text) => text[i] = "?"
  BY <1>3 DEF Markers
<1>5. InStep'
  <2>1. Lexed(text)[i] = <<"code">>
    BY <1>1, <1>3, ReadInCode
  <2>2. i' - 1 = i
    BY <1>1
  <2> QED
    BY <2>1, <2>2 DEF InStep
<1>6. Copied'
  <2>1. Done' = i
    BY <1>1 DEF Done
  <2>2. Len(out) = i - 1 /\ \A k \in 1..(i - 1) : out[k] = IF k \in Markers(text) THEN "?" ELSE text[k]
    BY <1>1 DEF Copied, Done
  <2>3. Len(out') = i /\ out'[i] = "?" /\ \A k \in 1..(i - 1) : out'[k] = out[k]
    <3>1. Len(out) + 1 = i
      BY <1>1, <2>2
    <3>2. /\ Len(Append(out, "?")) = Len(out) + 1 /\ Append(out, "?")[Len(out) + 1] = "?"
          /\ \A k \in 1..Len(out) : Append(out, "?")[k] = out[k]
      <4>1. "?" \in Symbols
        BY DEF Symbols
      <4> QED
        BY <1>2, <4>1, AppendProperties
    <3> QED
      BY <2>2, <3>1, <3>2
  <2>4. ASSUME NEW k \in 1..i PROVE out'[k] = IF k \in Markers(text) THEN "?" ELSE text[k]
    <3>1. CASE k = i
      BY <1>4, <2>3, <3>1
    <3>2. CASE k # i
      <4>1. k \in 1..(i - 1)
        BY <1>1, <3>2
      <4> QED
        BY <2>2, <2>3, <4>1
    <3> QED
      BY <3>1, <3>2
  <2> QED
    BY <2>1, <2>3, <2>4 DEF Copied
<1>7. ASSUME NEW S \in SUBSET Places(text)
      PROVE  /\ S \in SUBSET (1..Len(text))
             /\ Cardinality(Before(S, i)) \in Nat
             /\ i \in S => /\ Cardinality(Before(S, i + 1)) = Cardinality(Before(S, i)) + 1
                           /\ Rank(S, i) = Cardinality(Before(S, i)) + 1
             /\ i \notin S => Before(S, i + 1) = Before(S, i)
  <2>1. S \in SUBSET (1..Len(text))
    BY <1>1
  <2>2. PICK n \in Nat, j \in Nat, e \in Nat : n = Len(text) /\ j = i /\ e = i + 1
    BY <1>1
  <2>3. Cardinality(Before(S, j)) \in Nat
    BY <2>1, <2>2, BeforeIn
  <2>4. j \in S => /\ Cardinality(Before(S, j + 1)) = Cardinality(Before(S, j)) + 1
                   /\ Rank(S, j) = Cardinality(Before(S, j)) + 1
    BY <2>1, <2>2, OneMore
  <2>5. j \notin S => Before(S, e) = Before(S, j)
    <3>1. j \notin S => \A k \in S : ~(j <= k /\ k < e)
      <4>1. \A k \in S : k \in Int
        BY <2>1
      <4> QED
        BY <2>2, <4>1
    <3>2. j <= e
      BY <2>2
    <3> QED
      BY <2>1, <2>2, <3>1, <3>2, NoMore
  <2> QED
    BY <2>1, <2>2, <2>3, <2>4, <2>5
<1>8. Counted'
  <2>1. /\ used = Cardinality(Before(Questions(text), i))
        /\ refs = Cardinality(Before(Markers(text), i))
        /\ Len(bound) = Cardinality(Before(Places(text), i))
        /\ \A k \in Before(Places(text), i) :
             bound[Rank(Places(text), k)] =
                IF k \in Markers(text) THEN Tenant ELSE Params[Rank(Questions(text), k)]
    BY <1>1 DEF Counted
  <2>2. i \in Questions(text) <=> i \notin Markers(text)
    BY DEF Questions
  <2>3. used' = Cardinality(Before(Questions(text), i + 1))
    <3>1. CASE i \in Markers(text)
      BY <1>1, <1>7, <2>1, <2>2, <3>1
    <3>2. CASE i \notin Markers(text)
      BY <1>1, <1>7, <2>1, <2>2, <3>2
    <3> QED
      BY <3>1, <3>2
  <2>4. refs' = Cardinality(Before(Markers(text), i + 1))
    BY <1>1, <1>7, <2>1
  <2>5. /\ Len(bound') = Len(bound) + 1 /\ bound'[Len(bound) + 1] = v
        /\ \A k \in 1..Len(bound) : bound'[k] = bound[k]
    <3>1. /\ Len(Append(bound, v)) = Len(bound) + 1
          /\ Append(bound, v)[Len(bound) + 1] = v
          /\ \A k \in 1..Len(bound) : Append(bound, v)[k] = bound[k]
      BY <1>2, AppendProperties
    <3> QED
      BY <3>1
  <2>6. Len(bound') = Cardinality(Before(Places(text), i + 1))
    BY <1>7, <2>1, <2>5
  <2>7. ASSUME NEW k \in Before(Places(text), i + 1)
        PROVE  bound'[Rank(Places(text), k)] =
                 IF k \in Markers(text) THEN Tenant ELSE Params[Rank(Questions(text), k)]
    <3>1. k \in Places(text) /\ k \in Int /\ k < i + 1
      BY <1>1 DEF Before
    <3>2. CASE k = i
      <4>1. Rank(Places(text), i) = Len(bound) + 1
        BY <1>7, <2>1
      <4>2. i \notin Markers(text) => Rank(Questions(text), i) = used + 1
        BY <1>1, <1>7, <2>1, <2>2
      <4> QED
        BY <2>5, <3>2, <4>1, <4>2
    <3>3. CASE k # i
      <4>1. k < i
        BY <1>1, <3>1, <3>3
      <4>2. k \in Before(Places(text), i)
        BY <3>1, <4>1 DEF Before
      <4>3. Rank(Places(text), k) \in 1..Cardinality(Before(Places(text), i))
        BY <1>1, <4>2, RankCounted
      <4>4. bound'[Rank(Places(text), k)] = bound[Rank(Places(text), k)]
        BY <2>1, <2>5, <4>3
      <4> QED
        BY <2>1, <4>2, <4>4
    <3> QED
      BY <3>2, <3>3
  <2> QED
    BY <1>2, <2>3, <2>4, <2>6, <2>7 DEF Counted
<1>9. TypeOK'
  <2>1. bound' \in Seq(Nat)
    BY <1>2
  <2>2. out' \in Seq(Symbols)
    BY <1>2 DEF Symbols
  <2>3. i' \in Nat \ {0} /\ used' \in Nat /\ refs' \in Nat
    BY <1>1, <1>2
  <2> QED
    BY <1>1, <1>2, <2>1, <2>2, <2>3 DEF TypeOK
<1> QED
  BY <1>2, <1>5, <1>6, <1>8, <1>9 DEF ScanInv, Begun, Agreed, SentBound, Judged

\* A placeholder is one for both; without a parameter left the scan refuses the
\* statement, which has more placeholders than parameters.
LEMMA PlaceholderInStep ==
  ASSUME ScanInv, Placeholder
  PROVE  ScanInv'
<1>1. /\ Scanning /\ quote = None /\ text[i] = "?" /\ UNCHANGED <<call, text>> /\ pc = "scan"
  BY DEF Placeholder, Scanning
<1>2. /\ i \in 1..Len(text) /\ Counted /\ Len(text) \in Nat
      /\ Places(text) \in SUBSET (1..Len(text)) /\ Questions(text) \in SUBSET Places(text)
  BY <1>1, Here
<1>3. i \in Places(text) /\ i \notin Markers(text) /\ i \in Questions(text)
  <2>1. InCode(Lexed(text)[i - 1])
    BY <1>1, InCodeHere
  <2> QED
    BY <1>1, <1>2, <2>1 DEF Places, Markers, Questions
<1>4. call.params \in Seq(Nat) /\ used \in Nat /\ Params = call.params /\ TypeOK
  BY <1>1 DEF ScanInv, TypeOK, Params
<1>5. CASE used >= Len(Params) /\ Refuse /\ UNCHANGED scan
  <2>1. Cardinality(Questions(text)) # Len(Params)
    <3>1. used = Cardinality(Before(Questions(text), i))
      BY <1>2 DEF Counted
    <3>n. PICK n \in Nat : n = Len(text)
      BY <1>2
    <3>s. PICK S \in SUBSET (1..n) : S = Questions(text)
      BY <1>2, <3>n
    <3>f. IsFiniteSet(S)
      <4>1. IsFiniteSet(1..n)
        BY FS_Interval
      <4> QED
        BY <4>1, FS_Subset
    <3>2. PICK j \in S : j = i
      BY <1>3, <3>s
    <3>3. Cardinality(Before(S, j + 1)) = Cardinality(Before(S, j)) + 1
      BY <3>2, OneMore
    <3>4. Cardinality(Before(S, j + 1)) <= Cardinality(S)
      <4>1. IsFiniteSet(S)
        BY <3>f
      <4>2. Before(S, j + 1) \in SUBSET S
        BY DEF Before
      <4> QED
        BY <4>1, <4>2, FS_Subset
    <3>5. Cardinality(S) \in Nat
      BY <3>f, FS_CardinalityType
    <3>6. Len(Params) \in Nat
      BY <1>4
    <3> QED
      BY <1>4, <1>5, <3>1, <3>s, <3>2, <3>3, <3>4, <3>5, <3>6
  <2>2. pc' = "refused" /\ UNCHANGED <<scan, call, text>>
    BY <1>1, <1>5 DEF Refuse
  <2>3. TypeOK'
    BY <1>1, <1>4, <2>2 DEF TypeOK, scan
  <2>4. Params' = Params
    BY <2>2 DEF Params
  <2>5. Judged'
    BY <2>1, <2>2, <2>4 DEF Judged
  <2> QED
    BY <2>2, <2>3, <2>5 DEF ScanInv, Begun, Agreed, SentBound
<1>6. CASE /\ used < Len(Params)
           /\ out' = Append(out, "?") /\ bound' = Append(bound, Params[used + 1])
           /\ used' = used + 1 /\ i' = i + 1
           /\ UNCHANGED <<pc, quote, refs>>
  <2>1. PICK v \in Nat : v = Params[used + 1]
    <3>1. used + 1 \in 1..Len(Params)
      BY <1>4, <1>6
    <3> QED
      BY <1>4, <3>1
  <2> QED
    BY <1>1, <1>3, <1>6, <2>1, PlaceKeeps
<1> QED
  BY <1>5, <1>6 DEF Placeholder

\* A marker is a place for both.
LEMMA MarkerInStep ==
  ASSUME ScanInv, Marker
  PROVE  ScanInv'
<1>1. /\ Scanning /\ quote = None /\ AtMarker
      /\ out' = Append(out, "?") /\ bound' = Append(bound, Tenant) /\ i' = i + 1
      /\ refs' = refs + 1 /\ UNCHANGED <<pc, call, text, quote, used>>
  BY DEF Marker
<1>2. i \in 1..Len(text) /\ Len(text) \in Nat /\ text[i] = ":tenant"
  BY <1>1, Here DEF AtMarker, Has
<1>3. i \in Markers(text) /\ i \in Places(text)
  <2>1. InCode(Lexed(text)[i - 1])
    BY <1>1, <1>2, InCodeHere
  <2>2. ~(i < Len(text) /\ text[i + 1] \in Letters)
    BY <1>1, <1>2 DEF AtMarker, Has
  <2> QED
    BY <1>2, <2>1, <2>2 DEF Places, Markers
<1>4. PICK v \in Nat : v = Tenant
  BY TenantAssumption
<1> QED
  BY <1>1, <1>3, <1>4, PlaceKeeps

\* At the end everything is copied and every place has its value.
LEMMA FinishInStep ==
  ASSUME ScanInv, Finish
  PROVE  ScanInv'
<1>1. /\ pc = "scan" /\ i > Len(text) /\ UNCHANGED <<call, text, scan>>
      /\ \/ pc' = "refused" /\ (used # Len(Params) \/ refs = 0)
         \/ pc' = "sent" /\ used = Len(Params) /\ refs # 0
  BY DEF Finish, Refuse
<1>2. /\ TypeOK /\ text \in Seq(Symbols) /\ out \in Seq(Symbols) /\ Copied /\ Counted
      /\ i \in Nat
  BY <1>1 DEF ScanInv, TypeOK, Agreed
<1>3. Len(text) \in Nat /\ Len(out) \in Nat
  BY <1>2
<1>4. /\ Places(text) \in SUBSET (1..Len(text)) /\ Markers(text) \in SUBSET (1..Len(text))
      /\ Questions(text) \in SUBSET (1..Len(text))
  BY DEF Places, Markers, Questions
<1>5. /\ Before(Places(text), i) = Places(text) /\ Before(Markers(text), i) = Markers(text)
      /\ Before(Questions(text), i) = Questions(text)
  <2>1. PICK n \in Nat, j \in Nat : n = Len(text) /\ j = i
    BY <1>2, <1>3
  <2>2. ASSUME NEW S \in SUBSET (1..n) PROVE Before(S, j) = S
    BY <1>1, <2>1, AllPassed
  <2> QED
    BY <1>4, <2>1, <2>2
<1>6. /\ used = Cardinality(Questions(text)) /\ refs = Cardinality(Markers(text))
      /\ Len(bound) = Cardinality(Places(text))
      /\ \A k \in Places(text) :
           bound[Rank(Places(text), k)] =
             IF k \in Markers(text) THEN Tenant ELSE Params[Rank(Questions(text), k)]
  BY <1>2, <1>5 DEF Counted
<1>7. /\ Len(out) = Len(text)
      /\ \A k \in 1..Len(text) : out[k] = IF k \in Markers(text) THEN "?" ELSE text[k]
  <2>1. Done = Len(text)
    BY <1>1, <1>2, <1>3 DEF Done
  <2> QED
    BY <1>2, <2>1 DEF Copied
<1>8. Places(out) = Places(text)
  BY <1>2, <1>7, SamePlaces
<1>9. out = [k \in 1..Len(text) |-> IF k \in Markers(text) THEN "?" ELSE text[k]]
  <2>1. out = [k \in 1..Len(out) |-> out[k]]
    BY <1>2, LenProperties
  <2> QED
    BY <1>7, <2>1
<1>10. refs = 0 <=> Markers(text) = {}
  <2>1. IsFiniteSet(1..Len(text))
    BY <1>3, FS_Interval
  <2>2. IsFiniteSet(Markers(text))
    BY <1>4, <2>1, FS_Subset
  <2> QED
    BY <1>6, <2>2, FS_EmptySet
<1>11. Params' = Params /\ UNCHANGED <<out, bound, used, refs, i, quote>>
  BY <1>1 DEF Params, scan
<1>12. TypeOK'
  BY <1>1, <1>2, <1>11 DEF TypeOK
<1>13. SentBound'
  BY <1>1, <1>6, <1>8, <1>9, <1>11 DEF SentBound
<1>14. Judged'
  BY <1>1, <1>6, <1>10, <1>11 DEF Judged
<1> QED
  BY <1>1, <1>12, <1>13, <1>14 DEF ScanInv, Begun, Agreed

\* A call hands its text over, and the scan begins where the database begins.
LEMMA CallInStep ==
  ASSUME ScanInv, pc = "idle", NEW t \in Seq(Symbols), text' = t, UNCHANGED scan,
         pc' \in {"scan", "refused"}, call'.params \in Seq(Nat),
         pc' = "refused" => Markers(t) = {}
  PROVE  ScanInv'
<1>1. /\ i' = 1 /\ quote' = None /\ out' = <<>> /\ bound' = <<>> /\ used' = 0 /\ refs' = 0
  BY DEF ScanInv, Begun, scan
<1>2. Len(t) \in Nat
  OBVIOUS
<1>3. TypeOK'
  BY <1>1 DEF TypeOK
<1>4. InStep'
  <2>1. Lexed(t)[0] = <<"code">>
    BY LexedFollows DEF Follows
  <2> QED
    BY <1>1, <2>1 DEF InStep
<1>5. Copied'
  BY <1>1, <1>2 DEF Copied, Done
<1>6. Counted'
  <2>1. /\ Places(t) \in SUBSET (1..Len(t)) /\ Markers(t) \in SUBSET (1..Len(t))
        /\ Questions(t) \in SUBSET (1..Len(t))
    BY DEF Places, Markers, Questions
  <2>2. ASSUME NEW S \in SUBSET (1..Len(t)) PROVE Before(S, 1) = {}
    <3>1. \A k \in S : ~(k < 1)
      BY <1>2
    <3> QED
      BY <3>1, Zenon DEF Before
  <2>3. /\ Before(Places(t), 1) = {} /\ Before(Markers(t), 1) = {}
        /\ Before(Questions(t), 1) = {}
    BY <2>1, <2>2
  <2>4. Cardinality({}) = 0
    BY FS_EmptySet
  <2> QED
    BY <1>1, <2>3, <2>4 DEF Counted
<1> QED
  BY <1>3, <1>4, <1>5, <1>6 DEF ScanInv, Begun, Agreed, SentBound, Judged

\* Items in a row, one by one.
Builds(f, items, n) ==
    /\ f[0] = <<>>
    /\ \A k \in 1..n : f[k] = f[k - 1] \o <<"space">> \o items[k]

\* Some function builds them.
LEMMA SomeBuilds ==
  ASSUME NEW items \in Seq(Seq(Symbols))
  PROVE  \E f : Builds(f, items, Len(items))
<1> DEFINE Unbuilt == {n \in Nat : n <= Len(items) /\ ~\E f : Builds(f, items, n)}
<1>1. Len(items) \in Nat
  OBVIOUS
<1>2. CASE Unbuilt = {}
  BY <1>1, <1>2
<1>3. CASE Unbuilt # {}
  <2>1. PICK n \in Unbuilt : \A k \in Unbuilt : n <= k
    <3>1. Unbuilt \in SUBSET Nat
      OBVIOUS
    <3> HIDE DEF Unbuilt
    <3> QED
      BY <1>3, <3>1, LeastNatural
  <2>2. n # 0
    <3> DEFINE f == [k \in {0} |-> <<>>]
    <3>1. Builds(f, items, 0)
      BY DEF Builds
    <3> QED
      BY <3>1
  <2>3. n - 1 \in Nat /\ n \in Nat /\ n - 1 \notin Unbuilt /\ n <= Len(items)
    <3>1. n \in Nat /\ n <= Len(items)
      BY <2>1
    <3>2. \A k \in Unbuilt : n <= k
      BY <2>1
    <3> HIDE DEF Unbuilt
    <3> QED
      BY <2>2, <3>1, <3>2
  <2>4. PICK f : Builds(f, items, n - 1)
    BY <1>1, <2>3
  <2> DEFINE g == [k \in 0..n |-> IF k = n THEN f[n - 1] \o <<"space">> \o items[n] ELSE f[k]]
  <2>5. Builds(g, items, n)
    <3>1. g[0] = <<>>
      BY <2>3, <2>4 DEF Builds
    <3>2. ASSUME NEW k \in 1..n PROVE g[k] = g[k - 1] \o <<"space">> \o items[k]
      <4>1. k - 1 \in 0..n /\ k \in 0..n /\ g[k - 1] = f[k - 1]
        BY <2>3
      <4>2. CASE k = n
        BY <4>1, <4>2
      <4>3. CASE k # n
        <5>1. k \in 1..(n - 1) /\ g[k] = f[k]
          BY <2>3, <4>3
        <5> QED
          BY <2>4, <4>1, <5>1 DEF Builds
      <4> QED
        BY <4>2, <4>3
    <3> HIDE DEF g
    <3> QED
      BY <3>1, <3>2 DEF Builds
  <2> QED
    BY <2>1, <2>5
<1> QED
  BY <1>2, <1>3

\* The items in a row are what it builds.
LEMMA ListedBuilds ==
  ASSUME NEW items \in Seq(Seq(Symbols))
  PROVE  \E f : Builds(f, items, Len(items)) /\ Listed(items) = f[Len(items)]
<1> DEFINE Rule(m) == [n \in 0..Len(items) |->
                         IF n = 0 THEN <<>> ELSE m[n - 1] \o <<"space">> \o items[n]]
<1>1. Len(items) \in Nat
  OBVIOUS
<1>2. PICK f : Builds(f, items, Len(items))
  BY SomeBuilds
<1> DEFINE m == [k \in 0..Len(items) |-> f[k]]
<1>3. m = Rule(m)
  <2>1. ASSUME NEW k \in 0..Len(items)
        PROVE  f[k] = IF k = 0 THEN <<>> ELSE m[k - 1] \o <<"space">> \o items[k]
    <3>1. CASE k = 0
      BY <1>2, <3>1 DEF Builds
    <3>2. CASE k # 0
      <4>1. k \in 1..Len(items) /\ k - 1 \in 0..Len(items)
        BY <1>1, <3>2
      <4>2. m[k - 1] = f[k - 1]
        BY <4>1
      <4> QED
        BY <1>2, <3>2, <4>1, <4>2 DEF Builds
    <3> QED
      BY <3>1, <3>2
  <2> QED
    BY <2>1
<1> DEFINE h == CHOOSE g : g = Rule(g)
<1>4. h = Rule(h)
  BY <1>3
<1>5. Listed(items) = h[Len(items)]
  BY DEF Listed
<1> HIDE DEF h
<1>6. \A k \in 0..Len(items) :
        h[k] = IF k = 0 THEN <<>> ELSE h[k - 1] \o <<"space">> \o items[k]
  BY <1>4
<1>7. Builds(h, items, Len(items))
  <2>1. h[0] = <<>>
    BY <1>1, <1>6
  <2>2. ASSUME NEW k \in 1..Len(items) PROVE h[k] = h[k - 1] \o <<"space">> \o items[k]
    <3>1. k \in 0..Len(items) /\ k # 0
      BY <1>1
    <3> QED
      BY <1>6, <3>1
  <2> QED
    BY <2>1, <2>2 DEF Builds
<1> QED
  BY <1>5, <1>7

----------------------------------------------------------------------------
(* The text of an insert.                                                  *)

\* A text without places that ends in code.
Quiet(t) == /\ t \in Seq(Symbols) /\ Lexed(t)[Len(t)] = <<"code">>
            /\ \A k \in 1..Len(t) : t[k] \notin {"?", ":tenant"}

\* What the lexer does depends on what it reads, and on nothing else.
Reads(f, a, n) == \A k \in 1..n : f[k] = Read(f[k - 1], a[k])

LEMMA Determined ==
  ASSUME NEW n \in Nat, NEW f, NEW g, NEW a, f[0] = g[0], Reads(f, a, n), Reads(g, a, n)
  PROVE  \A k \in 0..n : f[k] = g[k]
<1> DEFINE Other == {k \in 0..n : f[k] # g[k]}
<1>1. SUFFICES ASSUME Other # {} PROVE FALSE
  OBVIOUS
<1>2. PICK k \in Other : \A j \in Other : k <= j
  <2>1. Other \in SUBSET Nat
    OBVIOUS
  <2> HIDE DEF Other
  <2> QED
    BY <1>1, <2>1, LeastNatural
<1>3. k \in 1..n /\ k - 1 \in 0..n /\ k - 1 < k /\ f[k] # g[k]
  BY <1>2
<1>4. k - 1 \notin Other
  <2>1. \A j \in Other : k <= j
    BY <1>2
  <2> HIDE DEF Other
  <2> QED
    BY <1>3, <2>1
<1>5. f[k - 1] = g[k - 1]
  BY <1>3, <1>4
<1> QED
  BY <1>3, <1>5 DEF Reads

\* After a text that ends in code the lexer reads on as if it began there.
LEMMA LexedJoined ==
  ASSUME NEW s \in Seq(Symbols), NEW m \in Seq(Symbols), Lexed(s)[Len(s)] = <<"code">>
  PROVE  /\ \A k \in 0..Len(s) : Lexed(s \o m)[k] = Lexed(s)[k]
         /\ \A k \in 0..Len(m) : Lexed(s \o m)[Len(s) + k] = Lexed(m)[k]
<1>1. Len(s) \in Nat /\ Len(m) \in Nat
  OBVIOUS
<1>2. PICK t \in Seq(Symbols) : t = s \o m
  BY Joined
<1>3. /\ Len(t) = Len(s) + Len(m)
      /\ \A k \in 1..Len(s) : t[k] = s[k]
      /\ \A k \in 1..Len(m) : t[Len(s) + k] = m[k]
  BY <1>2, Joined
<1>4. /\ Follows(Lexed(t), t, Len(t)) /\ Follows(Lexed(s), s, Len(s))
      /\ Follows(Lexed(m), m, Len(m))
  BY LexedFollows
<1>5. \A k \in 0..Len(s) : Lexed(t)[k] = Lexed(s)[k]
  <2>1. Lexed(t)[0] = Lexed(s)[0]
    BY <1>4 DEF Follows
  <2>2. Reads(Lexed(t), s, Len(s))
    BY <1>1, <1>3, <1>4 DEF Follows, Reads
  <2>3. Reads(Lexed(s), s, Len(s))
    BY <1>4 DEF Follows, Reads
  <2> QED
    BY <1>1, <2>1, <2>2, <2>3, Determined
<1>6. \A k \in 0..Len(m) : Lexed(t)[Len(s) + k] = Lexed(m)[k]
  <2> DEFINE f == [k \in 0..Len(m) |-> Lexed(t)[Len(s) + k]]
  <2>1. f[0] = Lexed(m)[0]
    <3>1. 0 \in 0..Len(m) /\ Len(s) + 0 = Len(s) /\ Len(s) \in 0..Len(s)
      BY <1>1
    <3>2. f[0] = Lexed(s)[Len(s)]
      BY <1>5, <3>1
    <3> QED
      BY <1>4, <3>2 DEF Follows
  <2>2. ASSUME NEW k \in 1..Len(m) PROVE f[k] = Read(f[k - 1], m[k])
    <3>1. /\ k \in 0..Len(m) /\ k - 1 \in 0..Len(m) /\ Len(s) + k \in 1..Len(t)
          /\ (Len(s) + k) - 1 = Len(s) + (k - 1)
      BY <1>1, <1>3
    <3>2. Lexed(t)[Len(s) + k] = Read(Lexed(t)[(Len(s) + k) - 1], t[Len(s) + k])
      BY <1>4, <3>1 DEF Follows
    <3> QED
      BY <1>3, <3>1, <3>2
  <2>3. Reads(Lexed(m), m, Len(m))
    BY <1>4 DEF Follows, Reads
  <2>4. \A k \in 0..Len(m) : f[k] = Lexed(m)[k]
    <3> HIDE DEF f
    <3>1. Reads(f, m, Len(m))
      BY <2>2 DEF Reads
    <3> QED
      BY <1>1, <2>1, <2>3, <3>1, Determined
  <2> QED
    BY <2>4
<1> QED
  BY <1>2, <1>5, <1>6

\* Texts without places, one after the other, are one.
LEMMA QuietJoined ==
  ASSUME NEW s, NEW m, Quiet(s), Quiet(m)
  PROVE  Quiet(s \o m)
<1>1. s \in Seq(Symbols) /\ m \in Seq(Symbols) /\ Len(s) \in Nat /\ Len(m) \in Nat
  BY DEF Quiet
<1>2. PICK t \in Seq(Symbols) : t = s \o m
  BY <1>1, Joined
<1>3. /\ Len(t) = Len(s) + Len(m)
      /\ \A k \in 1..Len(s) : t[k] = s[k]
      /\ \A k \in 1..Len(m) : t[Len(s) + k] = m[k]
  BY <1>1, <1>2, Joined
<1>4. Lexed(t)[Len(t)] = <<"code">>
  <2>1. \A k \in 0..Len(m) : Lexed(t)[Len(s) + k] = Lexed(m)[k]
    BY <1>1, <1>2, LexedJoined DEF Quiet
  <2>2. Len(m) \in 0..Len(m)
    BY <1>1
  <2> QED
    BY <1>3, <2>1, <2>2 DEF Quiet
<1>5. ASSUME NEW k \in 1..Len(t) PROVE t[k] \notin {"?", ":tenant"}
  <2>1. CASE k <= Len(s)
    <3>1. k \in 1..Len(s)
      BY <1>1, <1>3, <2>1
    <3> QED
      BY <1>3, <3>1 DEF Quiet
  <2>2. CASE k > Len(s)
    <3>1. k - Len(s) \in 1..Len(m) /\ Len(s) + (k - Len(s)) = k
      BY <1>1, <1>3, <2>2
    <3>2. t[k] = m[k - Len(s)]
      BY <1>3, <3>1
    <3> QED
      BY <3>1, <3>2 DEF Quiet
  <2> QED
    BY <1>1, <1>3, <2>1, <2>2
<1> QED
  BY <1>2, <1>4, <1>5 DEF Quiet

\* A text of code symbols is code throughout.
LEMMA CodeThroughout ==
  ASSUME NEW t \in Seq(Symbols), \A k \in 1..Len(t) : t[k] \notin Quotes \cup {"dash", "slash"}
  PROVE  \A k \in 0..Len(t) : Lexed(t)[k] = <<"code">>
<1>1. Len(t) \in Nat /\ Follows(Lexed(t), t, Len(t))
  BY LexedFollows
<1> DEFINE f == [k \in 0..Len(t) |-> <<"code">>]
<1>2. ASSUME NEW k \in 1..Len(t) PROVE f[k] = Read(f[k - 1], t[k])
  <2>1. FromCode(t[k]) = <<"code">>
    BY DEF FromCode
  <2>2. k \in 0..Len(t) /\ k - 1 \in 0..Len(t)
    BY <1>1
  <2> QED
    BY <2>1, <2>2, ReadIs
<1>3. Reads(Lexed(t), t, Len(t))
  BY <1>1 DEF Follows, Reads
<1>4. Lexed(t)[0] = f[0]
  BY <1>1 DEF Follows
<1>5. \A k \in 0..Len(t) : Lexed(t)[k] = f[k]
  <2> HIDE DEF f
  <2>1. Reads(f, t, Len(t))
    BY <1>2 DEF Reads
  <2> QED
    BY <1>1, <1>3, <1>4, <2>1, Determined
<1> QED
  BY <1>5

\* A safe name in backticks.
LEMMA QuietQuoted ==
  ASSUME NEW name \in Seq(Symbols), SafeName(name)
  PROVE  Quiet(Quoted(name))
<1>1. /\ Len(name) \in Nat /\ DOMAIN name = 1..Len(name)
      /\ \A k \in 1..Len(name) : name[k] \in Letters
  BY LenProperties DEF SafeName
<1>2. PICK tick \in Seq(Symbols) : tick = <<"backtick">> /\ Len(tick) = 1 /\ tick[1] = "backtick"
  <2>1. "backtick" \in Symbols
    BY DEF Symbols, Quotes
  <2>2. <<"backtick">> \in Seq(Symbols) /\ Len(<<"backtick">>) = 1 /\ <<"backtick">>[1] = "backtick"
    BY <2>1
  <2> QED
    BY <2>2
<1>3. PICK open \in Seq(Symbols) : open = tick \o name
  BY Joined
<1>4. /\ Len(open) = Len(name) + 1 /\ open[1] = "backtick"
      /\ \A k \in 1..Len(name) : open[k + 1] = name[k]
  <2>1. /\ Len(open) = Len(tick) + Len(name)
        /\ \A k \in 1..Len(tick) : open[k] = tick[k]
        /\ \A k \in 1..Len(name) : open[Len(tick) + k] = name[k]
    BY <1>3, Joined
  <2> QED
    BY <1>1, <1>2, <2>1
<1>5. PICK t \in Seq(Symbols) : t = open \o tick
  BY Joined
<1>6. /\ Len(t) = Len(name) + 2 /\ t[1] = "backtick" /\ t[Len(name) + 2] = "backtick"
      /\ \A k \in 1..Len(name) : t[k + 1] = name[k]
  <2>1. /\ Len(t) = Len(open) + Len(tick)
        /\ \A k \in 1..Len(open) : t[k] = open[k]
        /\ \A k \in 1..Len(tick) : t[Len(open) + k] = tick[k]
    BY <1>5, Joined
  <2>2. t[Len(open) + 1] = tick[1] /\ Len(open) + 1 = Len(name) + 2
    BY <1>1, <1>2, <1>4, <2>1
  <2>3. \A k \in 1..Len(name) : k + 1 \in 1..Len(open)
    BY <1>1, <1>4
  <2>4. 1 \in 1..Len(open)
    BY <1>1, <1>4
  <2> QED
    BY <1>1, <1>2, <1>4, <2>1, <2>2, <2>3, <2>4
<1>7. t = Quoted(name)
  BY <1>2, <1>3, <1>5 DEF Quoted
<1>8. Follows(Lexed(t), t, Len(t))
  BY LexedFollows
<1> DEFINE inside == <<"literal", "backtick">>
<1>9. \A k \in 0..Len(name) : Lexed(t)[k + 1] = inside
  <2> DEFINE f == [k \in 0..Len(name) |-> Lexed(t)[k + 1]]
             g == [k \in 0..Len(name) |-> inside]
  <2>1. f[0] = g[0]
    <3>1. Lexed(t)[0] = <<"code">> /\ Lexed(t)[1] = Read(Lexed(t)[0], t[1])
      <4>1. 1 \in 1..Len(t) /\ 1 - 1 = 0
        BY <1>1, <1>6
      <4> QED
        BY <1>8, <4>1 DEF Follows
    <3>2. FromCode("backtick") = inside
      BY DEF FromCode, Quotes
    <3>3. Lexed(t)[1] = inside
      BY <1>6, <3>1, <3>2, ReadIs
    <3> QED
      BY <1>1, <3>3
  <2>2. ASSUME NEW k \in 1..Len(name) PROVE f[k] = Read(f[k - 1], name[k])
    <3>1. /\ k + 1 \in 1..Len(t) /\ (k + 1) - 1 = k /\ (k - 1) + 1 = k
          /\ k \in 0..Len(name) /\ k - 1 \in 0..Len(name)
      BY <1>1, <1>6
    <3>2. Lexed(t)[k + 1] = Read(Lexed(t)[k], t[k + 1])
      BY <1>8, <3>1 DEF Follows
    <3> QED
      BY <1>6, <3>1, <3>2
  <2>3. ASSUME NEW k \in 1..Len(name) PROVE g[k] = Read(g[k - 1], name[k])
    <3>1. k \in 0..Len(name) /\ k - 1 \in 0..Len(name)
      BY <1>1
    <3>2. name[k] # "backslash" /\ name[k] # "backtick"
      BY <1>1 DEF Letters
    <3>3. Read(inside, name[k]) = inside
      BY <3>2, ReadLiteral
    <3> QED
      BY <3>1, <3>3
  <2>4. \A k \in 0..Len(name) : f[k] = g[k]
    <3> HIDE DEF f, g
    <3>1. Reads(f, name, Len(name)) /\ Reads(g, name, Len(name))
      BY <2>2, <2>3 DEF Reads
    <3> QED
      BY <1>1, <2>1, <3>1, Determined
  <2> QED
    BY <2>4
<1>10. Lexed(t)[Len(t)] = <<"code">>
  <2>1. /\ Len(t) \in 1..Len(t) /\ Len(t) - 1 = Len(name) + 1
        /\ Len(name) \in 0..Len(name)
    BY <1>1, <1>6
  <2>2. Lexed(t)[Len(t)] = Read(Lexed(t)[Len(t) - 1], t[Len(t)])
    BY <1>8, <2>1 DEF Follows
  <2>3. Lexed(t)[Len(t)] = Read(inside, "backtick")
    BY <1>6, <1>9, <2>1, <2>2
  <2> QED
    BY <2>3, ReadLiteral
<1>11. ASSUME NEW k \in 1..Len(t) PROVE t[k] \notin {"?", ":tenant"}
  <2>1. CASE k = 1 \/ k = Len(name) + 2
    BY <1>6, <2>1
  <2>2. CASE k # 1 /\ k # Len(name) + 2
    <3>1. k - 1 \in 1..Len(name) /\ (k - 1) + 1 = k
      BY <1>1, <1>6, <2>2
    <3>2. t[k] \in Letters
      BY <1>1, <1>6, <3>1
    <3> QED
      BY <3>2 DEF Letters
  <2> QED
    BY <2>1, <2>2
<1> QED
  BY <1>5, <1>7, <1>10, <1>11 DEF Quiet

\* One symbol more.
LEMMA OneSymbolMore ==
  ASSUME NEW s \in Seq(Symbols), NEW c \in Symbols
  PROVE  /\ s \o <<c>> \in Seq(Symbols) /\ Len(s \o <<c>>) = Len(s) + 1
         /\ (s \o <<c>>)[Len(s) + 1] = c
         /\ \A k \in 1..Len(s) : (s \o <<c>>)[k] = s[k]
<1>1. PICK m \in Seq(Symbols) : m = <<c>> /\ Len(m) = 1 /\ m[1] = c
  <2>1. <<c>> \in Seq(Symbols) /\ Len(<<c>>) = 1 /\ <<c>>[1] = c
    OBVIOUS
  <2> QED
    BY <2>1
<1>2. /\ s \o m \in Seq(Symbols) /\ Len(s \o m) = Len(s) + Len(m)
      /\ \A k \in 1..Len(s) : (s \o m)[k] = s[k]
      /\ \A k \in 1..Len(m) : (s \o m)[Len(s) + k] = m[k]
  BY Joined
<1>3. (s \o m)[Len(s) + 1] = c
  BY <1>1, <1>2
<1> QED
  BY <1>1, <1>2, <1>3

\* Spaces and letters are without places, and so is nothing at all.
LEMMA QuietWord ==
  ASSUME NEW t \in Seq(Symbols), \A k \in 1..Len(t) : t[k] \in {"letter", "space"}
  PROVE  Quiet(t)
<1>1. \A k \in 1..Len(t) : t[k] \notin Quotes \cup {"dash", "slash"} /\ t[k] \notin {"?", ":tenant"}
  BY DEF Quotes
<1>2. \A k \in 0..Len(t) : Lexed(t)[k] = <<"code">>
  BY <1>1, CodeThroughout
<1>3. Len(t) \in 0..Len(t)
  OBVIOUS
<1> QED
  BY <1>1, <1>2, <1>3 DEF Quiet

\* Items without places, in a row, are without places.
LEMMA QuietListed ==
  ASSUME NEW items \in Seq(Seq(Symbols)), \A k \in 1..Len(items) : Quiet(items[k])
  PROVE  Quiet(Listed(items))
<1>1. PICK f : Builds(f, items, Len(items)) /\ Listed(items) = f[Len(items)]
  BY ListedBuilds
<1>2. Len(items) \in Nat
  OBVIOUS
<1> DEFINE Other == {n \in 0..Len(items) : ~Quiet(f[n])}
<1>3. SUFFICES ASSUME Other # {} PROVE FALSE
  <2>1. Len(items) \in 0..Len(items)
    BY <1>2
  <2> QED
    BY <1>1, <2>1
<1>4. PICK n \in Other : \A j \in Other : n <= j
  <2>1. Other \in SUBSET Nat
    BY <1>2
  <2> HIDE DEF Other
  <2> QED
    BY <1>3, <2>1, LeastNatural
<1>5. n # 0
  <2>1. Quiet(<<>>)
    <3>1. <<>> \in Seq(Symbols) /\ Len(<<>>) = 0
      OBVIOUS
    <3>2. PICK t \in Seq(Symbols) : t = <<>> /\ Len(t) = 0
      BY <3>1
    <3>3. \A k \in 1..Len(t) : t[k] \in {"letter", "space"}
      BY <3>2
    <3> QED
      BY <3>2, <3>3, QuietWord
  <2> QED
    BY <1>1, <1>4, <2>1 DEF Builds
<1>6. n \in 1..Len(items) /\ n - 1 \in 0..Len(items) /\ n - 1 < n /\ ~Quiet(f[n])
  BY <1>2, <1>4, <1>5
<1>7. Quiet(f[n - 1])
  <2>1. \A j \in Other : n <= j
    BY <1>4
  <2>2. n - 1 \notin Other
    <3> HIDE DEF Other
    <3> QED
      BY <1>6, <2>1
  <2> QED
    BY <1>6, <2>2
<1>8. Quiet(<<"space">>)
  <2>1. PICK t \in Seq(Symbols) : t = <<"space">> /\ Len(t) = 1 /\ t[1] = "space"
    <3>1. "space" \in Symbols
      BY DEF Symbols
    <3>2. <<"space">> \in Seq(Symbols) /\ Len(<<"space">>) = 1 /\ <<"space">>[1] = "space"
      BY <3>1
    <3> QED
      BY <3>2
  <2>2. \A k \in 1..Len(t) : t[k] \in {"letter", "space"}
    BY <2>1
  <2> QED
    BY <2>1, <2>2, QuietWord
<1>9. PICK a : a = f[n - 1] \o <<"space">>
  OBVIOUS
<1>10. Quiet(a)
  BY <1>7, <1>8, <1>9, QuietJoined
<1>11. Quiet(a \o items[n])
  BY <1>6, <1>10, QuietJoined
<1>12. f[n] = a \o items[n]
  BY <1>1, <1>6, <1>9 DEF Builds
<1> QED
  BY <1>6, <1>11, <1>12

\* Placeholders and markers in a row: one after each space.
LEMMA RowIs ==
  ASSUME NEW items \in Seq(Seq(Symbols)),
         \A k \in 1..Len(items) : items[k] = <<"?">> \/ items[k] = <<":tenant">>
  PROVE  /\ Listed(items) \in Seq(Symbols) /\ Len(Listed(items)) = 2 * Len(items)
         /\ \A k \in 1..Len(items) : /\ Listed(items)[(2 * k) - 1] = "space"
                                     /\ Listed(items)[2 * k] = items[k][1]
<1>1. PICK f : Builds(f, items, Len(items)) /\ Listed(items) = f[Len(items)]
  BY ListedBuilds
<1>2. Len(items) \in Nat
  OBVIOUS
<1> DEFINE Good(n) == /\ f[n] \in Seq(Symbols) /\ Len(f[n]) = 2 * n
                      /\ \A k \in 1..n : /\ f[n][(2 * k) - 1] = "space"
                                         /\ f[n][2 * k] = items[k][1]
           Other == {n \in 0..Len(items) : ~Good(n)}
<1>3. ASSUME Other # {} PROVE FALSE
  <2>1. PICK n \in Other : \A j \in Other : n <= j
    <3>1. Other \in SUBSET Nat
      BY <1>2
    <3> HIDE DEF Other
    <3> QED
      BY <1>3, <3>1, LeastNatural
  <2>2. n # 0
    <3>1. f[0] = <<>>
      BY <1>1 DEF Builds
    <3>2. Good(0)
      BY <3>1
    <3> HIDE DEF Good
    <3> QED
      BY <2>1, <3>2
  <2>3. n \in 1..Len(items) /\ n \in Nat /\ n - 1 \in 0..Len(items) /\ n - 1 < n /\ ~Good(n)
    <3> HIDE DEF Good
    <3> QED
      BY <1>2, <2>1, <2>2
  <2>4. Good(n - 1)
    <3>1. \A j \in Other : n <= j
      BY <2>1
    <3>2. n - 1 \notin Other
      <4> HIDE DEF Other
      <4> QED
        BY <2>3, <3>1
    <3> HIDE DEF Good
    <3> QED
      BY <2>3, <3>2
  <2>5. PICK s \in Seq(Symbols) : s = f[n - 1]
    BY <2>4
  <2>6. /\ Len(s) = 2 * (n - 1)
        /\ \A k \in 1..(n - 1) : s[(2 * k) - 1] = "space" /\ s[2 * k] = items[k][1]
    BY <2>4, <2>5
  <2>7. PICK a \in Seq(Symbols) : /\ a = s \o <<"space">> /\ Len(a) = Len(s) + 1
                                  /\ a[Len(s) + 1] = "space"
                                  /\ \A k \in 1..Len(s) : a[k] = s[k]
    <3>1. PICK c \in Symbols : c = "space"
      BY DEF Symbols
    <3> QED
      BY <3>1, OneSymbolMore
  <2>8. PICK c \in Symbols : items[n] = <<c>>
    <3>1. "?" \in Symbols /\ ":tenant" \in Symbols
      BY DEF Symbols
    <3> QED
      BY <2>3, <3>1
  <2>9. PICK b \in Seq(Symbols) : /\ b = a \o <<c>> /\ Len(b) = Len(a) + 1
                                  /\ b[Len(a) + 1] = c
                                  /\ \A k \in 1..Len(a) : b[k] = a[k]
    BY OneSymbolMore
  <2>10. b = f[n]
    BY <1>1, <2>3, <2>5, <2>7, <2>8, <2>9 DEF Builds
  <2>11. Len(b) = 2 * n /\ Len(a) = (2 * n) - 1 /\ Len(s) = (2 * n) - 2
    BY <2>3, <2>6, <2>7, <2>9
  <2>12. ASSUME NEW k \in 1..n PROVE b[(2 * k) - 1] = "space" /\ b[2 * k] = items[k][1]
    <3>1. CASE k = n
      <4>1. b[2 * n] = c /\ items[n][1] = c
        BY <2>3, <2>8, <2>9, <2>11
      <4>2. Len(s) + 1 = (2 * n) - 1 /\ (2 * n) - 1 \in 1..Len(a)
        BY <2>3, <2>11
      <4>3. b[(2 * n) - 1] = "space"
        BY <2>7, <2>9, <4>2
      <4> QED
        BY <3>1, <4>1, <4>3
    <3>2. CASE k # n
      <4>1. /\ k \in 1..(n - 1) /\ 2 * k \in 1..Len(s) /\ 2 * k \in 1..Len(a)
            /\ (2 * k) - 1 \in 1..Len(s) /\ (2 * k) - 1 \in 1..Len(a)
        <5>1. k \in Int /\ 1 <= k /\ k <= n - 1
          BY <2>3, <3>2
        <5>2. Len(s) = (2 * n) - 2 /\ Len(a) = (2 * n) - 1 /\ n \in Int
          BY <2>3, <2>11
        <5>3. 1 <= (2 * k) - 1 /\ 2 * k <= (2 * n) - 2 /\ 2 * k \in Int
          BY <5>1, <5>2
        <5> QED
          BY <5>1, <5>2, <5>3
      <4> QED
        BY <2>6, <2>7, <2>9, <4>1
    <3> QED
      BY <3>1, <3>2
  <2>13. Good(n)
    BY <2>10, <2>11, <2>12
  <2> HIDE DEF Good
  <2> QED
    BY <2>3, <2>13
<1>4. Good(Len(items))
  <2>1. Len(items) \in 0..Len(items) /\ Other = {}
    <3> HIDE DEF Other
    <3> QED
      BY <1>2, <1>3
  <2> HIDE DEF Good
  <2> QED
    BY <2>1
<1> QED
  BY <1>1, <1>4

\* The numbers of every second place.
Even(p, n) == {p + (2 * k) : k \in 1..n}

\* There are as many as it says.
LEMMA EvenCount ==
  ASSUME NEW p \in Nat, NEW n \in Nat
  PROVE  IsFiniteSet(Even(p, n)) /\ Cardinality(Even(p, n)) = n
<1> DEFINE Good(m) == IsFiniteSet(Even(p, m)) /\ Cardinality(Even(p, m)) = m
           Other == {m \in Nat : ~Good(m)}
<1>1. SUFFICES ASSUME Other # {} PROVE FALSE
  OBVIOUS
<1>2. PICK m \in Other : \A j \in Other : m <= j
  <2>1. Other \in SUBSET Nat
    OBVIOUS
  <2> HIDE DEF Other
  <2> QED
    BY <1>1, <2>1, LeastNatural
<1>3. m # 0
  <2>1. Even(p, 0) = {}
    BY DEF Even
  <2>2. Good(0)
    BY <2>1, FS_EmptySet
  <2> HIDE DEF Good
  <2> QED
    BY <1>2, <2>2
<1>4. m \in Nat /\ m - 1 \in Nat /\ m - 1 < m /\ ~Good(m)
  <2> HIDE DEF Good
  <2> QED
    BY <1>2, <1>3
<1>5. Good(m - 1)
  <2>1. \A j \in Other : m <= j
    BY <1>2
  <2>2. m - 1 \notin Other
    <3> HIDE DEF Other
    <3> QED
      BY <1>4, <2>1
  <2> HIDE DEF Good
  <2> QED
    BY <1>4, <2>2
<1>6. Even(p, m) = Even(p, m - 1) \cup {p + (2 * m)}
  <2>1. ASSUME NEW x PROVE x \in Even(p, m) <=> x \in Even(p, m - 1) \cup {p + (2 * m)}
    <3>1. \A k : k \in 1..m <=> k \in 1..(m - 1) \/ k = m
      BY <1>3, <1>4
    <3> QED
      BY <3>1, Zenon DEF Even
  <2> QED
    BY <2>1
<1>7. p + (2 * m) \notin Even(p, m - 1)
  BY <1>4 DEF Even
<1>8. Good(m)
  BY <1>4, <1>5, <1>6, <1>7, FS_AddElement
<1> HIDE DEF Good
<1> QED
  BY <1>4, <1>8

\* An item in front of a row of items.
LEMMA ItemsIn ==
  ASSUME NEW x \in Seq(Symbols), NEW c \in Seq(Seq(Symbols))
  PROVE  /\ <<x>> \o c \in Seq(Seq(Symbols)) /\ Len(<<x>> \o c) = Len(c) + 1
         /\ (<<x>> \o c)[1] = x
         /\ \A k \in 1..Len(c) : (<<x>> \o c)[k + 1] = c[k]
<1>1. PICK S : S = Seq(Symbols)
  OBVIOUS
<1>2. PICK one \in Seq(S) : one = <<x>> /\ Len(one) = 1 /\ one[1] = x
  <2>1. <<x>> \in Seq(S) /\ Len(<<x>>) = 1 /\ <<x>>[1] = x
    BY <1>1
  <2> QED
    BY <2>1
<1>3. /\ one \o c \in Seq(S) /\ Len(one \o c) = Len(one) + Len(c)
      /\ \A k \in 1..Len(one) + Len(c) :
           (one \o c)[k] = IF k <= Len(one) THEN one[k] ELSE c[k - Len(one)]
  BY <1>1, ConcatProperties
<1>4. Len(c) \in Nat
  OBVIOUS
<1>5. (one \o c)[1] = x
  BY <1>2, <1>3, <1>4
<1>6. ASSUME NEW k \in 1..Len(c) PROVE (one \o c)[k + 1] = c[k]
  <2>1. k + 1 \in 1..Len(one) + Len(c) /\ ~(k + 1 <= Len(one)) /\ (k + 1) - Len(one) = k
    BY <1>2, <1>4
  <2> QED
    BY <1>3, <2>1
<1> QED
  BY <1>1, <1>2, <1>3, <1>4, <1>5, <1>6

\* The text of an insert: a part without places, and then a row with the marker
\* and a placeholder for each column.
LEMMA InsertTextIs ==
  ASSUME NEW s \in Inserts, SafeInsert(s)
  PROVE  \E h, b : /\ InsertText(s.table, s.columns) = h \o b /\ Quiet(h)
                   /\ b \in Seq(Symbols) /\ Len(b) = 2 * (Len(s.columns) + 1)
                   /\ \A k \in 1..(Len(s.columns) + 1) :
                        /\ b[(2 * k) - 1] = "space"
                        /\ b[2 * k] = IF k = 1 THEN ":tenant" ELSE "?"
<1>1. /\ s.table \in Seq(Symbols) /\ s.columns \in Seq(Seq(Symbols))
      /\ DOMAIN s.columns = 1..Len(s.columns) /\ Len(s.columns) \in Nat
  <2>1. s.table \in Seq(Symbols) /\ s.columns \in Seq(Seq(Symbols))
    BY InsertAssumption
  <2> QED
    BY <2>1, LenProperties
<1> DEFINE n == Len(s.columns)
           quoted == [k \in DOMAIN s.columns |-> Quoted(s.columns[k])]
           asked == [k \in DOMAIN s.columns |-> <<"?">>]
<1>2. \A k \in 1..n : s.columns[k] \in Seq(Symbols) /\ Quiet(Quoted(s.columns[k]))
  <2> SUFFICES ASSUME NEW k \in 1..n
               PROVE  s.columns[k] \in Seq(Symbols) /\ Quiet(Quoted(s.columns[k]))
    OBVIOUS
  <2>1. s.columns[k] \in Seq(Symbols)
    BY <1>1
  <2>2. SafeName(s.columns[k])
    BY <1>1 DEF SafeInsert
  <2> QED
    BY <2>1, <2>2, QuietQuoted
<1>3. quoted \in Seq(Seq(Symbols)) /\ Len(quoted) = n /\ \A k \in 1..n : Quiet(quoted[k])
  <2>1. \A k \in 1..n : Quoted(s.columns[k]) \in Seq(Symbols)
    BY <1>2 DEF Quiet
  <2>2. quoted = [k \in 1..n |-> Quoted(s.columns[k])]
    BY <1>1
  <2> QED
    BY <1>1, <1>2, <2>1, <2>2
<1>4. asked \in Seq(Seq(Symbols)) /\ Len(asked) = n /\ \A k \in 1..n : asked[k] = <<"?">>
  <2>1. <<"?">> \in Seq(Symbols)
    <3>1. "?" \in Symbols
      BY DEF Symbols
    <3> QED
      BY <3>1
  <2>2. asked = [k \in 1..n |-> <<"?">>]
    BY <1>1
  <2> QED
    BY <1>1, <2>1, <2>2
<1>5. PICK x \in Seq(Symbols) : x = Quoted(<<"tenant_id">>) /\ Quiet(x)
  <2>1. PICK t \in Seq(Symbols) : t = <<"tenant_id">> /\ Len(t) = 1 /\ t[1] = "tenant_id"
    <3>1. "tenant_id" \in Symbols
      BY DEF Symbols, Letters
    <3>2. /\ <<"tenant_id">> \in Seq(Symbols) /\ Len(<<"tenant_id">>) = 1
          /\ <<"tenant_id">>[1] = "tenant_id"
      BY <3>1
    <3> QED
      BY <3>2
  <2>2. SafeName(t)
    <3>1. DOMAIN t = 1..1 /\ t # <<>>
      BY <2>1
    <3> QED
      BY <2>1, <3>1 DEF SafeName, Letters
  <2> QED
    BY <2>1, <2>2, QuietQuoted DEF Quiet
<1>6. PICK y \in Seq(Symbols) : y = <<":tenant">>
  <2>1. ":tenant" \in Symbols
    BY DEF Symbols
  <2>2. <<":tenant">> \in Seq(Symbols)
    BY <2>1
  <2> QED
    BY <2>2
<1>7. PICK cs \in Seq(Seq(Symbols)) : cs = quoted
  BY <1>3
<1>8. PICK qs \in Seq(Seq(Symbols)) : qs = asked
  BY <1>4
<1>9. PICK names \in Seq(Seq(Symbols)) :
        names = <<x>> \o cs /\ \A k \in 1..Len(names) : Quiet(names[k])
  <2>1. /\ <<x>> \o cs \in Seq(Seq(Symbols)) /\ Len(<<x>> \o cs) = Len(cs) + 1
        /\ (<<x>> \o cs)[1] = x
        /\ \A k \in 1..Len(cs) : (<<x>> \o cs)[k + 1] = cs[k]
    BY ItemsIn
  <2>2. PICK names \in Seq(Seq(Symbols)) : names = <<x>> \o cs
    BY <2>1
  <2>3. ASSUME NEW k \in 1..Len(names) PROVE Quiet(names[k])
    <3>1. CASE k = 1
      BY <1>5, <2>1, <2>2, <3>1
    <3>2. CASE k # 1
      <4>1. k - 1 \in 1..n /\ (k - 1) + 1 = k
        BY <1>1, <1>3, <1>7, <2>1, <2>2, <3>2
      <4>2. names[k] = cs[k - 1]
        BY <1>3, <1>7, <2>1, <2>2, <4>1
      <4> QED
        BY <1>3, <1>7, <4>1, <4>2
    <3> QED
      BY <3>1, <3>2
  <2> QED
    BY <2>2, <2>3
<1>10. PICK places \in Seq(Seq(Symbols)) :
         /\ places = <<y>> \o qs /\ Len(places) = n + 1
         /\ \A k \in 1..(n + 1) : places[k] = IF k = 1 THEN <<":tenant">> ELSE <<"?">>
  <2>1. /\ <<y>> \o qs \in Seq(Seq(Symbols)) /\ Len(<<y>> \o qs) = Len(qs) + 1
        /\ (<<y>> \o qs)[1] = y
        /\ \A k \in 1..Len(qs) : (<<y>> \o qs)[k + 1] = qs[k]
    BY ItemsIn
  <2>2. PICK places \in Seq(Seq(Symbols)) : places = <<y>> \o qs
    BY <2>1
  <2>3. ASSUME NEW k \in 1..(n + 1)
        PROVE  places[k] = IF k = 1 THEN <<":tenant">> ELSE <<"?">>
    <3>1. CASE k = 1
      BY <1>6, <2>1, <2>2, <3>1
    <3>2. CASE k # 1
      <4>1. k - 1 \in 1..n /\ (k - 1) + 1 = k
        BY <1>1, <3>2
      <4>2. places[k] = qs[k - 1]
        BY <1>4, <1>8, <2>1, <2>2, <4>1
      <4> QED
        BY <1>4, <1>8, <3>2, <4>1, <4>2
    <3> QED
      BY <3>1, <3>2
  <2>4. Len(places) = n + 1
    BY <1>4, <1>8, <2>1, <2>2
  <2> QED
    BY <2>2, <2>3, <2>4
<1>11. PICK w \in Seq(Symbols), z \in Seq(Symbols) :
         w = <<"letter", "space">> /\ z = <<"space", "letter">> /\ Quiet(w) /\ Quiet(z)
  <2>1. "letter" \in Symbols /\ "space" \in Symbols
    BY DEF Symbols, Letters
  <2>2. /\ <<"letter", "space">> \in Seq(Symbols) /\ <<"space", "letter">> \in Seq(Symbols)
        /\ Len(<<"letter", "space">>) = 2 /\ Len(<<"space", "letter">>) = 2
        /\ \A k \in 1..2 : <<"letter", "space">>[k] \in {"letter", "space"}
        /\ \A k \in 1..2 : <<"space", "letter">>[k] \in {"letter", "space"}
    BY <2>1
  <2>3. PICK w \in Seq(Symbols), z \in Seq(Symbols) :
          /\ w = <<"letter", "space">> /\ z = <<"space", "letter">>
          /\ \A k \in 1..Len(w) : w[k] \in {"letter", "space"}
          /\ \A k \in 1..Len(z) : z[k] \in {"letter", "space"}
    BY <2>2
  <2>4. Quiet(w) /\ Quiet(z)
    BY <2>3, QuietWord
  <2> QED
    BY <2>3, <2>4
<1>12. PICK a, l, b, h1, h2, h :
         /\ a = Quoted(s.table) /\ l = Listed(names) /\ b = Listed(places)
         /\ h1 = w \o a /\ h2 = h1 \o l /\ h = h2 \o z
  OBVIOUS
<1>13. Quiet(h)
  <2>1. Quiet(a)
    BY <1>1, <1>12, QuietQuoted DEF SafeInsert
  <2>2. Quiet(l)
    BY <1>9, <1>12, QuietListed
  <2>3. Quiet(h1)
    BY <1>11, <1>12, <2>1, QuietJoined
  <2>4. Quiet(h2)
    BY <1>12, <2>2, <2>3, QuietJoined
  <2> QED
    BY <1>11, <1>12, <2>4, QuietJoined
<1>14. /\ b \in Seq(Symbols) /\ Len(b) = 2 * (n + 1)
       /\ \A k \in 1..(n + 1) : /\ b[(2 * k) - 1] = "space"
                                /\ b[2 * k] = IF k = 1 THEN ":tenant" ELSE "?"
  <2>1. \A k \in 1..Len(places) : places[k] = <<"?">> \/ places[k] = <<":tenant">>
    BY <1>10
  <2>2. /\ b \in Seq(Symbols) /\ Len(b) = 2 * Len(places)
        /\ \A k \in 1..Len(places) : b[(2 * k) - 1] = "space" /\ b[2 * k] = places[k][1]
    BY <1>12, <2>1, RowIs
  <2>3. \A k \in 1..(n + 1) : places[k][1] = IF k = 1 THEN ":tenant" ELSE "?"
    BY <1>10
  <2> QED
    BY <1>10, <2>2, <2>3
<1>15. InsertText(s.table, s.columns) = h \o b
  BY <1>5, <1>6, <1>7, <1>8, <1>9, <1>10, <1>11, <1>12 DEF InsertText
<1> QED
  BY <1>13, <1>14, <1>15

\* Where the text of an insert has its places.
LEMMA InsertPlaces ==
  ASSUME NEW s \in Inserts, SafeInsert(s)
  PROVE  \E t \in Seq(Symbols), p \in Nat :
           /\ t = InsertText(s.table, s.columns)
           /\ Places(t) = Even(p, Len(s.columns) + 1)
           /\ Markers(t) = {p + 2}
           /\ Questions(t) = Even(p + 2, Len(s.columns))
<1>1. PICK h, b : /\ InsertText(s.table, s.columns) = h \o b /\ Quiet(h)
                  /\ b \in Seq(Symbols) /\ Len(b) = 2 * (Len(s.columns) + 1)
                  /\ \A k \in 1..(Len(s.columns) + 1) :
                       /\ b[(2 * k) - 1] = "space"
                       /\ b[2 * k] = IF k = 1 THEN ":tenant" ELSE "?"
  BY InsertTextIs
<1>2. PICK n \in Nat : n = Len(s.columns) + 1 /\ 1 <= n
  <2>1. s.columns \in Seq(Seq(Symbols))
    BY InsertAssumption
  <2>2. Len(s.columns) \in Nat
    BY <2>1, LenProperties
  <2> QED
    BY <2>2
<1>3. h \in Seq(Symbols) /\ Lexed(h)[Len(h)] = <<"code">> /\ \A k \in 1..Len(h) : h[k] \notin {"?", ":tenant"}
  BY <1>1 DEF Quiet
<1>4. PICK p \in Nat : p = Len(h)
  BY <1>3, LenProperties
<1>5. PICK t \in Seq(Symbols) : t = h \o b
  BY <1>1, <1>3, Joined
<1>6. /\ Len(t) = p + (2 * n)
      /\ \A k \in 1..p : t[k] = h[k]
      /\ \A k \in 1..(2 * n) : t[p + k] = b[k]
  <2>1. /\ Len(t) = Len(h) + Len(b)
        /\ \A k \in 1..Len(h) : t[k] = h[k]
        /\ \A k \in 1..Len(b) : t[Len(h) + k] = b[k]
    <3>1. h \in Seq(Symbols) /\ b \in Seq(Symbols)
      BY <1>1, <1>3
    <3>2. /\ Len(h \o b) = Len(h) + Len(b)
          /\ \A k \in 1..Len(h) : (h \o b)[k] = h[k]
          /\ \A k \in 1..Len(b) : (h \o b)[Len(h) + k] = b[k]
      BY <3>1, Joined
    <3> QED
      BY <1>5, <3>2
  <2>2. Len(b) = 2 * n
    BY <1>1, <1>2
  <2> QED
    BY <1>4, <2>1, <2>2
<1>7. \A k \in 1..n : b[(2 * k) - 1] = "space" /\ b[2 * k] = IF k = 1 THEN ":tenant" ELSE "?"
  BY <1>1, <1>2
<1>8. ASSUME NEW m \in 1..(2 * n)
      PROVE  \E k \in 1..n : m = 2 * k \/ m = (2 * k) - 1
  <2>1. PICK k \in Int : k = (m + 1) \div 2
    OBVIOUS
  <2>2. k \in 1..n /\ (m = 2 * k \/ m = (2 * k) - 1)
    BY <2>1
  <2> QED
    BY <2>2
<1>9. \A m \in 1..(2 * n) : b[m] \in {"space", "?", ":tenant"}
  <2> SUFFICES ASSUME NEW m \in 1..(2 * n) PROVE b[m] \in {"space", "?", ":tenant"}
    OBVIOUS
  <2>1. PICK k \in 1..n : m = 2 * k \/ m = (2 * k) - 1
    BY <1>8
  <2> QED
    BY <1>7, <2>1
<1>10. \A k \in 0..(2 * n) : Lexed(t)[p + k] = <<"code">>
  <2>1. \A k \in 1..Len(b) : b[k] \notin Quotes \cup {"dash", "slash"}
    BY <1>1, <1>2, <1>9 DEF Quotes
  <2>2. \A k \in 0..Len(b) : Lexed(b)[k] = <<"code">>
    BY <1>1, <2>1, CodeThroughout
  <2>3. \A k \in 0..Len(b) : Lexed(t)[p + k] = Lexed(b)[k]
    BY <1>1, <1>3, <1>4, <1>5, LexedJoined
  <2> QED
    BY <1>1, <1>2, <2>2, <2>3
<1>11. ASSUME NEW k \in 1..n
       PROVE  p + (2 * k) \in Places(t) /\ t[p + (2 * k)] = IF k = 1 THEN ":tenant" ELSE "?"
  <2>1. PICK j \in Nat : j = p + (2 * k)
    OBVIOUS
  <2>2. 2 * k \in 1..(2 * n) /\ (2 * k) - 1 \in 0..(2 * n) /\ j \in 1..Len(t)
    BY <1>6, <2>1
  <2>3. t[j] = IF k = 1 THEN ":tenant" ELSE "?"
    BY <1>6, <1>7, <2>1, <2>2
  <2>4. InCode(Lexed(t)[j - 1])
    <3>1. j - 1 = p + ((2 * k) - 1)
      BY <2>1
    <3> QED
      BY <1>10, <2>2, <3>1, CodeModes
  <2>5. t[j] = ":tenant" => ~(j < Len(t) /\ t[j + 1] \in Letters)
    <3> SUFFICES ASSUME t[j] = ":tenant", j < Len(t), t[j + 1] \in Letters PROVE FALSE
      OBVIOUS
    <3>1. k = 1 /\ j + 1 = p + 3
      BY <2>1, <2>3
    <3>2. 2 \in 1..n /\ 3 \in 1..(2 * n)
      BY <1>6, <2>1, <3>1
    <3>3. (2 * 2) - 1 = 3
      OBVIOUS
    <3>4. t[p + 3] = b[3] /\ b[(2 * 2) - 1] = "space"
      BY <1>6, <1>7, <3>2
    <3>5. t[j + 1] = "space"
      BY <3>1, <3>3, <3>4
    <3> QED
      BY <3>5 DEF Letters
  <2>6. j \in Places(t)
    BY <2>2, <2>3, <2>4, <2>5 DEF Places
  <2> QED
    BY <2>1, <2>3, <2>6
<1>12. ASSUME NEW j \in Places(t) PROVE \E k \in 1..n : j = p + (2 * k)
  <2>1. j \in 1..Len(t) /\ t[j] \in {"?", ":tenant"}
    BY DEF Places
  <2>2. ~(j <= p)
    <3> SUFFICES ASSUME j <= p PROVE FALSE
      OBVIOUS
    <3>1. j \in 1..Len(h) /\ t[j] = h[j]
      BY <1>4, <1>6, <2>1
    <3> QED
      BY <1>3, <2>1, <3>1
  <2>3. PICK m \in 1..(2 * n) : j = p + m
    <3>1. j - p \in 1..(2 * n) /\ j = p + (j - p)
      BY <1>6, <2>1, <2>2
    <3> QED
      BY <3>1
  <2>4. PICK k \in 1..n : m = 2 * k \/ m = (2 * k) - 1
    BY <1>8
  <2>5. m # (2 * k) - 1
    BY <1>6, <1>7, <2>1, <2>3
  <2> QED
    BY <2>3, <2>4, <2>5
<1>13. Places(t) = Even(p, n)
  BY <1>11, <1>12 DEF Even
<1>14. Markers(t) = {p + 2}
  <2>1. 1 \in 1..n /\ p + (2 * 1) = p + 2
    BY <1>2
  <2>2. p + 2 \in Places(t) /\ t[p + 2] = ":tenant"
    BY <1>11, <2>1
  <2>3. ASSUME NEW j \in Places(t), t[j] = ":tenant" PROVE j = p + 2
    <3>1. PICK k \in 1..n : j = p + (2 * k)
      BY <1>12
    <3>2. k = 1
      BY <1>11, <2>3, <3>1
    <3> QED
      BY <3>1, <3>2
  <2> QED
    BY <2>2, <2>3 DEF Markers
<1>15. Questions(t) = Even(p + 2, n - 1)
  <2>1. ASSUME NEW j \in Questions(t) PROVE j \in Even(p + 2, n - 1)
    <3>1. j \in Places(t) /\ j # p + 2
      BY <1>14 DEF Questions
    <3>2. PICK k \in 1..n : j = p + (2 * k)
      BY <1>12, <3>1
    <3>3. k - 1 \in 1..(n - 1) /\ j = (p + 2) + (2 * (k - 1))
      BY <3>1, <3>2
    <3> QED
      BY <3>3 DEF Even
  <2>2. ASSUME NEW j \in Even(p + 2, n - 1) PROVE j \in Questions(t)
    <3>1. PICK k \in 1..(n - 1) : j = (p + 2) + (2 * k)
      BY DEF Even
    <3>2. k + 1 \in 1..n /\ j = p + (2 * (k + 1)) /\ j # p + 2
      BY <3>1
    <3>3. j \in Places(t)
      BY <1>11, <3>2
    <3> QED
      BY <1>14, <3>2, <3>3 DEF Questions
  <2> QED
    BY <2>1, <2>2
<1>16. n - 1 = Len(s.columns)
  BY <1>2
<1> QED
  BY <1>1, <1>2, <1>5, <1>13, <1>14, <1>15, <1>16

\* A place's rank among every second one.
LEMMA EvenRank ==
  ASSUME NEW p \in Nat, NEW n \in Nat, NEW k \in 1..n
  PROVE  Rank(Even(p, n), p + (2 * k)) = k
<1>1. {j \in Even(p, n) : j <= p + (2 * k)} = Even(p, k)
  <2>1. ASSUME NEW j \in Even(p, n), j <= p + (2 * k) PROVE j \in Even(p, k)
    <3>1. PICK m \in 1..n : j = p + (2 * m)
      BY DEF Even
    <3>2. m \in 1..k
      BY <2>1, <3>1
    <3> QED
      BY <3>1, <3>2 DEF Even
  <2>2. ASSUME NEW j \in Even(p, k) PROVE j \in Even(p, n) /\ j <= p + (2 * k)
    <3>1. PICK m \in 1..k : j = p + (2 * m)
      BY DEF Even
    <3>2. m \in 1..n /\ j <= p + (2 * k)
      BY <3>1
    <3> QED
      BY <3>1, <3>2 DEF Even
  <2> QED
    BY <2>1, <2>2
<1>2. k \in Nat
  OBVIOUS
<1> QED
  BY <1>1, <1>2, EvenCount DEF Rank

\* Before the first call.
LEMMA InitInStep == Init => ScanInv /\ Asked
<1> SUFFICES ASSUME Init PROVE ScanInv /\ Asked
  OBVIOUS
<1>1. /\ pc = "idle" /\ text = <<>> /\ i = 1 /\ quote = None /\ out = <<>> /\ bound = <<>>
      /\ used = 0 /\ refs = 0
  BY DEF Init
<1>2. TypeOK
  BY <1>1 DEF TypeOK
<1> QED
  BY <1>1, <1>2 DEF ScanInv, Begun, Agreed, SentBound, Judged, Asked

\* A blank statement has no marker.
LEMMA RunInStep ==
  ASSUME ScanInv, Run
  PROVE  ScanInv' /\ Asked'
<1>1. PICK t \in Texts, p \in ParamLists :
        /\ call' = [op |-> "run", params |-> p] /\ text' = t
        /\ \/ t \in Seq({"space", "newline"}) /\ Refuse
           \/ t \notin Seq({"space", "newline"}) /\ pc' = "scan"
  BY DEF Run
<1>2. /\ pc = "idle" /\ UNCHANGED scan /\ pc' \in {"scan", "refused"}
      /\ t \in Seq(Symbols) /\ call'.params \in Seq(Nat) /\ call'.op = "run"
  BY <1>1, StatementAssumption DEF Run, Refuse
<1>3. pc' = "refused" => Markers(t) = {}
  <2> SUFFICES ASSUME pc' = "refused" PROVE Markers(t) = {}
    OBVIOUS
  <2>1. t \in Seq({"space", "newline"})
    BY <1>1
  <2>2. \A k \in 1..Len(t) : t[k] \in {"space", "newline"}
    BY <2>1
  <2> QED
    BY <2>2 DEF Markers, Places
<1>4. ScanInv'
  BY <1>1, <1>2, <1>3, CallInStep
<1> QED
  BY <1>2, <1>4 DEF Asked

\* An insert is refused before it has a text.
LEMMA InsertInStep ==
  ASSUME ScanInv, Insert
  PROVE  ScanInv' /\ Asked'
<1>1. PICK s \in Inserts :
        /\ call' = [op |-> "insert", columns |-> s.columns, params |-> s.params]
        /\ \/ ~SafeInsert(s) /\ Refuse /\ UNCHANGED text
           \/ SafeInsert(s) /\ text' = InsertText(s.table, s.columns) /\ pc' = "scan"
  BY DEF Insert, SafeInsert
<1>2. /\ pc = "idle" /\ UNCHANGED scan /\ text = <<>>
      /\ call'.params = s.params /\ call'.columns = s.columns /\ s.params \in Seq(Nat)
  BY <1>1, InsertAssumption DEF Insert, ScanInv, Begun
<1>3. CASE Refuse /\ UNCHANGED text
  <2>1. PICK t \in Seq(Symbols) : t = <<>> /\ Len(t) = 0
    <3>1. <<>> \in Seq(Symbols) /\ Len(<<>>) = 0
      OBVIOUS
    <3> QED
      BY <3>1
  <2>2. Markers(t) = {} /\ text' = t /\ pc' = "refused"
    BY <1>2, <1>3, <2>1 DEF Markers, Places, Refuse
  <2>3. ScanInv'
    BY <1>2, <2>2, CallInStep
  <2> QED
    BY <1>2, <1>3, <2>3 DEF Asked
<1>4. CASE SafeInsert(s) /\ text' = InsertText(s.table, s.columns) /\ pc' = "scan"
  <2>1. PICK t \in Seq(Symbols) : t = InsertText(s.table, s.columns)
    BY <1>4, InsertPlaces
  <2>2. ScanInv'
    BY <1>2, <1>4, <2>1, CallInStep
  <2> QED
    BY <1>2, <1>4, <2>2 DEF Asked
<1> QED
  BY <1>1, <1>3, <1>4

\* Every step keeps the scan and the database together.
LEMMA ScanSteps ==
  ASSUME ScanInv, Asked, [Next]_vars
  PROVE  ScanInv' /\ Asked'
<1>1. CASE Run
  BY <1>1, RunInStep
<1>2. CASE Insert
  BY <1>2, InsertInStep
<1>3. ASSUME Literal \/ OpenLiteral \/ Comment \/ Placeholder \/ Marker \/ Plain \/ Finish
      PROVE  Asked'
  <2>1. UNCHANGED <<call, text>> /\ pc = "scan"
    BY <1>3 DEF Literal, OpenLiteral, Comment, Placeholder, Marker, Plain, Finish, Keep, Scanning
  <2> QED
    BY <2>1 DEF Asked
<1>4. CASE Literal
  BY <1>3, <1>4, LiteralInStep
<1>5. CASE OpenLiteral
  BY <1>3, <1>5, OpenLiteralInStep
<1>6. CASE Comment
  BY <1>3, <1>6, CommentInStep
<1>7. CASE Placeholder
  BY <1>3, <1>7, PlaceholderInStep
<1>8. CASE Marker
  BY <1>3, <1>8, MarkerInStep
<1>9. CASE Plain
  BY <1>3, <1>9, PlainInStep
<1>10. CASE Finish
  BY <1>3, <1>10, FinishInStep
<1>11. CASE UNCHANGED vars
  <2>1. UNCHANGED <<pc, call, text, i, quote, out, bound, used, refs>> /\ Params' = Params
    BY <1>11 DEF vars, scan, Params
  <2>2. /\ TypeOK' = TypeOK /\ Begun' = Begun /\ InStep' = InStep /\ Copied' = Copied
        /\ Asked' = Asked
    BY <2>1 DEF TypeOK, Begun, InStep, Copied, Done, Asked
  <2>3. Counted' = Counted /\ SentBound' = SentBound /\ Judged' = Judged
    BY <2>1 DEF Counted, SentBound, Judged
  <2> QED
    BY <2>1, <2>2, <2>3 DEF ScanInv, Agreed
<1> QED
  BY <1>1, <1>2, <1>4, <1>5, <1>6, <1>7, <1>8, <1>9, <1>10, <1>11 DEF Next, Finished

LEMMA ScanAlways == Spec => [](ScanInv /\ Asked)
  BY InitInStep, ScanSteps, PTL DEF Spec

\* Whatever the text, the scan takes for code what the database takes for code:
\* what reaches the driver has a value for each placeholder the database sees, the
\* caller's in its order and the tenant at the markers, and is the caller's text
\* otherwise; what is refused has no marker or not as many placeholders as
\* parameters.
THEOREM SentHolds == Spec => []SentAsWritten
<1>1. ScanInv => SentAsWritten
  BY DEF ScanInv, SentAsWritten, SentBound, Judged, BoundAsWritten, RefusedForAReason
<1> QED
  BY <1>1, ScanAlways, PTL

\* Whatever the names, an insert of safe ones is sent with the tenant first and its
\* values behind it, and any other has no text at all.
THEOREM InsertHolds == Spec => []InsertBindsItsRow
<1>1. ASSUME ScanInv, Asked PROVE InsertBindsItsRow
  <2> SUFFICES ASSUME pc \in {"sent", "refused"}, call.op = "insert"
               PROVE  /\ pc = "sent" =>
                           /\ bound = <<Tenant>> \o Params
                           /\ <<"tenant_id">> \notin {call.columns[k] : k \in DOMAIN call.columns}
                           /\ Cardinality(Places(out)) = Len(call.columns) + 1
                      /\ pc = "refused" => text = <<>>
    BY DEF InsertBindsItsRow
  <2>1. CASE text = <<>>
    <3>1. Markers(text) = {}
      <4>1. Len(text) = 0
        BY <2>1
      <4> QED
        BY <4>1 DEF Markers, Places
    <3>2. pc # "sent"
      BY <1>1, <3>1 DEF ScanInv, Judged
    <3> QED
      BY <2>1, <3>2
  <2>2. CASE text # <<>>
    <3>1. PICK s \in Inserts : /\ SafeInsert(s) /\ text = InsertText(s.table, s.columns)
                               /\ call.columns = s.columns /\ call.params = s.params
      BY <1>1, <2>2 DEF Asked
    <3>2. /\ s.params \in Seq(Nat) /\ Len(s.params) = Len(s.columns) /\ Len(s.columns) \in Nat
          /\ Params = s.params
      <4>1. s.columns \in Seq(Seq(Symbols)) /\ s.params \in Seq(Nat)
            /\ Len(s.params) = Len(s.columns)
        BY InsertAssumption
      <4> QED
        BY <3>1, <4>1, LenProperties DEF Params
    <3>3. PICK n \in Nat : n = Len(s.columns)
      BY <3>2
    <3>4. PICK t \in Seq(Symbols), p \in Nat :
            /\ t = text /\ Places(t) = Even(p, n + 1) /\ Markers(t) = {p + 2}
            /\ Questions(t) = Even(p + 2, n)
      BY <3>1, <3>3, InsertPlaces
    <3>5. Cardinality(Questions(t)) = n /\ Cardinality(Places(t)) = n + 1
      BY <3>4, EvenCount
    <3>6. pc = "sent"
      <4>1. Markers(text) # {} /\ Cardinality(Questions(text)) = Len(Params)
        BY <3>2, <3>3, <3>4, <3>5
      <4> QED
        BY <1>1, <4>1 DEF ScanInv, Judged
    <3>7. /\ Places(out) = Places(t) /\ Len(bound) = n + 1 /\ bound \in Seq(Nat)
          /\ \A k \in Places(t) :
               bound[Rank(Places(t), k)] =
                 IF k \in Markers(t) THEN Tenant ELSE Params[Rank(Questions(t), k)]
      BY <1>1, <3>4, <3>5, <3>6 DEF ScanInv, SentBound, TypeOK
    <3>8. ASSUME NEW k \in 1..(n + 1)
          PROVE  bound[k] = IF k = 1 THEN Tenant ELSE Params[k - 1]
      <4>1. Rank(Places(t), p + (2 * k)) = k
        BY <3>4, EvenRank
      <4>2. p + (2 * k) \in Places(t)
        BY <3>4 DEF Even
      <4>3. CASE k = 1
        BY <3>4, <3>7, <4>1, <4>2, <4>3
      <4>4. CASE k # 1
        <5>1. PICK m \in 1..n : m = k - 1
          BY <4>4
        <5>2. PICK q \in Nat : q = p + 2
          OBVIOUS
        <5>3. Rank(Even(q, n), q + (2 * m)) = m
          BY EvenRank
        <5>4. q + (2 * m) = p + (2 * k) /\ p + (2 * k) # p + 2
          BY <4>4, <5>1, <5>2
        <5>5. Rank(Questions(t), p + (2 * k)) = k - 1
          BY <3>4, <5>1, <5>2, <5>3, <5>4
        <5>6. p + (2 * k) \notin Markers(t)
          BY <3>4, <5>4
        <5> QED
          BY <3>7, <4>1, <4>2, <4>4, <5>5, <5>6
      <4> QED
        BY <4>3, <4>4
    <3>9. bound = <<Tenant>> \o Params
      <4>1. PICK one \in Seq(Nat) : one = <<Tenant>> /\ Len(one) = 1 /\ one[1] = Tenant
        <5>1. <<Tenant>> \in Seq(Nat) /\ Len(<<Tenant>>) = 1 /\ <<Tenant>>[1] = Tenant
          BY TenantAssumption
        <5> QED
          BY <5>1
      <4>2. PICK ps \in Seq(Nat) : ps = Params /\ Len(ps) = n
        BY <3>2, <3>3
      <4>3. /\ one \o ps \in Seq(Nat) /\ Len(one \o ps) = Len(one) + Len(ps)
            /\ \A k \in 1..Len(one) + Len(ps) :
                 (one \o ps)[k] = IF k <= Len(one) THEN one[k] ELSE ps[k - Len(one)]
        BY ConcatProperties
      <4>4. Len(one \o ps) = n + 1
        BY <4>1, <4>2, <4>3
      <4>5. ASSUME NEW k \in 1..(n + 1) PROVE (one \o ps)[k] = bound[k]
        <5>1. (one \o ps)[k] = IF k <= 1 THEN one[k] ELSE ps[k - 1]
          BY <4>1, <4>2, <4>3
        <5>2. CASE k = 1
          BY <3>8, <4>1, <5>1, <5>2
        <5>3. CASE k # 1
          <6>1. ~(k <= 1)
            BY <5>3
          <6> QED
            BY <3>8, <4>2, <5>1, <5>3, <6>1
        <5> QED
          BY <5>2, <5>3
      <4>6. one \o ps = bound
        BY <3>7, <4>3, <4>4, <4>5, SeqEqual
      <4> QED
        BY <4>1, <4>2, <4>6
    <3>10. <<"tenant_id">> \notin {call.columns[k] : k \in DOMAIN call.columns}
      BY <3>1 DEF SafeInsert
    <3> QED
      BY <3>1, <3>3, <3>5, <3>6, <3>7, <3>9, <3>10
  <2> QED
    BY <2>1, <2>2
<1> QED
  BY <1>1, ScanAlways, PTL
=============================================================================
