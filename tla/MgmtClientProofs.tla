---------------------------- MODULE MgmtClientProofs ----------------------------
(***************************************************************************)
(* The channel to openvpn: that a reply is for the command it goes to, and *)
(* that a parameter arrives as it was typed, for any callers, parameters   *)
(* and queue sizes.                                                        *)
(***************************************************************************)
EXTENDS MgmtClient, FiniteSetTheorems, SequenceTheorems, WellFoundedInduction, TLAPS

-----------------------------------------------------------------------------
(* Induction over a sequence, and what the recursive functions of          *)
(* MgmtClient compute.                                                     *)

\* A nonempty set of naturals has a least one.
LEMMA LeastNat ==
  ASSUME NEW T \in SUBSET Nat, T # {}
  PROVE  \E k \in T : \A m \in T : k <= m
  <1> DEFINE R == {ss \in Nat \X Nat : ss[1] < ss[2]}
  <1>1. IsWellFoundedOn(R, Nat)
    BY NatLessThanWellFounded DEF OpToRel
  <1>2. PICK k \in T : \A m \in T : ~(<<m, k>> \in R)
    <2> HIDE DEF R
    <2> QED BY Zenon, <1>1, WFMin
  <1>3. \A m \in T : ~(m < k)
    BY Zenon, <1>2
  <1> QED BY <1>3

\* Induction over the first m naturals.
LEMMA IndexInduction ==
  ASSUME NEW m \in Nat, NEW G \in SUBSET (0..m), 0 \in G, \A k \in 1..m : k - 1 \in G => k \in G
  PROVE  \A k \in 0..m : k \in G
  <1> DEFINE Bad == (0..m) \ G
  <1> SUFFICES ASSUME Bad # {} PROVE FALSE
    OBVIOUS
  <1>1. Bad \in SUBSET Nat
    OBVIOUS
  <1>2. PICK k \in Bad : \A j \in Bad : k <= j
    <2> HIDE DEF Bad
    <2> QED BY <1>1, LeastNat
  <1>3. k \in 1..m /\ k - 1 \in 0..m /\ ~(k <= k - 1)
    BY <1>2
  <1>4. k - 1 \in G
    BY <1>2, <1>3
  <1> QED BY <1>2, <1>3, <1>4

\* What escape_param has written after each character of raw.
EscapeTrace(r, raw) ==
    /\ r[0] = <<"q">>
    /\ \A k \in 1..Len(raw) : r[k] = Append(IF raw[k] \in {"q", "b"} THEN Append(r[k - 1], "b")
                                            ELSE r[k - 1], raw[k])
    /\ EscapeParam(raw) = Append(r[Len(raw)], "q")

\* The states of openvpn's lexer over chars.
LexTrace(r, chars) ==
    /\ r[0] = Lexed("start", <<>>)
    /\ \A k \in 1..Len(chars) : r[k] = LexStep(r[k - 1], chars[k])
    /\ Lex(chars) = r[Len(chars)]

\* The actor's state after each half line of a chunk.
RouteTrace(r, s, chunk) ==
    /\ r[0] = s
    /\ \A k \in 1..Len(chunk) : r[k] = RouteNext(r[k - 1], chunk[k])
    /\ Routed(s, chunk) = r[Len(chunk)]

\* The recursion of EscapeParam is defined.
LEMMA EscapeRuns ==
  ASSUME NEW C, NEW raw \in Seq(C)
  PROVE  \E r : EscapeTrace(r, raw)
  <1>1. PICK m \in Nat : m = Len(raw)
    BY LenProperties
  <1>2. PICK first : first = <<"q">>
    BY Zenon
  <1> DEFINE Turn(x, k) == Append(IF raw[k] \in {"q", "b"} THEN Append(x, "b") ELSE x, raw[k])
             Eq(h, n) == h = [k \in 0..n |-> IF k = 0 THEN first ELSE Turn(h[k - 1], k)]
             G == {n \in 0..m : \E h : Eq(h, n)}
             it == CHOOSE h : Eq(h, m)
  <1>3. EscapeParam(raw) = Append(it[m], "q")
    BY <1>1, <1>2 DEF EscapeParam
  <1> HIDE DEF Turn
  <1>4. 0 \in G
    <2> DEFINE g == [k \in 0..0 |-> first]
    <2>1. \A k \in 0..0 : k = 0
      OBVIOUS
    <2>2. Eq(g, 0)
      BY Zenon, <2>1
    <2>3. 0 \in 0..m
      OBVIOUS
    <2> QED BY Zenon, <2>2, <2>3
  <1>5. ASSUME NEW n \in 1..m, n - 1 \in G PROVE n \in G
    <2>1. PICK h : Eq(h, n - 1)
      BY Zenon, <1>5
    <2> DEFINE g == [k \in 0..n |-> IF k = n THEN Turn(h[n - 1], n) ELSE h[k]]
    <2>2. \A k \in 0..n : k # n => k \in 0..(n - 1) /\ (k # 0 => k - 1 \in 0..n /\ k - 1 # n)
      OBVIOUS
    <2>3. n # 0 /\ n - 1 \in 0..n /\ n - 1 # n /\ n \in 0..n /\ n \in 0..m
      OBVIOUS
    <2>4. \A k \in 0..n : g[k] = IF k = 0 THEN first ELSE Turn(g[k - 1], k)
      <3> SUFFICES ASSUME NEW k \in 0..n PROVE g[k] = IF k = 0 THEN first ELSE Turn(g[k - 1], k)
        OBVIOUS
      <3>1. CASE k = n
        BY Zenon, <2>3, <3>1
      <3>2. CASE k # n
        <4>1. g[k] = h[k] /\ (k # 0 => g[k - 1] = h[k - 1])
          BY Zenon, <2>2, <3>2
        <4>2. h[k] = IF k = 0 THEN first ELSE Turn(h[k - 1], k)
          BY Zenon, <2>1, <2>2, <3>2
        <4> QED BY Zenon, <4>1, <4>2
      <3> QED BY <3>1, <3>2
    <2>5. Eq(g, n)
      BY Zenon, <2>4
    <2> QED BY Zenon, <2>3, <2>5
  <1>6. m \in G
    <2>1. G \in SUBSET (0..m) /\ m \in 0..m
      OBVIOUS
    <2> HIDE DEF G
    <2> QED BY SMTT(30), <1>4, <1>5, <2>1, IndexInduction
  <1>7. Eq(it, m)
    BY Zenon, <1>6
  <1> HIDE DEF it
  <1>8. PICK r : r = it
    BY Zenon
  <1>9. 0 \in 0..m /\ \A k \in 1..m : k \in 0..m /\ k # 0
    OBVIOUS
  <1>10. r[0] = first /\ \A k \in 1..m : r[k] = Turn(r[k - 1], k)
    BY Zenon, <1>7, <1>8, <1>9
  <1>11. r[0] = first /\ \A k \in 1..m : r[k] = Append(IF raw[k] \in {"q", "b"} THEN Append(r[k - 1], "b") ELSE r[k - 1], raw[k])
    BY Zenon, <1>10 DEF Turn
  <1> QED BY Zenon, <1>1, <1>2, <1>3, <1>8, <1>11 DEF EscapeTrace

\* The recursion of Lex is defined.
LEMMA LexRuns ==
  ASSUME NEW C, NEW chars \in Seq(C)
  PROVE  \E r : LexTrace(r, chars)
  <1>1. PICK m \in Nat : m = Len(chars)
    BY LenProperties
  <1>2. PICK first : first = Lexed("start", <<>>)
    BY Zenon
  <1> DEFINE Turn(x, k) == LexStep(x, chars[k])
             Eq(h, n) == h = [k \in 0..n |-> IF k = 0 THEN first ELSE Turn(h[k - 1], k)]
             G == {n \in 0..m : \E h : Eq(h, n)}
             it == CHOOSE h : Eq(h, m)
  <1>3. Lex(chars) = it[m]
    BY <1>1, <1>2 DEF Lex
  <1> HIDE DEF Turn
  <1>4. 0 \in G
    <2> DEFINE g == [k \in 0..0 |-> first]
    <2>1. \A k \in 0..0 : k = 0
      OBVIOUS
    <2>2. Eq(g, 0)
      BY Zenon, <2>1
    <2>3. 0 \in 0..m
      OBVIOUS
    <2> QED BY Zenon, <2>2, <2>3
  <1>5. ASSUME NEW n \in 1..m, n - 1 \in G PROVE n \in G
    <2>1. PICK h : Eq(h, n - 1)
      BY Zenon, <1>5
    <2> DEFINE g == [k \in 0..n |-> IF k = n THEN Turn(h[n - 1], n) ELSE h[k]]
    <2>2. \A k \in 0..n : k # n => k \in 0..(n - 1) /\ (k # 0 => k - 1 \in 0..n /\ k - 1 # n)
      OBVIOUS
    <2>3. n # 0 /\ n - 1 \in 0..n /\ n - 1 # n /\ n \in 0..n /\ n \in 0..m
      OBVIOUS
    <2>4. \A k \in 0..n : g[k] = IF k = 0 THEN first ELSE Turn(g[k - 1], k)
      <3> SUFFICES ASSUME NEW k \in 0..n PROVE g[k] = IF k = 0 THEN first ELSE Turn(g[k - 1], k)
        OBVIOUS
      <3>1. CASE k = n
        BY Zenon, <2>3, <3>1
      <3>2. CASE k # n
        <4>1. g[k] = h[k] /\ (k # 0 => g[k - 1] = h[k - 1])
          BY Zenon, <2>2, <3>2
        <4>2. h[k] = IF k = 0 THEN first ELSE Turn(h[k - 1], k)
          BY Zenon, <2>1, <2>2, <3>2
        <4> QED BY Zenon, <4>1, <4>2
      <3> QED BY <3>1, <3>2
    <2>5. Eq(g, n)
      BY Zenon, <2>4
    <2> QED BY Zenon, <2>3, <2>5
  <1>6. m \in G
    <2>1. G \in SUBSET (0..m) /\ m \in 0..m
      OBVIOUS
    <2> HIDE DEF G
    <2> QED BY <1>4, <1>5, <2>1, IndexInduction
  <1>7. Eq(it, m)
    BY Zenon, <1>6
  <1> HIDE DEF it
  <1>8. PICK r : r = it
    BY Zenon
  <1>9. 0 \in 0..m /\ \A k \in 1..m : k \in 0..m /\ k # 0
    OBVIOUS
  <1>10. r[0] = first /\ \A k \in 1..m : r[k] = Turn(r[k - 1], k)
    BY Zenon, <1>7, <1>8, <1>9
  <1>11. r[0] = first /\ \A k \in 1..m : r[k] = LexStep(r[k - 1], chars[k])
    BY Zenon, <1>10 DEF Turn
  <1> QED BY Zenon, <1>1, <1>2, <1>3, <1>8, <1>11 DEF LexTrace

\* The recursion of Routed is defined.
LEMMA RouteRuns ==
  ASSUME NEW s, NEW T, NEW chunk \in Seq(T)
  PROVE  \E r : RouteTrace(r, s, chunk)
  <1>1. PICK m \in Nat : m = Len(chunk)
    BY LenProperties
  <1>2. PICK first : first = s
    BY Zenon
  <1> DEFINE Turn(x, k) == RouteNext(x, chunk[k])
             Eq(h, n) == h = [k \in 0..n |-> IF k = 0 THEN first ELSE Turn(h[k - 1], k)]
             G == {n \in 0..m : \E h : Eq(h, n)}
             it == CHOOSE h : Eq(h, m)
  <1>3. Routed(s, chunk) = it[m]
    BY <1>1, <1>2 DEF Routed
  <1> HIDE DEF Turn
  <1>4. 0 \in G
    <2> DEFINE g == [k \in 0..0 |-> first]
    <2>1. \A k \in 0..0 : k = 0
      OBVIOUS
    <2>2. Eq(g, 0)
      BY Zenon, <2>1
    <2>3. 0 \in 0..m
      OBVIOUS
    <2> QED BY Zenon, <2>2, <2>3
  <1>5. ASSUME NEW n \in 1..m, n - 1 \in G PROVE n \in G
    <2>1. PICK h : Eq(h, n - 1)
      BY Zenon, <1>5
    <2> DEFINE g == [k \in 0..n |-> IF k = n THEN Turn(h[n - 1], n) ELSE h[k]]
    <2>2. \A k \in 0..n : k # n => k \in 0..(n - 1) /\ (k # 0 => k - 1 \in 0..n /\ k - 1 # n)
      OBVIOUS
    <2>3. n # 0 /\ n - 1 \in 0..n /\ n - 1 # n /\ n \in 0..n /\ n \in 0..m
      OBVIOUS
    <2>4. \A k \in 0..n : g[k] = IF k = 0 THEN first ELSE Turn(g[k - 1], k)
      <3> SUFFICES ASSUME NEW k \in 0..n PROVE g[k] = IF k = 0 THEN first ELSE Turn(g[k - 1], k)
        OBVIOUS
      <3>1. CASE k = n
        BY Zenon, <2>3, <3>1
      <3>2. CASE k # n
        <4>1. g[k] = h[k] /\ (k # 0 => g[k - 1] = h[k - 1])
          BY Zenon, <2>2, <3>2
        <4>2. h[k] = IF k = 0 THEN first ELSE Turn(h[k - 1], k)
          BY Zenon, <2>1, <2>2, <3>2
        <4> QED BY Zenon, <4>1, <4>2
      <3> QED BY <3>1, <3>2
    <2>5. Eq(g, n)
      BY Zenon, <2>4
    <2> QED BY Zenon, <2>3, <2>5
  <1>6. m \in G
    <2>1. G \in SUBSET (0..m) /\ m \in 0..m
      OBVIOUS
    <2> HIDE DEF G
    <2> QED BY <1>4, <1>5, <2>1, IndexInduction
  <1>7. Eq(it, m)
    BY Zenon, <1>6
  <1> HIDE DEF it
  <1>8. PICK r : r = it
    BY Zenon
  <1>9. 0 \in 0..m /\ \A k \in 1..m : k \in 0..m /\ k # 0
    OBVIOUS
  <1>10. r[0] = first /\ \A k \in 1..m : r[k] = Turn(r[k - 1], k)
    BY Zenon, <1>7, <1>8, <1>9
  <1>11. r[0] = first /\ \A k \in 1..m : r[k] = RouteNext(r[k - 1], chunk[k])
    BY Zenon, <1>10 DEF Turn
  <1> QED BY Zenon, <1>1, <1>2, <1>3, <1>8, <1>11 DEF RouteTrace

\* The steps of the lexer, from the opening quote on.
LEMMA LexSteps ==
  ASSUME NEW text, NEW x
  PROVE  /\ LexStep(Lexed("start", text), "q") = Lexed("quoted", text)
         /\ LexStep(Lexed("escaped", text), x) = Lexed("quoted", Append(text, x))
         /\ LexStep(Lexed("quoted", text), "b") = Lexed("escaped", text)
         /\ LexStep(Lexed("quoted", text), "q") = Lexed("closed", text)
         /\ x \notin {"q", "b"} => LexStep(Lexed("quoted", text), x) = Lexed("quoted", Append(text, x))
  <1>1. \A state : Lexed(state, text).state = state /\ Lexed(state, text).text = text
    BY DEF Lexed
  <1>2. LexStep(Lexed("start", text), "q") = Lexed("quoted", text)
    BY <1>1 DEF LexStep
  <1>3. LexStep(Lexed("escaped", text), x) = Lexed("quoted", Append(text, x))
    BY <1>1 DEF LexStep
  <1>4. LexStep(Lexed("quoted", text), "b") = Lexed("escaped", text)
    BY <1>1 DEF LexStep
  <1>5. LexStep(Lexed("quoted", text), "q") = Lexed("closed", text)
    BY <1>1 DEF LexStep
  <1>6. x \notin {"q", "b"} => LexStep(Lexed("quoted", text), x) = Lexed("quoted", Append(text, x))
    BY <1>1 DEF LexStep
  <1> QED BY Zenon, <1>2, <1>3, <1>4, <1>5, <1>6

\* The lexer on one character more.
LEMMA LexAppend ==
  ASSUME NEW C, NEW chars \in Seq(C), NEW x \in C
  PROVE  Lex(Append(chars, x)) = LexStep(Lex(chars), x)
  <1>1. PICK more : more = Append(chars, x)
    BY Zenon
  <1>2. more \in Seq(C) /\ Len(more) = Len(chars) + 1 /\ more[Len(chars) + 1] = x
    BY <1>1
  <1>3. \A k \in 1..Len(chars) : more[k] = chars[k]
    BY <1>1
  <1>4. PICK r : LexTrace(r, chars)
    BY LexRuns
  <1>5. PICK p : LexTrace(p, more)
    BY <1>2, LexRuns
  <1>6. PICK m \in Nat : m = Len(chars)
    BY LenProperties
  <1> DEFINE G == {k \in 0..m : r[k] = p[k]}
  <1>7. 0 \in G
    BY <1>4, <1>5 DEF LexTrace
  <1>8. ASSUME NEW k \in 1..m, k - 1 \in G PROVE k \in G
    <2>1. k \in 1..Len(more) /\ k \in 1..Len(chars) /\ k \in 0..m
      BY <1>2, <1>6
    <2>2. r[k] = LexStep(r[k - 1], chars[k]) /\ p[k] = LexStep(p[k - 1], more[k])
      BY Zenon, <1>4, <1>5, <2>1 DEF LexTrace
    <2> QED BY Zenon, <1>3, <1>8, <2>1, <2>2
  <1>9. r[m] = p[m]
    <2>1. G \in SUBSET (0..m) /\ m \in 0..m
      OBVIOUS
    <2>2. m \in G
      <3> HIDE DEF G
      <3> QED BY SMTT(30), <1>7, <1>8, <2>1, IndexInduction
    <2> QED BY Zenon, <2>2
  <1>10. p[m + 1] = LexStep(p[m], x)
    <2>1. m + 1 \in 1..Len(more) /\ (m + 1) - 1 = m /\ more[m + 1] = x
      BY <1>2, <1>6
    <2>2. p[m + 1] = LexStep(p[(m + 1) - 1], more[m + 1])
      BY Zenon, <1>5, <2>1 DEF LexTrace
    <2> QED BY Zenon, <2>1, <2>2
  <1>11. Lex(more) = p[m + 1] /\ Lex(chars) = r[m]
    BY <1>2, <1>4, <1>5, <1>6 DEF LexTrace
  <1> QED BY Zenon, <1>1, <1>9, <1>10, <1>11

\* Nothing lexed yet.
LEMMA LexNothing == Lex(<<>>) = Lexed("start", <<>>)
  <1>0. PICK C : C = {}
    BY Zenon
  <1>1. PICK chars : chars = <<>>
    BY Zenon
  <1>2. chars \in Seq(C) /\ Len(chars) = 0
    BY <1>1
  <1>3. PICK r : LexTrace(r, chars)
    BY Zenon, <1>2, LexRuns
  <1> QED BY Zenon, <1>1, <1>2, <1>3 DEF LexTrace

\* Where openvpn's lexer is after what escape_param wrote for the first k
\* characters of raw: inside the quotes, with exactly those characters.
LexedUpto(written, raw, k, C) ==
    /\ written \in Seq(C)
    /\ Lex(written) = Lexed("quoted", SubSeq(raw, 1, k))

\* escape_param loses nothing: for every parameter, of any length and any
\* characters, openvpn's lexer (parse_line) makes of the quoted form exactly that
\* parameter, and has seen its closing quote.
THEOREM EscapeParamIsLossless ==
  ASSUME NEW C, {"q", "b"} \subseteq C, NEW raw \in Seq(C)
  PROVE  Lex(EscapeParam(raw)) = Lexed("closed", raw)
  <1>1. PICK r : EscapeTrace(r, raw)
    BY EscapeRuns
  <1>2. PICK m \in Nat : m = Len(raw)
    BY LenProperties
  <1> DEFINE G == {k \in 0..m : LexedUpto(r[k], raw, k, C)}
  <1>3. 0 \in G
    <2>1. r[0] = Append(<<>>, "q") /\ <<>> \in Seq(C) /\ "q" \in C /\ r[0] \in Seq(C)
      BY <1>1 DEF EscapeTrace
    <2>2. Lex(r[0]) = LexStep(Lex(<<>>), "q")
      BY Zenon, <2>1, LexAppend
    <2>3. Lex(r[0]) = Lexed("quoted", <<>>)
      BY Zenon, <2>2, LexNothing, LexSteps
    <2>4. SubSeq(raw, 1, 0) = <<>>
      OBVIOUS
    <2>5. 0 \in 0..m
      OBVIOUS
    <2> QED BY Zenon, <2>1, <2>3, <2>4, <2>5 DEF LexedUpto
  <1>4. ASSUME NEW k \in 1..m, k - 1 \in G PROVE k \in G
    <2>1. PICK w : w = r[k - 1]
      BY Zenon
    <2>2. PICK text : text = SubSeq(raw, 1, k - 1)
      BY Zenon
    <2>3. w \in Seq(C) /\ Lex(w) = Lexed("quoted", text)
      BY Zenon, <1>4, <2>1, <2>2 DEF LexedUpto
    <2>4. PICK x \in C : x = raw[k]
      BY <1>2
    <2>5. Append(text, x) = SubSeq(raw, 1, k) /\ text \in Seq(C) /\ k \in 0..m
      BY <1>2, <2>2, <2>4
    <2>6. r[k] = Append(IF x \in {"q", "b"} THEN Append(w, "b") ELSE w, x)
      BY Zenon, <1>1, <1>2, <2>1, <2>4 DEF EscapeTrace
    <2>7. CASE x \in {"q", "b"}
      <3>1. PICK v : v = Append(w, "b")
        BY Zenon
      <3>2. v \in Seq(C) /\ r[k] = Append(v, x) /\ r[k] \in Seq(C)
        BY <2>3, <2>6, <2>7, <3>1
      <3>3. Lex(v) = LexStep(Lex(w), "b")
        BY <2>3, <3>1, LexAppend
      <3>4. Lex(v) = Lexed("escaped", text)
        BY Zenon, <2>3, <3>3, LexSteps
      <3>5. Lex(r[k]) = LexStep(Lex(v), x)
        BY <3>2, LexAppend
      <3>6. Lex(r[k]) = Lexed("quoted", Append(text, x))
        BY Zenon, <3>4, <3>5, LexSteps
      <3> QED BY Zenon, <2>5, <3>2, <3>6 DEF LexedUpto
    <2>8. CASE x \notin {"q", "b"}
      <3>2. r[k] = Append(w, x) /\ r[k] \in Seq(C)
        BY <2>3, <2>6, <2>8
      <3>5. Lex(r[k]) = LexStep(Lex(w), x)
        BY <2>3, <3>2, LexAppend
      <3>6. Lex(r[k]) = Lexed("quoted", Append(text, x))
        BY Zenon, <2>3, <2>8, <3>5, LexSteps
      <3> QED BY Zenon, <2>5, <3>2, <3>6 DEF LexedUpto
    <2> QED BY <2>7, <2>8
  <1>5. LexedUpto(r[m], raw, m, C)
    <2>1. G \in SUBSET (0..m) /\ m \in 0..m
      OBVIOUS
    <2>2. m \in G
      <3> HIDE DEF G
      <3> QED BY Zenon, <1>3, <1>4, <2>1, IndexInduction
    <2> QED BY Zenon, <2>2
  <1>6. SubSeq(raw, 1, m) = raw
    BY <1>2
  <1>7. r[m] \in Seq(C) /\ Lex(r[m]) = Lexed("quoted", raw)
    BY Zenon, <1>5, <1>6 DEF LexedUpto
  <1>8. EscapeParam(raw) = Append(r[m], "q") /\ "q" \in C
    BY <1>1, <1>2 DEF EscapeTrace
  <1>9. Lex(EscapeParam(raw)) = LexStep(Lex(r[m]), "q")
    BY <1>7, <1>8, LexAppend
  <1> QED BY Zenon, <1>7, <1>9, LexSteps

-----------------------------------------------------------------------------
(* What is on its way between the tasks and openvpn.                       *)

Parties == Tasks \cup {Actor}

Verbs == {"send", "version", "state on", "bytecount 5", "log on", "hold release"}

\* What a parameter is once written, and the commands.
Written == {EscapeParam(raw) : raw \in Params} \cup {<<>>}

Commands == [from : Parties, verb : Verbs, param : Written]

\* Only an event answers no command.
Lines == {l \in [frame : Events \cup {"SUCCESS", "ERROR", "DATA", "END"}, of : Parties \cup {None}] :
            l.frame \in Events <=> l.of = None}

Halves == [line : Lines, part : {1, 2}]

Statuses == {None, "waiting", "SUCCESS", "ERROR", "END", "Closed", "Timeout", "Eof", "Forbidden", "gave up"}

\* What a task's `send` returned is its own, body and all.
OwnResults(results) ==
    /\ results \in [Tasks -> [st : Statuses, to : Parties \cup {None}, lines : Seq(Parties)]]
    /\ \A t \in Tasks : /\ results[t].to \in {None, t}
                        /\ \A i \in DOMAIN results[t].lines : results[t].lines[i] = t

\* ExpectsReply, for management version v.
Awaited(command, v) == command.verb = "version" => v >= 6

\* The half line that completes a reply.
Terminal(half) == half.part = 2 /\ half.line.frame \notin Events \cup {"DATA"}

\* No part of a reply is on its way.
Quiet(stream) == \A i \in DOMAIN stream : stream[i].line.of = None

\* What is on its way answers party p only, and ends where its reply is complete.
Settled(stream, p) ==
    /\ \A i \in DOMAIN stream : stream[i].line.of \in {None, p}
    /\ \A i, j \in DOMAIN stream : i < j /\ Terminal(stream[i]) => stream[j].line.of = None

\* At most one command openvpn will answer is with it, and it is the pending one,
\* of whose reply nothing is on its way or in the accumulator yet.
Matched(sent, stream, p, gathered, v) ==
    /\ \A i \in DOMAIN sent : Awaited(sent[i], v) =>
         /\ sent[i].from = p /\ gathered = <<>> /\ Quiet(stream)
         /\ \A j \in DOMAIN sent : Awaited(sent[j], v) => j = i
    /\ Settled(stream, p)
    /\ \A i \in DOMAIN gathered : gathered[i] = p
    /\ p = None => gathered = <<>>

\* The fields of the peer.
PeerShaped ==
    peer = [version |-> peer.version, alive |-> peer.alive, held |-> peer.held, holds |-> peer.holds,
            broke |-> peer.broke, prompts |-> peer.prompts, got |-> peer.got, done |-> peer.done]

XInv ==
    /\ toPeer \in Seq(Commands) /\ outbox \in Seq(Commands) /\ channel \in Seq(Commands)
    /\ wire \in Seq(Halves) /\ buffered \in Seq(Halves)
    /\ body \in Seq(Parties) /\ pending \in Parties \cup {None}
    /\ OwnResults(result) /\ PeerShaped /\ peer.version \in Nat
    /\ Matched(toPeer, buffered \o wire, pending, body, peer.version)

\* None is nobody, and the parties differ.
LEMMA PartiesDiffer ==
  None \notin Parties /\ Actor \notin Tasks /\ Connector \in Tasks /\ Connector \notin Callers
  BY MgmtClientAssumption DEF Parties, Tasks, None, Actor, Connector

\* The halves of lines, one line after the other.
LEMMA WiredIs ==
  ASSUME NEW lines \in Seq(Lines)
  PROVE  /\ Wired(lines) \in Seq(Halves) /\ Len(Wired(lines)) = 2 * Len(lines)
         /\ \A i \in 1..2 * Len(lines) : /\ (i + 1) \div 2 \in 1..Len(lines)
                                         /\ Wired(lines)[i].line = lines[(i + 1) \div 2]
                                         /\ Wired(lines)[i].part = 2 - (i % 2)
  <1>1. PICK m \in Nat : m = Len(lines)
    BY LenProperties
  <1>2. \A i \in 1..2 * m : (i + 1) \div 2 \in 1..m /\ 2 - (i % 2) \in {1, 2}
    OBVIOUS
  <1>3. \A i \in 1..m : lines[i] \in Lines
    BY <1>1
  <1> DEFINE f == [i \in 1..2 * m |-> [line |-> lines[(i + 1) \div 2], part |-> 2 - (i % 2)]]
  <1>4. \A i \in 1..2 * m : f[i] \in Halves
    BY <1>2, <1>3 DEF Halves
  <1>5. 2 * m \in Nat
    OBVIOUS
  <1>6. f \in Seq(Halves) /\ Len(f) = 2 * m
    BY <1>4, <1>5, IsASeq
  <1>7. \A i \in 1..2 * m : f[i].line = lines[(i + 1) \div 2] /\ f[i].part = 2 - (i % 2)
    OBVIOUS
  <1>8. Wired(lines) = f
    BY Zenon, <1>1 DEF Wired
  <1> HIDE DEF f
  <1> QED BY Zenon, <1>1, <1>2, <1>6, <1>7, <1>8

\* What follows the second half of a line is of a later line.
LEMMA LaterLine ==
  ASSUME NEW i \in Nat, NEW j \in Nat, i < j, i % 2 = 0
  PROVE  (i + 1) \div 2 < (j + 1) \div 2
  OBVIOUS

\* Lines that are settled line by line are settled on the wire.
LEMMA WiredSettles ==
  ASSUME NEW lines \in Seq(Lines), NEW p,
         \A i \in 1..Len(lines) : lines[i].of \in {None, p},
         \A i, j \in 1..Len(lines) : i < j /\ lines[i].frame \notin Events \cup {"DATA"} => lines[j].of = None
  PROVE  Settled(Wired(lines), p)
  <1>1. PICK m \in Nat : m = Len(lines)
    BY LenProperties
  <1>2. PICK w : w = Wired(lines)
    BY Zenon
  <1>3. /\ DOMAIN w = 1..2 * m
        /\ \A i \in 1..2 * m : /\ (i + 1) \div 2 \in 1..m /\ w[i].line = lines[(i + 1) \div 2]
                               /\ w[i].part = 2 - (i % 2)
    BY <1>1, <1>2, WiredIs
  <1>4. \A i \in DOMAIN w : w[i].line.of \in {None, p}
    BY Zenon, <1>1, <1>3
  <1>5. ASSUME NEW i \in DOMAIN w, NEW j \in DOMAIN w, i < j, Terminal(w[i]) PROVE w[j].line.of = None
    <2>1. i \in 1..2 * m /\ j \in 1..2 * m
      BY <1>3
    <2>2. 2 - (i % 2) = 2
      BY Zenon, <1>3, <1>5, <2>1 DEF Terminal
    <2>3. (i + 1) \div 2 < (j + 1) \div 2
      <3>1. i \in Nat /\ j \in Nat
        BY <2>1
      <3>2. i % 2 = 0
        BY <2>2, <3>1
      <3>3. i < j
        BY Zenon, <1>5
      <3> QED BY Zenon, <3>1, <3>2, <3>3, LaterLine
    <2>4. lines[(i + 1) \div 2].frame \notin Events \cup {"DATA"}
      BY Zenon, <1>3, <1>5, <2>1 DEF Terminal
    <2> QED BY Zenon, <1>1, <1>3, <2>1, <2>3, <2>4
  <1> QED BY Zenon, <1>2, <1>4, <1>5 DEF Settled

\* More lines after what is on its way.
LEMMA SettledCat ==
  ASSUME NEW s \in Seq(Halves), NEW w \in Seq(Halves), NEW p, Settled(s, p), Settled(w, p),
         Quiet(s) \/ Quiet(w)
  PROVE  Settled(s \o w, p) /\ (Quiet(s) /\ Quiet(w) => Quiet(s \o w))
  <1>1. PICK m \in Nat : m = Len(s)
    BY LenProperties
  <1>2. PICK n \in Nat : n = Len(w)
    BY LenProperties
  <1>3. PICK z : z = s \o w
    BY Zenon
  <1>4. DOMAIN s = 1..m /\ DOMAIN w = 1..n /\ DOMAIN z = 1..(m + n)
    BY <1>1, <1>2, <1>3, LenProperties, ConcatProperties
  <1>5. \A i \in 1..(m + n) : z[i] = IF i <= m THEN s[i] ELSE w[i - m]
    BY <1>1, <1>2, <1>3, ConcatProperties
  <1>6. \A i \in 1..(m + n) : (i <= m => i \in 1..m) /\ (~(i <= m) => i - m \in 1..n)
    OBVIOUS
  <1>7. \A i \in 1..(m + n) : z[i].line.of \in {None, p}
    BY Zenon, <1>4, <1>5, <1>6 DEF Settled
  <1>8. ASSUME NEW i \in 1..(m + n), NEW j \in 1..(m + n), i < j, Terminal(z[i]) PROVE z[j].line.of = None
    <2>1. CASE j <= m
      <3>1. i <= m
        BY <1>8, <2>1
      <3> QED BY Zenon, <1>4, <1>5, <1>6, <1>8, <2>1, <3>1 DEF Settled
    <2>2. CASE ~(j <= m) /\ i <= m
      <3>1. CASE Quiet(w)
        BY Zenon, <1>4, <1>5, <1>6, <2>2, <3>1 DEF Quiet
      <3>2. CASE Quiet(s)
        <4>1. Terminal(s[i]) /\ s[i].line.of = None /\ s[i] \in Halves
          BY <1>1, <1>4, <1>5, <1>6, <1>8, <2>2, <3>2 DEF Quiet
        <4> QED BY <4>1 DEF Terminal, Halves, Lines
      <3> QED BY <3>1, <3>2
    <2>3. CASE ~(j <= m) /\ ~(i <= m)
      <3>1. i - m < j - m
        BY <1>8
      <3> QED BY Zenon, <1>4, <1>5, <1>6, <1>8, <2>3, <3>1 DEF Settled
    <2> QED BY <2>1, <2>2, <2>3
  <1>9. Settled(z, p)
    BY Zenon, <1>4, <1>7, <1>8 DEF Settled
  <1>10. Quiet(s) /\ Quiet(w) => Quiet(z)
    BY Zenon, <1>4, <1>5, <1>6 DEF Quiet
  <1> QED BY Zenon, <1>3, <1>9, <1>10

\* The sequences b and w are what a read of n elements of w takes and leaves.
Splits(b, w, n, S) ==
    /\ b \o SubSeq(w, 1, n) \in Seq(S) /\ SubSeq(w, n + 1, Len(w)) \in Seq(S)
    /\ (b \o SubSeq(w, 1, n)) \o SubSeq(w, n + 1, Len(w)) = b \o w

\* A read takes a prefix of what is on its way, with what was kept before it.
LEMMA SplitRead ==
  ASSUME NEW S, NEW b \in Seq(S), NEW w \in Seq(S), NEW n \in Nat, n <= Len(w)
  PROVE  Splits(b, w, n, S)
  <1>1. PICK u : u = SubSeq(w, 1, n)
    BY Zenon
  <1>2. PICK v : v = SubSeq(w, n + 1, Len(w))
    BY Zenon
  <1>3. u \in Seq(S) /\ v \in Seq(S)
    BY <1>1, <1>2
  <1>4. u \o v = w
    <2>1. 1 \in 1..Len(w) + 1 /\ n \in 1 - 1..Len(w) /\ Len(w) \in n..Len(w)
      BY LenProperties
    <2>2. SubSeq(w, 1, n) \o SubSeq(w, n + 1, Len(w)) = SubSeq(w, 1, Len(w))
      BY Zenon, <2>1, ConcatAdjacentSubSeq
    <2> QED BY Zenon, <1>1, <1>2, <2>2, SubSeqFull
  <1>5. (b \o u) \o v = b \o (u \o v)
    BY <1>3, ConcatAssociative
  <1>6. b \o u \in Seq(S)
    BY <1>3
  <1> QED BY Zenon, <1>1, <1>2, <1>3, <1>4, <1>5, <1>6 DEF Splits

-----------------------------------------------------------------------------
(* The actor's loop over the lines of a chunk.                             *)

Routing(o, p, b, r, f, a) ==
    [outbox |-> o, pending |-> p, body |-> b, result |-> r, feed |-> f, actor |-> a]

\* The fields of a routing state.
LEMMA RoutingFields ==
  ASSUME NEW o, NEW p, NEW b, NEW r, NEW f, NEW a
  PROVE  /\ Routing(o, p, b, r, f, a).outbox = o /\ Routing(o, p, b, r, f, a).pending = p
         /\ Routing(o, p, b, r, f, a).body = b /\ Routing(o, p, b, r, f, a).result = r
         /\ Routing(o, p, b, r, f, a).feed = f /\ Routing(o, p, b, r, f, a).actor = a
  BY DEF Routing

\* What the outbox, the receivers and the actor are after an event.
OutboxAfter(o, line) == IF line.frame = "HOLD" /\ Len(o) < OutboxLimit THEN Append(o, HoldRelease) ELSE o
FeedAfter(f, line) == IF line.frame = "UPDOWN" THEN f ELSE Broadcast(f, line.frame)
ActorAfter(a, line) == IF line.frame = "UPDOWN" THEN "ended" ELSE a

\* route_line, case by case: an event, a reply nobody waits for, a line of a
\* reply's body, and the line that completes it.
LEMMA RouteLineIs ==
  ASSUME NEW o, NEW p, NEW b, NEW r, NEW f, NEW a, NEW line
  PROVE  /\ line.frame \in Events =>
              RouteLine(Routing(o, p, b, r, f, a), line)
                = Routing(OutboxAfter(o, line), p, b, r, FeedAfter(f, line), ActorAfter(a, line))
         /\ line.frame \notin Events /\ p = None =>
              RouteLine(Routing(o, p, b, r, f, a), line) = Routing(o, p, <<>>, r, f, a)
         /\ p # None /\ line.frame = "DATA" =>
              RouteLine(Routing(o, p, b, r, f, a), line) = Routing(o, p, Append(b, line.of), r, f, a)
         /\ p # None /\ line.frame \notin Events \cup {"DATA"} =>
              RouteLine(Routing(o, p, b, r, f, a), line)
                = Routing(o, None, <<>>, Answer(r, p, Replied(line, b)), f, a)
  <1>1. PICK s : s = Routing(o, p, b, r, f, a)
    BY Zenon
  <1>2. s.outbox = o /\ s.pending = p /\ s.body = b /\ s.result = r /\ s.feed = f /\ s.actor = a
    BY <1>1 DEF Routing
  <1>3. "DATA" \notin Events
    BY DEF Events
  <1>4. PICK o2 : o2 = OutboxAfter(o, line)
    BY Zenon
  <1>5. PICK f2 : f2 = FeedAfter(f, line)
    BY Zenon
  <1>6. PICK a2 : a2 = ActorAfter(a, line)
    BY Zenon
  <1>7. PICK b2 : b2 = Append(b, line.of)
    BY Zenon
  <1>8. PICK r2 : r2 = Answer(r, p, Replied(line, b))
    BY Zenon
  <1> DEFINE E1 == [s EXCEPT !.feed = IF line.frame = "UPDOWN" THEN @ ELSE Broadcast(@, line.frame),
                             !.actor = IF line.frame = "UPDOWN" THEN "ended" ELSE @,
                             !.outbox = IF line.frame = "HOLD" /\ Len(@) < OutboxLimit
                                        THEN Append(@, HoldRelease) ELSE @]
             E2 == [s EXCEPT !.body = <<>>]
             E3 == [s EXCEPT !.body = Append(@, line.of)]
             E4 == [s EXCEPT !.body = <<>>, !.pending = None, !.result = Answer(@, s.pending, Replied(line, s.body))]
  <1>9. RouteLine(s, line) = CASE line.frame \in Events -> E1
                               [] line.frame \notin Events /\ s.pending = None -> E2
                               [] s.pending # None /\ line.frame = "DATA" -> E3
                               [] OTHER -> E4
    BY Zenon DEF RouteLine
  <1>10. E1 = Routing(o2, p, b, r, f2, a2)
    <2>1. PICK s1 : s1 = [s EXCEPT !.feed = f2]
      BY Zenon
    <2>2. PICK s2 : s2 = [s1 EXCEPT !.actor = a2]
      BY Zenon
    <2>3. s1 = Routing(o, p, b, r, f2, a)
      BY <1>1, <2>1 DEF Routing
    <2>4. s2 = Routing(o, p, b, r, f2, a2)
      BY <2>2, <2>3 DEF Routing
    <2>5. [s2 EXCEPT !.outbox = o2] = Routing(o2, p, b, r, f2, a2)
      BY <2>4 DEF Routing
    <2>6. E1 = [s EXCEPT !.feed = f2, !.actor = a2, !.outbox = o2]
      BY Zenon, <1>2, <1>4, <1>5, <1>6 DEF OutboxAfter, FeedAfter, ActorAfter
    <2> HIDE DEF E1
    <2>7. [s EXCEPT !.feed = f2, !.actor = a2, !.outbox = o2] = [s2 EXCEPT !.outbox = o2]
      BY <2>1, <2>2
    <2> QED BY Zenon, <2>5, <2>6, <2>7
  <1>11. E2 = Routing(o, p, <<>>, r, f, a)
    BY <1>1 DEF Routing
  <1>12. E3 = Routing(o, p, b2, r, f, a)
    <2>1. [s EXCEPT !.body = b2] = Routing(o, p, b2, r, f, a)
      BY <1>1 DEF Routing
    <2>2. E3 = [s EXCEPT !.body = b2]
      BY Zenon, <1>2, <1>7
    <2> QED BY Zenon, <2>1, <2>2
  <1>13. E4 = Routing(o, None, <<>>, r2, f, a)
    <2>1. PICK s1 : s1 = [s EXCEPT !.body = <<>>]
      BY Zenon
    <2>2. PICK s2 : s2 = [s1 EXCEPT !.pending = None]
      BY Zenon
    <2>3. s1 = Routing(o, p, <<>>, r, f, a)
      BY <1>1, <2>1 DEF Routing
    <2>4. s2 = Routing(o, None, <<>>, r, f, a)
      BY <2>2, <2>3 DEF Routing
    <2>5. [s2 EXCEPT !.result = r2] = Routing(o, None, <<>>, r2, f, a)
      BY <2>4 DEF Routing
    <2>6. E4 = [s EXCEPT !.body = <<>>, !.pending = None, !.result = r2]
      BY Zenon, <1>2, <1>8
    <2> HIDE DEF E4
    <2>7. [s EXCEPT !.body = <<>>, !.pending = None, !.result = r2] = [s2 EXCEPT !.result = r2]
      BY <2>1, <2>2
    <2> QED BY Zenon, <2>5, <2>6, <2>7
  <1> HIDE DEF E1, E2, E3, E4
  <1>14. /\ line.frame \in Events => RouteLine(s, line) = E1
         /\ line.frame \notin Events /\ p = None => RouteLine(s, line) = E2
         /\ p # None /\ line.frame = "DATA" => RouteLine(s, line) = E3
         /\ p # None /\ line.frame \notin Events \cup {"DATA"} => RouteLine(s, line) = E4
    BY <1>2, <1>3, <1>9
  <1> QED BY Zenon, <1>1, <1>4, <1>5, <1>6, <1>7, <1>8, <1>10, <1>11, <1>12, <1>13, <1>14

\* What a task is told is its own, if the outcome is.
LEMMA AnswerIsOwn ==
  ASSUME NEW results, OwnResults(results), NEW slot \in Parties \cup {None},
         NEW outcome \in [st : Statuses, to : Parties \cup {None}, lines : Seq(Parties)],
         outcome.to \in {None, slot}, \A i \in DOMAIN outcome.lines : outcome.lines[i] = slot
  PROVE  OwnResults(Answer(results, slot, outcome))
  BY DEF Answer, OwnResults

\* Closing the channel tells nobody anything of another.
LEMMA ClosedIsOwn ==
  ASSUME NEW results, OwnResults(results)
  PROVE  OwnResults(Closed(results))
  <1>1. PICK out : out = Outcome("Closed")
    BY Zenon
  <1>2. out \in [st : Statuses, to : Parties \cup {None}, lines : Seq(Parties)] /\ out.to = None /\ out.lines = <<>>
    BY <1>1 DEF Outcome, Statuses
  <1>3. Closed(results) = [t \in Tasks |-> IF results[t].st = "waiting" THEN out ELSE results[t]]
    BY Zenon, <1>1 DEF Closed
  <1> QED BY <1>2, <1>3 DEF OwnResults

\* The actor after the first k halves of what is on its way: what it has not
\* completed yet answers the pending command only, and so does the body it holds.
\* Where no reply was on its way, nothing was answered.
RoutedUpto(x, stream, k, p, b) ==
    /\ x = Routing(x.outbox, x.pending, x.body, x.result, x.feed, x.actor)
    /\ x.outbox \in Seq(Commands) /\ x.body \in Seq(Parties) /\ x.pending \in Parties \cup {None}
    /\ OwnResults(x.result) /\ x.actor \in {"running", "ended"}
    /\ \A i \in DOMAIN stream : i > k \/ (i = k /\ stream[i].part = 1) =>
         stream[i].line.of \in {None, x.pending}
    /\ \A i \in DOMAIN x.body : x.body[i] = x.pending
    /\ x.pending = None => x.body = <<>>
    /\ Quiet(stream) => x.pending = p /\ x.body = b

\* One half more.
LEMMA RouteStep ==
  ASSUME NEW stream \in Seq(Halves), NEW q, Settled(stream, q), NEW k \in 1..Len(stream), NEW p, NEW b,
         NEW x, RoutedUpto(x, stream, k - 1, p, b)
  PROVE  RoutedUpto(RouteNext(x, stream[k]), stream, k, p, b)
  <1>1. PICK half \in Halves : half = stream[k]
    BY ElementOfSeq
  <1>2. PICK line \in Lines : line = half.line
    BY DEF Halves
  <1>3. k \in DOMAIN stream /\ DOMAIN stream = 1..Len(stream) /\ k - 1 \in Nat /\ k \in Nat
    BY LenProperties
  <1>4. half.part \in {1, 2}
    BY DEF Halves
  <1>5. \A i \in DOMAIN stream : i > k \/ (i = k /\ stream[i].part = 1) => i > k - 1
    BY <1>3
  <1>6. \A i \in DOMAIN stream : i > k - 1 => stream[i].line.of \in {None, x.pending}
    BY Zenon DEF RoutedUpto
  <1>7. line.of \in {None, x.pending}
    <2>1. k > k - 1
      BY <1>3
    <2> QED BY Zenon, <1>1, <1>2, <1>3, <1>6, <2>1
  <1>8. CASE ~(half.part = 2 /\ x.actor = "running")
    <2>1. RouteNext(x, half) = x
      BY Zenon, <1>8 DEF RouteNext
    <2>2. \A i \in DOMAIN stream : i > k \/ (i = k /\ stream[i].part = 1) => stream[i].line.of \in {None, x.pending}
      BY Zenon, <1>5, <1>6
    <2> QED BY Zenon, <1>1, <2>1, <2>2 DEF RoutedUpto
  <1>9. CASE half.part = 2 /\ x.actor = "running"
    <2>1. PICK y : y = RouteNext(x, half)
      BY Zenon
    <2>2. PICK o, c, d, r, f, a : /\ o = x.outbox /\ c = x.pending /\ d = x.body
                                  /\ r = x.result /\ f = x.feed /\ a = x.actor
      BY Zenon
    <2>3. x = Routing(o, c, d, r, f, a)
      BY Zenon, <2>2 DEF RoutedUpto
    <2>4. y = RouteLine(Routing(o, c, d, r, f, a), line)
      BY Zenon, <1>2, <1>9, <2>1, <2>3 DEF RouteNext
    <2>5. /\ o \in Seq(Commands) /\ d \in Seq(Parties) /\ c \in Parties \cup {None} /\ OwnResults(r)
          /\ a = "running" /\ (\A i \in DOMAIN d : d[i] = c) /\ (c = None => d = <<>>)
          /\ (Quiet(stream) => c = p /\ d = b)
      BY Zenon, <1>9, <2>2 DEF RoutedUpto
    <2>6. \A i \in DOMAIN stream : i > k \/ (i = k /\ stream[i].part = 1) => stream[i].line.of \in {None, c}
      BY Zenon, <1>5, <1>6, <2>2
    <2>7. /\ line.of \in {None, c} /\ line.of \in Parties \cup {None} /\ (line.frame \in Events <=> line.of = None)
          /\ line.frame \in Events \cup {"SUCCESS", "ERROR", "DATA", "END"}
      BY <1>7, <2>2 DEF Lines
    <2>8. Quiet(stream) => line.frame \in Events
      BY Zenon, <1>1, <1>2, <1>3, <2>7 DEF Quiet
    <2>9. CASE line.frame \in Events
      <3>1. PICK o2, f2, a2 : o2 = OutboxAfter(o, line) /\ f2 = FeedAfter(f, line) /\ a2 = ActorAfter(a, line)
        BY Zenon
      <3>2. y = Routing(o2, c, d, r, f2, a2)
        BY <2>4, <2>9, <3>1, RouteLineIs
      <3>3. y.outbox = o2 /\ y.pending = c /\ y.body = d /\ y.result = r /\ y.feed = f2 /\ y.actor = a2
        BY <3>2, RoutingFields
      <3>4. o2 \in Seq(Commands)
        <4>1. HoldRelease \in Commands
          BY DEF HoldRelease, Command, Commands, Parties, Verbs, Written
        <4>2. Append(o, HoldRelease) \in Seq(Commands)
          BY <2>5, <4>1, AppendProperties
        <4> QED BY Zenon, <2>5, <3>1, <4>2 DEF OutboxAfter
      <3>5. a2 \in {"running", "ended"}
        BY Zenon, <2>5, <3>1 DEF ActorAfter
      <3> QED BY Zenon, <1>1, <2>1, <2>5, <2>6, <3>2, <3>3, <3>4, <3>5 DEF RoutedUpto
    <2>10. CASE line.frame \notin Events
      <3>1. line.of = c /\ c # None /\ ~Quiet(stream) /\ c \in Parties
        BY Zenon, <2>5, <2>7, <2>8, <2>10
      <3>2. CASE line.frame = "DATA"
        <4>1. PICK d2 : d2 = Append(d, line.of)
          BY Zenon
        <4>2. y = Routing(o, c, d2, r, f, a)
          BY <2>4, <3>1, <3>2, <4>1, RouteLineIs
        <4>3. y.outbox = o /\ y.pending = c /\ y.body = d2 /\ y.result = r /\ y.feed = f /\ y.actor = a
          BY <4>2, RoutingFields
        <4>4. d2 \in Seq(Parties) /\ \A i \in DOMAIN d2 : d2[i] = c
          BY <2>5, <3>1, <4>1
        <4> QED BY Zenon, <1>1, <2>1, <2>5, <2>6, <3>1, <4>2, <4>3, <4>4 DEF RoutedUpto
      <3>3. CASE line.frame # "DATA"
        <4>1. line.frame \notin Events \cup {"DATA"} /\ line.frame \in Statuses
          BY Zenon, <2>7, <2>10, <3>3 DEF Statuses
        <4>2. PICK out : out = Replied(line, d)
          BY Zenon
        <4>3. PICK r2 : r2 = Answer(r, c, out)
          BY Zenon
        <4>4. y = Routing(o, None, <<>>, r2, f, a)
          BY <2>4, <3>1, <4>1, <4>2, <4>3, RouteLineIs
        <4>5. y.outbox = o /\ y.pending = None /\ y.body = <<>> /\ y.result = r2 /\ y.feed = f /\ y.actor = a
          BY <4>4, RoutingFields
        <4>6. out \in [st : Statuses, to : Parties \cup {None}, lines : Seq(Parties)] /\ out.to = line.of /\ out.lines = d
          BY <2>5, <2>7, <4>1, <4>2 DEF Replied
        <4>7. OwnResults(r2)
          <5>1. out.to \in {None, c} /\ \A i \in DOMAIN out.lines : out.lines[i] = c
            BY Zenon, <2>5, <3>1, <4>6
          <5> QED BY <2>5, <4>3, <4>6, <5>1, AnswerIsOwn
        <4>8. \A i \in DOMAIN stream : i > k \/ (i = k /\ stream[i].part = 1) => stream[i].line.of \in {None, None}
          <5>1. Terminal(stream[k])
            BY Zenon, <1>1, <1>2, <1>9, <4>1 DEF Terminal
          <5>2. \A i \in DOMAIN stream : i > k \/ (i = k /\ stream[i].part = 1) => k < i
            <6>1. stream[k].part # 1
              BY <1>1, <1>9
            <6> QED BY <1>3, <6>1
          <5> QED BY Zenon, <1>3, <5>1, <5>2 DEF Settled
        <4>9. <<>> \in Seq(Parties) /\ \A i \in DOMAIN <<>> : <<>>[i] = None
          OBVIOUS
        <4> QED BY Zenon, <1>1, <2>1, <2>5, <3>1, <4>4, <4>5, <4>7, <4>8, <4>9 DEF RoutedUpto
      <3> QED BY <3>2, <3>3
    <2> QED BY <2>9, <2>10
  <1> QED BY <1>8, <1>9

\* What a read leaves: the half of a line no newline has closed, and what it has
\* not read, the end of what was on its way.
LEMMA RestIs ==
  ASSUME NEW chunk \in Seq(Halves), NEW rest \in Seq(Halves)
  PROVE  /\ Rest(chunk) \in Seq(Halves)
         /\ \E a \in Nat :
              /\ a = Len(chunk) \/ (a = Len(chunk) - 1 /\ chunk[Len(chunk)].part = 1)
              /\ Len(Rest(chunk) \o rest) = Len(chunk \o rest) - a
              /\ \A i \in 1..Len(Rest(chunk) \o rest) : (Rest(chunk) \o rest)[i] = (chunk \o rest)[i + a]
  <1>1. PICK m \in Nat : m = Len(chunk)
    BY LenProperties
  <1>2. PICK n \in Nat : n = Len(rest)
    BY LenProperties
  <1>3. /\ Len(chunk \o rest) = m + n
        /\ \A i \in 1..(m + n) : (chunk \o rest)[i] = IF i <= m THEN chunk[i] ELSE rest[i - m]
    BY <1>1, <1>2, ConcatProperties
  <1>4. CASE chunk # <<>> /\ chunk[Len(chunk)].part = 1
    <2>1. Rest(chunk) = <<chunk[m]>> /\ m >= 1 /\ chunk[m] \in Halves
      BY <1>1, <1>4 DEF Rest
    <2>2. PICK e : e = <<chunk[m]>>
      BY Zenon
    <2>3. e \in Seq(Halves) /\ Len(e) = 1 /\ e[1] = chunk[m]
      BY <2>1, <2>2
    <2>4. Len(e \o rest) = 1 + n /\ \A i \in 1..(1 + n) : (e \o rest)[i] = IF i <= 1 THEN e[i] ELSE rest[i - 1]
      <3>1. /\ Len(e \o rest) = Len(e) + Len(rest)
            /\ \A i \in 1..(Len(e) + Len(rest)) :
                 (e \o rest)[i] = IF i <= Len(e) THEN e[i] ELSE rest[i - Len(e)]
        <4>1. e \in Seq(Halves)
          BY Zenon, <2>3
        <4> QED BY <4>1, ConcatProperties
      <3> QED BY Zenon, <1>2, <2>3, <3>1
    <2>5. \A i \in 1..(1 + n) : (e \o rest)[i] = (chunk \o rest)[i + (m - 1)]
      <3> SUFFICES ASSUME NEW i \in 1..(1 + n) PROVE (e \o rest)[i] = (chunk \o rest)[i + (m - 1)]
        BY Zenon
      <3>1. i + (m - 1) \in 1..(m + n)
        BY <2>1
      <3>2. CASE i = 1
        <4>1. i + (m - 1) = m /\ m <= m
          BY <3>2
        <4>2. (e \o rest)[i] = e[i]
          BY <2>4, <3>2
        <4>3. (chunk \o rest)[i + (m - 1)] = chunk[m]
          BY Zenon, <1>3, <3>1, <4>1
        <4> QED BY Zenon, <2>3, <3>2, <4>2, <4>3
      <3>3. CASE i # 1
        <4>1. ~(i <= 1) /\ ~(i + (m - 1) <= m) /\ (i + (m - 1)) - m = i - 1
          BY <3>3
        <4> QED BY Zenon, <1>3, <2>4, <3>1, <4>1
      <3> QED BY Zenon, <3>2, <3>3
    <2>6. m - 1 \in Nat /\ 1 + n = (m + n) - (m - 1)
      BY <2>1
    <2>7. Rest(chunk) = e
      BY Zenon, <2>1, <2>2
    <2> QED BY Zenon, <1>1, <1>3, <1>4, <2>3, <2>4, <2>5, <2>6, <2>7
  <1>5. CASE ~(chunk # <<>> /\ chunk[Len(chunk)].part = 1)
    <2>1. Rest(chunk) = <<>> /\ Rest(chunk) \in Seq(Halves) /\ Rest(chunk) \o rest = rest
      BY <1>5 DEF Rest
    <2>2. \A i \in 1..n : rest[i] = (chunk \o rest)[i + m]
      <3> SUFFICES ASSUME NEW i \in 1..n PROVE rest[i] = (chunk \o rest)[i + m]
        BY Zenon
      <3>1. i + m \in 1..(m + n) /\ ~(i + m <= m) /\ (i + m) - m = i
        OBVIOUS
      <3> QED BY Zenon, <1>3, <3>1
    <2>3. n = (m + n) - m
      OBVIOUS
    <2> QED BY Zenon, <1>1, <1>2, <1>3, <2>1, <2>2, <2>3
  <1> QED BY Zenon, <1>4, <1>5

\* A read, with the states of the actor on the way.
ReadsBy(chunk, rest, r) ==
    /\ chunk \in Seq(Halves) /\ rest \in Seq(Halves) /\ chunk \o rest = buffered \o wire
    /\ RouteTrace(r, Routing(outbox, pending, body, result, feed, actor), chunk)
    /\ feed' = r[Len(chunk)].feed
    /\ r[Len(chunk)].actor = "ended" => End(r[Len(chunk)].result)
    /\ r[Len(chunk)].actor # "ended" =>
         /\ wire' = rest /\ buffered' = Rest(chunk)
         /\ body' = r[Len(chunk)].body /\ result' = r[Len(chunk)].result
         /\ pending' = r[Len(chunk)].pending /\ outbox' = r[Len(chunk)].outbox
         /\ actor' = actor /\ channel' = channel /\ toPeer' = toPeer

\* A read is one.
LEMMA ReadIs ==
  ASSUME XInv, NEW n \in 1..Len(wire), Read(n)
  PROVE  /\ \E chunk, rest, r : ReadsBy(chunk, rest, r)
         /\ actor = "running" /\ UNCHANGED <<peer, connect, typed>>
  <1>1. wire \in Seq(Halves) /\ buffered \in Seq(Halves)
    BY Zenon DEF XInv
  <1>2. n \in Nat /\ n <= Len(wire)
    BY <1>1, LenProperties
  <1>3. PICK chunk : chunk = buffered \o SubSeq(wire, 1, n)
    BY Zenon
  <1>4. PICK rest : rest = SubSeq(wire, n + 1, Len(wire))
    BY Zenon
  <1>5. chunk \in Seq(Halves) /\ rest \in Seq(Halves) /\ chunk \o rest = buffered \o wire
    <2>1. PICK w, b : w = wire /\ b = buffered
      BY Zenon
    <2>2. w \in Seq(Halves) /\ b \in Seq(Halves) /\ n <= Len(w)
      BY Zenon, <1>1, <1>2, <2>1
    <2>3. PICK S : S = Halves
      BY Zenon
    <2>4. w \in Seq(S) /\ b \in Seq(S)
      BY Zenon, <2>2, <2>3
    <2>5. PICK k \in Nat : k = n
      BY Zenon, <1>2
    <2>6. k <= Len(w)
      BY Zenon, <2>2, <2>5
    <2>7. Splits(b, w, k, S)
      BY <2>4, <2>6, SplitRead
    <2> QED BY Zenon, <1>3, <1>4, <2>1, <2>3, <2>5, <2>7 DEF Splits
  <1>6. PICK s : s = Routing(outbox, pending, body, result, feed, actor)
    BY Zenon
  <1>7. PICK r : RouteTrace(r, s, chunk)
    BY Zenon, <1>5, RouteRuns
  <1>8. Routed(s, chunk) = r[Len(chunk)]
    BY Zenon, <1>7 DEF RouteTrace
  <1>9. PICK z : z = r[Len(chunk)]
    BY Zenon
  <1>10. /\ feed' = z.feed
         /\ IF z.actor = "ended" THEN End(z.result)
            ELSE /\ wire' = rest /\ buffered' = Rest(chunk) /\ body' = z.body /\ result' = z.result
                 /\ pending' = z.pending /\ outbox' = z.outbox /\ UNCHANGED <<actor, channel, toPeer>>
    BY Zenon, <1>3, <1>4, <1>6, <1>8, <1>9 DEF Read, Routing
  <1>11. ReadsBy(chunk, rest, r)
    BY Zenon, <1>5, <1>6, <1>7, <1>9, <1>10 DEF ReadsBy
  <1> QED BY Zenon, <1>11 DEF Read

\* Any part of a chunk, from a state in order.
LEMMA RouteAll ==
  ASSUME NEW chunk \in Seq(Halves), NEW rest \in Seq(Halves), NEW q, Settled(chunk \o rest, q), NEW p, NEW b,
         NEW s, RoutedUpto(s, chunk \o rest, 0, p, b), NEW r, RouteTrace(r, s, chunk)
  PROVE  \A k \in 0..Len(chunk) : RoutedUpto(r[k], chunk \o rest, k, p, b)
  <1>1. PICK stream \in Seq(Halves) : stream = chunk \o rest
    BY Zenon, ConcatProperties
  <1>2. PICK m \in Nat : m = Len(chunk)
    BY LenProperties
  <1>3. m <= Len(stream) /\ Len(stream) \in Nat /\ \A k \in 1..m : stream[k] = chunk[k]
    BY <1>1, <1>2
  <1> DEFINE G == {k \in 0..m : RoutedUpto(r[k], stream, k, p, b)}
  <1>4. 0 \in G
    BY <1>1 DEF RouteTrace
  <1>5. ASSUME NEW k \in 1..m, k - 1 \in G PROVE k \in G
    <2>1. r[k] = RouteNext(r[k - 1], stream[k])
      BY Zenon, <1>2, <1>3 DEF RouteTrace
    <2>2. k \in 1..Len(stream) /\ k \in 0..m
      BY <1>3
    <2>3. PICK x : x = r[k - 1]
      BY Zenon
    <2>4. RoutedUpto(x, stream, k - 1, p, b)
      BY Zenon, <1>5, <2>3
    <2>5. Settled(stream, q)
      BY Zenon, <1>1
    <2>6. RoutedUpto(RouteNext(x, stream[k]), stream, k, p, b)
      BY <2>2, <2>4, <2>5, RouteStep
    <2> QED BY Zenon, <2>1, <2>2, <2>3, <2>6
  <1>6. \A k \in 0..m : k \in G
    <2>1. G \in SUBSET (0..m)
      OBVIOUS
    <2> HIDE DEF G
    <2> QED BY Zenon, <1>4, <1>5, <2>1, IndexInduction
  <1> QED BY Zenon, <1>1, <1>2, <1>6

-----------------------------------------------------------------------------
(* Each step keeps commands and replies matched.                           *)

\* Nothing on its way, nothing pending.
LEMMA MatchedEmpty ==
  ASSUME NEW v
  PROVE  Matched(<<>>, <<>> \o <<>>, None, <<>>, v)
  <1>1. <<>> \o <<>> = <<>> /\ DOMAIN <<>> = {}
    OBVIOUS
  <1> QED BY Zenon, <1>1 DEF Matched, Settled

\* The actor is gone.
LEMMA EndX ==
  ASSUME XInv, NEW results, OwnResults(results), End(results), UNCHANGED peer
  PROVE  XInv'
  <1>1. OwnResults(result')
    BY ClosedIsOwn DEF End
  <1>2. /\ toPeer' = <<>> /\ outbox' = <<>> /\ channel' = <<>> /\ wire' = <<>> /\ buffered' = <<>>
        /\ body' = <<>> /\ pending' = None
    BY Zenon DEF End
  <1>3. \A S : <<>> \in Seq(S)
    OBVIOUS
  <1>4. PeerShaped' /\ peer.version' \in Nat
    BY Zenon DEF XInv, PeerShaped
  <1>5. Matched(toPeer', buffered' \o wire', pending', body', peer.version')
    BY Zenon, <1>2, MatchedEmpty
  <1> QED BY Zenon, <1>1, <1>2, <1>3, <1>4, <1>5 DEF XInv

\* Read
LEMMA ReadX ==
  ASSUME XInv, NEW n \in 1..Len(wire), Read(n)
  PROVE  XInv'
  <1>1. PICK chunk, rest, r : ReadsBy(chunk, rest, r)
    BY Zenon, ReadIs
  <1>2. actor = "running" /\ UNCHANGED <<peer, connect, typed>>
    BY Zenon, ReadIs
  <1>3. PICK stream : stream = buffered \o wire
    BY Zenon
  <1>4. chunk \in Seq(Halves) /\ rest \in Seq(Halves) /\ chunk \o rest = stream
    BY Zenon, <1>1, <1>3 DEF ReadsBy
  <1>5. PICK s : s = Routing(outbox, pending, body, result, feed, actor)
    BY Zenon
  <1>6. RouteTrace(r, s, chunk)
    BY Zenon, <1>1, <1>5 DEF ReadsBy
  <1>7. PICK p, b, v : p = pending /\ b = body /\ v = peer.version
    BY Zenon
  <1>8. Matched(toPeer, stream, p, b, v) /\ Settled(stream, p) /\ stream \in Seq(Halves)
    BY Zenon, <1>3, <1>4, <1>7, ConcatProperties DEF XInv, Matched
  <1>9. RoutedUpto(s, stream, 0, p, b)
    <2>1. /\ s.outbox = outbox /\ s.pending = p /\ s.body = b /\ s.result = result
          /\ s.feed = feed /\ s.actor = actor
      BY <1>5, <1>7, RoutingFields
    <2>2. s = Routing(s.outbox, s.pending, s.body, s.result, s.feed, s.actor)
      BY Zenon, <1>5, <1>7, <2>1
    <2>3. /\ outbox \in Seq(Commands) /\ b \in Seq(Parties) /\ p \in Parties \cup {None} /\ OwnResults(result)
          /\ actor \in {"running", "ended"}
      BY Zenon, <1>2, <1>7 DEF XInv
    <2> QED BY Zenon, <1>8, <2>1, <2>2, <2>3 DEF RoutedUpto, Settled, Matched
  <1>10. PICK z : z = r[Len(chunk)]
    BY Zenon
  <1>11. RoutedUpto(z, stream, Len(chunk), p, b)
    <2>1. Settled(chunk \o rest, p) /\ RoutedUpto(s, chunk \o rest, 0, p, b)
      BY Zenon, <1>4, <1>8, <1>9
    <2>2. \A k \in 0..Len(chunk) : RoutedUpto(r[k], chunk \o rest, k, p, b)
      BY Zenon, <1>4, <1>6, <2>1, RouteAll
    <2>3. Len(chunk) \in 0..Len(chunk)
      BY <1>4, LenProperties
    <2> QED BY Zenon, <1>4, <1>10, <2>2, <2>3
  <1>12. CASE z.actor = "ended"
    <2>1. End(z.result) /\ OwnResults(z.result)
      BY Zenon, <1>1, <1>10, <1>11, <1>12 DEF ReadsBy, RoutedUpto
    <2> QED BY Zenon, <1>2, <2>1, EndX
  <1>13. CASE z.actor # "ended"
    <2>1. /\ wire' = rest /\ buffered' = Rest(chunk) /\ body' = z.body /\ result' = z.result
          /\ pending' = z.pending /\ outbox' = z.outbox /\ channel' = channel /\ toPeer' = toPeer
      BY Zenon, <1>1, <1>10, <1>13 DEF ReadsBy
    <2>2. PICK after : after = Rest(chunk) \o rest
      BY Zenon
    <2>3. Rest(chunk) \in Seq(Halves)
      BY <1>4, RestIs
    <2>4. PICK a \in Nat : /\ a = Len(chunk) \/ (a = Len(chunk) - 1 /\ chunk[Len(chunk)].part = 1)
                           /\ Len(after) = Len(stream) - a
                           /\ \A i \in 1..Len(after) : after[i] = stream[i + a]
      <3>1. \E a \in Nat :
              /\ a = Len(chunk) \/ (a = Len(chunk) - 1 /\ chunk[Len(chunk)].part = 1)
              /\ Len(Rest(chunk) \o rest) = Len(chunk \o rest) - a
              /\ \A i \in 1..Len(Rest(chunk) \o rest) : (Rest(chunk) \o rest)[i] = (chunk \o rest)[i + a]
        BY Zenon, <1>4, RestIs
      <3> QED BY Zenon, <1>4, <2>2, <3>1
    <2>5. PICK m \in Nat : m = Len(chunk)
      BY <1>4, LenProperties
    <2>6. /\ after \in Seq(Halves) /\ DOMAIN after = 1..Len(after) /\ DOMAIN stream = 1..Len(stream)
          /\ Len(after) \in Nat /\ Len(stream) \in Nat
      BY <1>4, <1>8, <2>2, <2>3, ConcatProperties, LenProperties
    <2>7. m >= 1 => m <= Len(stream) /\ stream[m] = chunk[m]
      BY <1>4, <2>5, ConcatProperties
    <2>8. \A i \in DOMAIN after : /\ i + a \in DOMAIN stream /\ after[i] = stream[i + a]
                                  /\ i + a > m \/ (i + a = m /\ stream[i + a].part = 1)
      <3> SUFFICES ASSUME NEW i \in DOMAIN after
                   PROVE  /\ i + a \in DOMAIN stream /\ after[i] = stream[i + a]
                          /\ i + a > m \/ (i + a = m /\ stream[i + a].part = 1)
        OBVIOUS
      <3>1. i \in 1..Len(after) /\ i + a \in 1..Len(stream)
        BY <2>4, <2>6
      <3>2. CASE a = m
        <4>1. i + a > m
          BY <3>1, <3>2
        <4> QED BY Zenon, <2>4, <2>6, <3>1, <4>1
      <3>3. CASE a = m - 1 /\ chunk[m].part = 1
        <4>1. m >= 1 /\ (i + a > m \/ i + a = m)
          BY <3>1, <3>3
        <4> QED BY Zenon, <2>4, <2>6, <2>7, <3>1, <3>3, <4>1
      <3> QED BY <2>4, <2>5, <3>2, <3>3
    <2>9. \A i \in DOMAIN after : after[i].line.of \in {None, z.pending}
      BY Zenon, <1>11, <2>5, <2>8 DEF RoutedUpto
    <2>10. \A i, j \in DOMAIN after : i < j /\ Terminal(after[i]) => after[j].line.of = None
      <3> SUFFICES ASSUME NEW i \in DOMAIN after, NEW j \in DOMAIN after, i < j, Terminal(after[i])
                   PROVE  after[j].line.of = None
        BY Zenon
      <3>1. i + a < j + a
        BY <2>6
      <3> QED BY Zenon, <1>8, <2>8, <3>1 DEF Settled
    <2>11. Quiet(stream) => Quiet(after)
      BY Zenon, <2>8 DEF Quiet
    <2>12. Matched(toPeer, after, z.pending, z.body, v)
      <3>1. Settled(after, z.pending)
        BY Zenon, <2>9, <2>10 DEF Settled
      <3> QED BY Zenon, <1>8, <1>11, <2>11, <3>1 DEF Matched, RoutedUpto
    <2>13. /\ z.outbox \in Seq(Commands) /\ z.body \in Seq(Parties) /\ z.pending \in Parties \cup {None}
           /\ OwnResults(z.result)
      BY Zenon, <1>11 DEF RoutedUpto
    <2>14. PeerShaped' /\ peer.version' \in Nat /\ peer.version' = v
      BY Zenon, <1>2, <1>7 DEF XInv, PeerShaped
    <2>15. Matched(toPeer', buffered' \o wire', pending', body', peer.version')
      BY Zenon, <2>1, <2>2, <2>12, <2>14
    <2> QED BY Zenon, <1>4, <2>1, <2>3, <2>13, <2>14, <2>15 DEF XInv
  <1> QED BY <1>12, <1>13

\* What openvpn sends for a command, n prompts included: the reply in order, then
\* the prompt, and nothing for a version it answers with silence.
Sends(lines, command, n, v) ==
    /\ lines \in Seq(Lines) /\ n \in {0, 1}
    /\ \A i \in 1..Len(lines) : lines[i].of \in {None, command.from}
    /\ \A i, j \in 1..Len(lines) : i < j /\ lines[i].frame \notin Events \cup {"DATA"} => lines[j].of = None
    /\ ~Awaited(command, v) => lines = <<>>
    /\ n = 0 => \A i \in 1..Len(lines) : lines[i].frame # "PASSWORD"
    /\ n = 1 => Len(lines) >= 1 /\ \A i \in 1..Len(lines) : lines[i].frame = "PASSWORD" <=> i = Len(lines)

\* The peer after it read a command.
PeerAfter(command, n) ==
    /\ peer'.version = peer.version /\ peer'.prompts = peer.prompts + n
    /\ peer'.got = IF command.from \in Callers
                   THEN peer.got \cup {<<command.from, Lex(command.param)>>} ELSE peer.got
    /\ peer'.done = IF command.from = Connector THEN Append(peer.done, command.verb) ELSE peer.done

\* A reply whose lines but the last are of its body, and at most one prompt.
LEMMA ReplyThenPrompt ==
  ASSUME NEW command, NEW v, Awaited(command, v), NEW answer \in Seq(Lines), NEW prompt \in Seq(Lines),
         \A i \in 1..Len(answer) : answer[i].of = command.from /\ answer[i].frame # "PASSWORD",
         \A i, j \in 1..Len(answer) : i < j => answer[i].frame = "DATA",
         Len(prompt) <= 1, \A i \in 1..Len(prompt) : prompt[i].of = None /\ prompt[i].frame = "PASSWORD"
  PROVE  Sends(answer \o prompt, command, Len(prompt), v)
  <1>1. PICK m \in Nat : m = Len(answer)
    BY LenProperties
  <1>2. PICK k \in Nat : k = Len(prompt)
    BY LenProperties
  <1>3. PICK lines : lines = answer \o prompt
    BY Zenon
  <1>4. PICK z \in Nat : z = m + k
    OBVIOUS
  <1>5. /\ lines \in Seq(Lines) /\ Len(lines) = z
        /\ \A i \in 1..z : lines[i] = IF i <= m THEN answer[i] ELSE prompt[i - m]
    BY <1>1, <1>2, <1>3, <1>4, ConcatProperties
  <1>6. \A i \in 1..z : (i <= m => i \in 1..m) /\ (~(i <= m) => i - m \in 1..k)
    BY <1>4
  <1>7. ASSUME NEW i \in 1..z, i <= m PROVE lines[i].of = command.from /\ lines[i].frame # "PASSWORD"
    BY Zenon, <1>1, <1>5, <1>6, <1>7
  <1>8. ASSUME NEW i \in 1..z, ~(i <= m) PROVE lines[i].of = None /\ lines[i].frame = "PASSWORD"
    BY <1>2, <1>5, <1>6, <1>8
  <1>9. \A i \in 1..z : lines[i].of \in {None, command.from}
    BY Zenon, <1>7, <1>8
  <1>10. ASSUME NEW i \in 1..z, NEW j \in 1..z, i < j, lines[i].frame \notin Events \cup {"DATA"}
         PROVE  lines[j].of = None
    <2>1. CASE j <= m
      <3>1. i <= m
        BY <1>10, <2>1
      <3>2. lines[i].frame = "DATA"
        BY Zenon, <1>1, <1>5, <1>6, <1>10, <2>1, <3>1
      <3> QED BY Zenon, <1>10, <3>2
    <2>2. CASE ~(j <= m)
      BY Zenon, <1>8, <2>2
    <2> QED BY <2>1, <2>2
  <1>11. k \in {0, 1}
    BY <1>2
  <1>12. k = 0 => \A i \in 1..z : lines[i].frame # "PASSWORD"
    <2>1. k = 0 => \A i \in 1..z : i <= m
      BY <1>4
    <2> QED BY Zenon, <1>7, <2>1
  <1>13. k = 1 => z >= 1 /\ \A i \in 1..z : lines[i].frame = "PASSWORD" <=> i = z
    <2>1. k = 1 => z >= 1 /\ \A i \in 1..z : ~(i <= m) <=> i = z
      BY <1>4
    <2> QED BY Zenon, <1>7, <1>8, <2>1
  <1> QED BY Zenon, <1>2, <1>3, <1>5, <1>9, <1>10, <1>11, <1>12, <1>13 DEF Sends

\* The lines openvpn sends: a reply of one line or two, and the prompt.
LEMMA ReplyLines ==
  ASSUME NEW command, NEW v, Awaited(command, v), NEW from \in Parties, from = command.from,
         NEW shape \in {<<"SUCCESS">>, <<"ERROR">>, <<"DATA", "END">>},
         NEW answer, answer = [i \in 1..Len(shape) |-> Line(shape[i], from)],
         NEW prompt \in {<<>>, <<Line("PASSWORD", None)>>}
  PROVE  Sends(answer \o prompt, command, Len(prompt), v)
  <1>1. PICK m \in Nat : /\ m = Len(shape) /\ m <= 2 /\ (m = 2 => shape[1] = "DATA")
                         /\ \A i \in 1..m : shape[i] \in {"SUCCESS", "ERROR", "DATA", "END"}
    <2>1. CASE shape = <<"SUCCESS">>
      BY <2>1
    <2>2. CASE shape = <<"ERROR">>
      BY <2>2
    <2>3. CASE shape = <<"DATA", "END">>
      BY <2>3
    <2> QED BY <2>1, <2>2, <2>3
  <1>2. PICK last : last = Line("PASSWORD", None)
    OBVIOUS
  <1>3. last \in Lines /\ last.of = None /\ last.frame = "PASSWORD"
    BY <1>2, PartiesDiffer DEF Line, Lines, Events
  <1>4. \A i \in 1..m : /\ answer[i] \in Lines /\ answer[i].of = from /\ answer[i].frame = shape[i]
                         /\ answer[i].frame # "PASSWORD"
    <2> SUFFICES ASSUME NEW i \in 1..m
                 PROVE  /\ answer[i] \in Lines /\ answer[i].of = from /\ answer[i].frame = shape[i]
                        /\ answer[i].frame # "PASSWORD"
      OBVIOUS
    <2>1. answer[i] = Line(shape[i], from)
      BY <1>1
    <2>2. PICK fr : fr = shape[i]
      OBVIOUS
    <2>3. fr \in {"SUCCESS", "ERROR", "DATA", "END"}
      BY <1>1, <2>2
    <2>4. Line(fr, from) \in Lines /\ Line(fr, from).of = from /\ Line(fr, from).frame = fr /\ fr # "PASSWORD"
      BY <2>3, PartiesDiffer DEF Line, Lines, Events
    <2> QED BY <2>1, <2>2, <2>4
  <1>5. answer \in Seq(Lines) /\ Len(answer) = m
    <2>2. answer = [i \in 1..m |-> answer[i]]
      BY <1>1
    <2>3. answer \in [1..m -> Lines]
      BY <1>4, <2>2
    <2>4. answer \in Seq(Lines)
      BY <2>3, SeqDef
    <2>5. DOMAIN answer = 1..m
      BY <2>3
    <2>6. DOMAIN answer = 1..Len(answer) /\ Len(answer) \in Nat
      BY <2>4, LenProperties
    <2> QED BY <2>4, <2>5, <2>6
  <1>6. prompt \in Seq(Lines) /\ Len(prompt) <= 1 /\ \A i \in 1..Len(prompt) : prompt[i] = last
    <2>1. CASE prompt = <<>>
      BY <2>1
    <2>2. CASE prompt = <<last>>
      BY <1>3, <2>2
    <2> QED BY <1>2, <2>1, <2>2
  <1>7. \A i \in 1..Len(prompt) : prompt[i].of = None /\ prompt[i].frame = "PASSWORD"
    BY <1>3, <1>6
  <1>8. \A i \in 1..Len(answer) : answer[i].of = command.from /\ answer[i].frame # "PASSWORD"
    BY SMTT(30), <1>4, <1>5
  <1>9. \A i, j \in 1..Len(answer) : i < j => answer[i].frame = "DATA"
    BY <1>1, <1>4, <1>5
  <1> QED BY Zenon, <1>5, <1>6, <1>7, <1>8, <1>9, ReplyThenPrompt

\* A command openvpn reads.
LEMMA PeerReadsIs ==
  ASSUME XInv, toPeer # <<>>, NEW shape \in Shapes(Head(toPeer)), PeerReads(shape)
  PROVE  \E lines, n : /\ Sends(lines, Head(toPeer), n, peer.version) /\ PeerAfter(Head(toPeer), n)
                       /\ PeerShaped' /\ wire' = wire \o Wired(lines)
  <1>1. PICK command \in Commands : command = Head(toPeer)
    BY DEF XInv
  <1>2. PICK from \in Parties : from = command.from
    BY DEF Commands
  <1>3. PICK v \in Nat : v = peer.version
    BY DEF XInv
  <1>4. PICK silent : silent = (command.verb = "version" /\ v < 6)
    BY Zenon
  <1>5. silent = TRUE <=> ~Awaited(command, v)
    <2>1. v < 6 <=> ~(v >= 6)
      OBVIOUS
    <2> QED BY Zenon, <1>4, <2>1 DEF Awaited
  <1>6. PICK answer : answer = IF silent THEN <<>> ELSE [i \in 1..Len(shape) |-> Line(shape[i], from)]
    BY Zenon
  <1>7. PICK prompt : prompt = IF command.verb = "hold release" /\ peer.held THEN <<Line("PASSWORD", None)>> ELSE <<>>
    BY Zenon
  <1>8. PICK lines : lines = answer \o prompt
    BY Zenon
  <1>9. wire' = wire \o Wired(lines)
    BY Zenon, <1>1, <1>2, <1>3, <1>4, <1>6, <1>7, <1>8 DEF PeerReads
  <1>10. Sends(lines, command, Len(prompt), v)
    <2>1. CASE silent
      <3>1. ~Awaited(command, v) /\ command.verb = "version"
        BY Zenon, <1>4, <1>5, <2>1
      <3>2. answer = <<>> /\ prompt = <<>>
        BY <1>6, <1>7, <2>1, <3>1
      <3>3. lines = <<>> /\ Len(prompt) = 0 /\ lines \in Seq(Lines) /\ Len(lines) = 0
        BY <1>8, <3>2
      <3>4. \A i \in 1..Len(lines) : FALSE
        BY <3>3
      <3> QED BY <3>1, <3>3, <3>4 DEF Sends
    <2>2. CASE ~silent
      <3>1. Awaited(command, v)
        BY Zenon, <1>4, <1>5, <2>2
      <3>2. answer = [i \in 1..Len(shape) |-> Line(shape[i], from)]
        BY Zenon, <1>6, <2>2
      <3>3. prompt \in {<<>>, <<Line("PASSWORD", None)>>}
        BY Zenon, <1>7
      <3>4. shape \in {<<"SUCCESS">>, <<"ERROR">>, <<"DATA", "END">>}
        BY Zenon DEF Shapes
      <3>5. Sends(answer \o prompt, command, Len(prompt), v)
        BY Zenon, <1>2, <3>1, <3>2, <3>3, <3>4, ReplyLines
      <3> QED BY Zenon, <1>8, <3>5
    <2> QED BY <2>1, <2>2
  <1>11. PICK n : n = Len(prompt)
    BY Zenon
  <1>12. PeerShaped' /\ PeerAfter(command, n)
    <2>1. PICK ve, al, he, ho, br, pr, go, do :
             peer = [version |-> ve, alive |-> al, held |-> he, holds |-> ho, broke |-> br,
                     prompts |-> pr, got |-> go, done |-> do]
      BY Zenon DEF XInv, PeerShaped
    <2>2. PICK he2 : he2 = (he /\ ~(command.verb = "hold release"))
      BY Zenon
    <2>3. PICK pr2 : pr2 = pr + n
      BY Zenon
    <2>4. PICK go2 : go2 = IF from \in Callers THEN go \cup {<<from, Lex(command.param)>>} ELSE go
      BY Zenon
    <2>5. PICK do2 : do2 = IF from = Connector THEN Append(do, command.verb) ELSE do
      BY Zenon
    <2>6. /\ peer.version = ve /\ peer.held = he /\ peer.prompts = pr /\ peer.got = go /\ peer.done = do
      BY <2>1
    <2>7. peer' = [peer EXCEPT !.held = he2, !.prompts = pr2, !.got = go2, !.done = do2]
      BY Zenon, <1>1, <1>2, <1>7, <1>11, <2>2, <2>3, <2>4, <2>5, <2>6 DEF PeerReads
    <2>8. peer' = [version |-> ve, alive |-> al, held |-> he2, holds |-> ho, broke |-> br,
                   prompts |-> pr2, got |-> go2, done |-> do2]
      BY Zenon, <2>1, <2>7
    <2>9. /\ peer'.version = ve /\ peer'.alive = al /\ peer'.held = he2 /\ peer'.holds = ho /\ peer'.broke = br
          /\ peer'.prompts = pr2 /\ peer'.got = go2 /\ peer'.done = do2
      BY <2>8
    <2>10. PeerShaped'
      BY Zenon, <2>8, <2>9 DEF PeerShaped
    <2> QED BY Zenon, <1>2, <2>3, <2>4, <2>5, <2>6, <2>9, <2>10 DEF PeerAfter
  <1> QED BY Zenon, <1>1, <1>3, <1>9, <1>10, <1>11, <1>12

\* An event on the wire is no part of a reply.
LEMMA EventWired ==
  ASSUME NEW f \in Events, NEW lines, lines = <<Line(f, None)>>, NEW p
  PROVE  /\ lines \in Seq(Lines) /\ Len(lines) = 1 /\ lines[1].frame = f
         /\ Wired(lines) \in Seq(Halves) /\ Quiet(Wired(lines)) /\ Settled(Wired(lines), p)
  <1>1. Line(f, None) \in Lines /\ Line(f, None).of = None /\ Line(f, None).frame = f
    BY PartiesDiffer DEF Line, Lines
  <1>2. lines \in Seq(Lines) /\ Len(lines) = 1 /\ lines[1] = Line(f, None)
    BY <1>1
  <1>3. PICK w : w = Wired(lines)
    BY Zenon
  <1>4. w \in Seq(Halves) /\ Len(w) = 2 /\ \A i \in 1..2 : (i + 1) \div 2 = 1 /\ w[i].line = lines[1]
    <2>1. /\ w \in Seq(Halves) /\ Len(w) = 2 * Len(lines)
          /\ \A i \in 1..2 * Len(lines) : /\ (i + 1) \div 2 \in 1..Len(lines) /\ w[i].line = lines[(i + 1) \div 2]
      BY Zenon, <1>2, <1>3, WiredIs
    <2>2. 2 * Len(lines) = 2
      BY <1>2
    <2>3. \A i \in 1..2 : (i + 1) \div 2 = 1
      OBVIOUS
    <2> QED BY Zenon, <2>1, <2>2, <2>3
  <1>5. Quiet(w)
    <2>1. DOMAIN w = 1..2
      BY <1>4
    <2> QED BY Zenon, <1>1, <1>2, <1>4, <2>1 DEF Quiet
  <1>6. Settled(w, p)
    BY Zenon, <1>5 DEF Settled, Quiet
  <1> QED BY Zenon, <1>1, <1>2, <1>3, <1>4, <1>5, <1>6

\* A line of openvpn's own accord, or its end, leaves the rest of the peer alone.
PeerKept ==
    /\ PeerShaped' /\ peer'.version = peer.version /\ peer'.prompts = peer.prompts
    /\ peer'.got = peer.got /\ peer'.done = peer.done

\* So does each of them.
LEMMA PeerEventIs ==
  ASSUME PeerShaped, PeerHolds \/ PeerBreaks \/ PeerStops
  PROVE  PeerKept
  <1>1. PICK ve, al, he, ho, br, pr, go, do :
           peer = [version |-> ve, alive |-> al, held |-> he, holds |-> ho, broke |-> br,
                   prompts |-> pr, got |-> go, done |-> do]
    BY Zenon DEF PeerShaped
  <1>2. \E al2, he2, ho2, br2 : peer' = [version |-> ve, alive |-> al2, held |-> he2, holds |-> ho2, broke |-> br2,
                                         prompts |-> pr, got |-> go, done |-> do]
    <2>1. CASE PeerHolds
      <3>1. PICK he2 : he2 = TRUE
        BY Zenon
      <3>2. PICK ho2 : ho2 = ho + 1
        BY Zenon
      <3>3. peer.holds = ho
        BY <1>1
      <3>4. peer' = [peer EXCEPT !.held = he2, !.holds = ho2]
        BY Zenon, <2>1, <3>1, <3>2, <3>3 DEF PeerHolds
      <3>5. peer' = [version |-> ve, alive |-> al, held |-> he2, holds |-> ho2, broke |-> br,
                     prompts |-> pr, got |-> go, done |-> do]
        BY Zenon, <1>1, <3>4
      <3> QED BY Zenon, <3>5
    <2>2. CASE PeerBreaks
      <3>1. PICK br2 : br2 = TRUE
        BY Zenon
      <3>2. peer' = [peer EXCEPT !.broke = br2]
        BY Zenon, <2>2, <3>1 DEF PeerBreaks
      <3>3. peer' = [version |-> ve, alive |-> al, held |-> he, holds |-> ho, broke |-> br2,
                     prompts |-> pr, got |-> go, done |-> do]
        BY <1>1, <3>2
      <3> QED BY Zenon, <3>3
    <2>3. CASE PeerStops
      <3>1. PICK al2 : al2 = FALSE
        BY Zenon
      <3>2. peer' = [peer EXCEPT !.alive = al2]
        BY Zenon, <2>3, <3>1 DEF PeerStops
      <3>3. peer' = [version |-> ve, alive |-> al2, held |-> he, holds |-> ho, broke |-> br,
                     prompts |-> pr, got |-> go, done |-> do]
        BY <1>1, <3>2
      <3> QED BY Zenon, <3>3
    <2> QED BY <2>1, <2>2, <2>3
  <1>3. PICK al2, he2, ho2, br2 : peer' = [version |-> ve, alive |-> al2, held |-> he2, holds |-> ho2, broke |-> br2,
                                           prompts |-> pr, got |-> go, done |-> do]
    BY Zenon, <1>2
  <1>4. peer.version = ve /\ peer.prompts = pr /\ peer.got = go /\ peer.done = do
    BY <1>1
  <1>5. /\ peer'.version = ve /\ peer'.alive = al2 /\ peer'.held = he2 /\ peer'.holds = ho2 /\ peer'.broke = br2
        /\ peer'.prompts = pr /\ peer'.got = go /\ peer'.done = do
    BY <1>3
  <1>6. PeerShaped'
    BY Zenon, <1>3, <1>5 DEF PeerShaped
  <1> QED BY Zenon, <1>4, <1>5, <1>6 DEF PeerKept

\* openvpn reads a command.
LEMMA PeerReadsX ==
  ASSUME XInv, toPeer # <<>>, NEW shape \in Shapes(Head(toPeer)), PeerReads(shape)
  PROVE  XInv'
  <1>1. PICK command \in Commands : command = Head(toPeer)
    BY DEF XInv
  <1>2. PICK lines, n : /\ Sends(lines, command, n, peer.version) /\ PeerAfter(command, n)
                        /\ PeerShaped' /\ wire' = wire \o Wired(lines)
    BY Zenon, <1>1, PeerReadsIs
  <1>3. /\ toPeer' = Tail(toPeer) /\ buffered' = buffered /\ body' = body /\ outbox' = outbox
        /\ pending' = pending /\ channel' = channel /\ result' = result
    BY Zenon DEF PeerReads
  <1>4. PICK p, b, v : p = pending /\ b = body /\ v = peer.version
    BY Zenon
  <1>5. PICK s, w : s = buffered \o wire /\ w = Wired(lines)
    BY Zenon
  <1>6. lines \in Seq(Lines)
    BY Zenon, <1>2 DEF Sends
  <1>7. w \in Seq(Halves)
    BY <1>5, <1>6, WiredIs
  <1>8. wire \in Seq(Halves) /\ buffered \in Seq(Halves) /\ s \in Seq(Halves)
    BY <1>5 DEF XInv
  <1>9. buffered \o (wire \o w) = s \o w /\ wire \o w \in Seq(Halves)
    BY <1>5, <1>7, <1>8, ConcatAssociative, ConcatProperties
  <1>10. Matched(toPeer, s, p, b, v)
    BY Zenon, <1>4, <1>5 DEF XInv
  <1>11. toPeer \in Seq(Commands) /\ Tail(toPeer) \in Seq(Commands) /\ 1 \in DOMAIN toPeer /\ toPeer[1] = command
    BY <1>1 DEF XInv
  <1>12. \A i \in DOMAIN Tail(toPeer) : i + 1 \in DOMAIN toPeer /\ Tail(toPeer)[i] = toPeer[i + 1] /\ i + 1 # 1
    BY <1>11
  <1>13. CASE Awaited(command, v)
    <2>1. command.from = p /\ b = <<>> /\ Quiet(s) /\ \A j \in DOMAIN toPeer : Awaited(toPeer[j], v) => j = 1
      BY Zenon, <1>10, <1>11, <1>13 DEF Matched
    <2>2. \A i \in DOMAIN Tail(toPeer) : ~Awaited(Tail(toPeer)[i], v)
      BY Zenon, <1>12, <2>1
    <2>3. Settled(w, p)
      <3>1. /\ \A i \in 1..Len(lines) : lines[i].of \in {None, p}
            /\ \A i, j \in 1..Len(lines) : i < j /\ lines[i].frame \notin Events \cup {"DATA"} => lines[j].of = None
        BY Zenon, <1>2, <2>1 DEF Sends
      <3> QED BY <1>5, <1>6, <3>1, WiredSettles
    <2>4. Settled(s \o w, p)
      <3>1. Settled(s, p)
        BY Zenon, <1>10 DEF Matched
      <3> QED BY <1>7, <1>8, <2>1, <2>3, <3>1, SettledCat
    <2> QED BY Zenon, <1>2, <1>3, <1>4, <1>5, <1>8, <1>9, <1>10, <1>11, <2>2, <2>4 DEF XInv, Matched, PeerAfter
  <1>14. CASE ~Awaited(command, v)
    <2>1. lines = <<>>
      BY Zenon, <1>2, <1>4, <1>14 DEF Sends
    <2>2. Len(w) = 0
      <3>1. Len(w) = 2 * Len(lines)
        BY <1>5, <1>6, WiredIs
      <3> QED BY <2>1, <3>1
    <2>3. w = <<>>
      BY <1>7, <2>2, EmptySeq
    <2>4. s \o w = s
      BY <1>8, <2>3
    <2>5. \A i \in DOMAIN Tail(toPeer) : Awaited(Tail(toPeer)[i], v) =>
            /\ Tail(toPeer)[i].from = p /\ b = <<>> /\ Quiet(s)
            /\ \A j \in DOMAIN Tail(toPeer) : Awaited(Tail(toPeer)[j], v) => j = i
      <3> SUFFICES ASSUME NEW i \in DOMAIN Tail(toPeer), Awaited(Tail(toPeer)[i], v)
                   PROVE  /\ Tail(toPeer)[i].from = p /\ b = <<>> /\ Quiet(s)
                          /\ \A j \in DOMAIN Tail(toPeer) : Awaited(Tail(toPeer)[j], v) => j = i
        BY Zenon
      <3>1. toPeer[i + 1].from = p /\ b = <<>> /\ Quiet(s) /\ \A j \in DOMAIN toPeer : Awaited(toPeer[j], v) => j = i + 1
        BY Zenon, <1>10, <1>12 DEF Matched
      <3>2. \A j \in DOMAIN Tail(toPeer) : j + 1 = i + 1 => j = i
        BY <1>11
      <3> QED BY Zenon, <1>12, <3>1, <3>2
    <2> QED BY Zenon, <1>2, <1>3, <1>4, <1>5, <1>8, <1>9, <1>10, <1>11, <2>4, <2>5 DEF XInv, Matched, PeerAfter
  <1> QED BY <1>13, <1>14

\* openvpn sends a line of its own accord.
LEMMA PeerSendsX ==
  ASSUME XInv, PeerHolds \/ PeerBreaks
  PROVE  XInv'
  <1>1. PeerKept
    BY Zenon, PeerEventIs DEF XInv
  <1>2. PICK f \in Events : wire' = wire \o Wired(<<Line(f, None)>>)
    BY Zenon DEF PeerHolds, PeerBreaks, Events
  <1>3. /\ toPeer' = toPeer /\ buffered' = buffered /\ body' = body /\ outbox' = outbox
        /\ pending' = pending /\ channel' = channel /\ result' = result
    BY Zenon DEF PeerHolds, PeerBreaks
  <1>4. PICK p, b, v : p = pending /\ b = body /\ v = peer.version
    BY Zenon
  <1>5. PICK lines : lines = <<Line(f, None)>>
    BY Zenon
  <1>6. PICK s, w : s = buffered \o wire /\ w = Wired(lines)
    BY Zenon
  <1>7. w \in Seq(Halves) /\ Quiet(w) /\ Settled(w, p)
    BY <1>5, <1>6, EventWired
  <1>8. wire \in Seq(Halves) /\ buffered \in Seq(Halves) /\ s \in Seq(Halves)
    BY <1>6 DEF XInv
  <1>9. buffered \o (wire \o w) = s \o w /\ wire \o w \in Seq(Halves)
    BY <1>6, <1>7, <1>8, ConcatAssociative, ConcatProperties
  <1>10. Matched(toPeer, s, p, b, v)
    BY Zenon, <1>4, <1>6 DEF XInv
  <1>11. Settled(s \o w, p) /\ (Quiet(s) => Quiet(s \o w))
    <2>1. Settled(s, p)
      BY Zenon, <1>10 DEF Matched
    <2> QED BY <1>7, <1>8, <2>1, SettledCat
  <1>12. Matched(toPeer, s \o w, p, b, v)
    BY Zenon, <1>10, <1>11 DEF Matched
  <1> QED BY Zenon, <1>1, <1>2, <1>3, <1>4, <1>5, <1>6, <1>8, <1>9, <1>12 DEF XInv, PeerKept

\* The write at the top of the loop, which waits until nothing is pending.
LEMMA WriteX ==
  ASSUME XInv, Write
  PROVE  XInv'
  <1>1. PICK c \in Commands : c = Head(outbox)
    BY DEF XInv, Write
  <1>2. /\ pending = None /\ toPeer' = Append(toPeer, c) /\ outbox' = Tail(outbox) /\ outbox # <<>>
        /\ pending' = IF Awaited(c, peer.version) THEN c.from ELSE None
        /\ UNCHANGED <<peer, wire, buffered, body, channel, result>>
    BY Zenon, <1>1 DEF Write, ExpectsReply, Awaited
  <1>3. PICK s : s = buffered \o wire
    BY Zenon
  <1>4. PICK b, v : b = body /\ v = peer.version
    BY Zenon
  <1>5. PICK p : p = pending'
    BY Zenon
  <1>6. Matched(toPeer, s, None, b, v)
    BY Zenon, <1>2, <1>3, <1>4 DEF XInv
  <1>7. Quiet(s) /\ b = <<>>
    BY Zenon, <1>6 DEF Matched, Settled, Quiet
  <1>8. toPeer \in Seq(Commands) /\ Tail(outbox) \in Seq(Commands) /\ Append(toPeer, c) \in Seq(Commands)
    BY <1>1, <1>2 DEF XInv
  <1>9. \A i \in DOMAIN toPeer : ~Awaited(toPeer[i], v)
    <2>1. \A i \in DOMAIN toPeer : toPeer[i] \in Commands
      BY <1>8, ElementOfSeq, LenProperties
    <2>2. \A d \in Commands : d.from # None
      BY PartiesDiffer DEF Commands
    <2> QED BY Zenon, <1>6, <2>1, <2>2 DEF Matched
  <1>10. PICK z : z = Append(toPeer, c)
    BY Zenon
  <1>11. \A i \in DOMAIN z : Awaited(z[i], v) => i = Len(toPeer) + 1 /\ z[i].from = p
    <2>1. PICK m \in Nat : m = Len(toPeer)
      BY <1>8, LenProperties
    <2>2. /\ DOMAIN toPeer = 1..m /\ DOMAIN z = 1..(m + 1) /\ z[m + 1] = c
          /\ \A i \in 1..m : z[i] = toPeer[i]
      BY <1>8, <1>10, <2>1, AppendProperties, LenProperties
    <2>3. \A i \in 1..(m + 1) : i \in 1..m \/ i = m + 1
      OBVIOUS
    <2> QED BY Zenon, <1>2, <1>4, <1>5, <1>9, <2>1, <2>2, <2>3
  <1>12. p \in Parties \cup {None}
    BY <1>1, <1>2, <1>5 DEF Commands
  <1>13. Settled(s, p)
    BY Zenon, <1>7 DEF Settled, Quiet
  <1>14. DOMAIN <<>> = {}
    OBVIOUS
  <1>15. Matched(z, s, p, b, v)
    BY Zenon, <1>7, <1>11, <1>13, <1>14 DEF Matched
  <1> QED BY Zenon, <1>2, <1>3, <1>4, <1>5, <1>8, <1>10, <1>12, <1>15 DEF XInv, PeerShaped

\* A step of the actor's queues or of a sender.
LEMMA SenderX ==
  ASSUME XInv, outbox' \in Seq(Commands), channel' \in Seq(Commands), OwnResults(result'),
         UNCHANGED <<peer, toPeer, wire, buffered, body, pending>>
  PROVE  XInv'
  BY Zenon DEF XInv, PeerShaped

\* What a task is told that no reply told it.
LEMMA ToldIsOwn ==
  ASSUME OwnResults(result), NEW t \in Tasks, NEW st \in Statuses
  PROVE  OwnResults([result EXCEPT ![t] = Outcome(st)])
  <1>1. PICK out : out = Outcome(st)
    BY Zenon
  <1>2. out \in [st : Statuses, to : Parties \cup {None}, lines : Seq(Parties)] /\ out.to = None /\ out.lines = <<>>
    BY <1>1 DEF Outcome
  <1>3. OwnResults([result EXCEPT ![t] = out])
    BY <1>2 DEF OwnResults
  <1> QED BY Zenon, <1>1, <1>3

\* What the pending task is told when the actor ends.
LEMMA ToldPendingIsOwn ==
  ASSUME OwnResults(result), NEW slot \in Parties \cup {None}, NEW st \in Statuses
  PROVE  OwnResults(Answer(result, slot, Outcome(st)))
  <1>1. PICK out : out = Outcome(st)
    BY Zenon
  <1>2. /\ out \in [st : Statuses, to : Parties \cup {None}, lines : Seq(Parties)]
        /\ out.to = None /\ out.lines = <<>>
    BY <1>1 DEF Outcome
  <1>3. out.to \in {None, slot} /\ \A i \in DOMAIN out.lines : out.lines[i] = slot
    BY <1>2
  <1>4. OwnResults(Answer(result, slot, out))
    BY Zenon, <1>2, <1>3, AnswerIsOwn
  <1> QED BY Zenon, <1>1, <1>4

\* The commands of the handshake.
LEMMA HandshakeIs ==
  /\ DOMAIN Handshake = 1..5 /\ Len(Handshake) = 5 /\ Handshake[1] = "version" /\ Handshake[2] = "state on"
  /\ \A i \in 1..5 : Handshake[i] \in Verbs /\ (i # 1 => Handshake[i] # "version")
  BY DEF Handshake, Verbs

\* A command that is queued, or refused.
LEMMA EnqueueIs ==
  ASSUME XInv, NEW t \in Tasks, NEW c \in Commands, Enqueue(t, c)
  PROVE  channel' \in Seq(Commands) /\ OwnResults(result')
  <1>1. OwnResults([result EXCEPT ![t] = Outcome("Closed")]) /\ OwnResults([result EXCEPT ![t] = Outcome("waiting")])
    <2>1. "Closed" \in Statuses /\ "waiting" \in Statuses /\ OwnResults(result)
      BY DEF Statuses, XInv
    <2> QED BY Zenon, <2>1, ToldIsOwn
  <1>2. channel \in Seq(Commands) /\ Append(channel, c) \in Seq(Commands)
    BY DEF XInv
  <1> QED BY Zenon, <1>1, <1>2 DEF Enqueue

\* The actor ends, telling whoever waits why.
LEMMA EndingX ==
  ASSUME XInv, Expired \/ ReadEof \/ ClientDropped \/ ConnectFails
  PROVE  XInv'
  <1>1. OwnResults(result) /\ pending \in Parties \cup {None}
    BY Zenon DEF XInv
  <1>2. OwnResults(Answer(result, pending, Outcome("Timeout"))) /\ OwnResults(Answer(result, pending, Outcome("Eof")))
    <2>1. "Timeout" \in Statuses /\ "Eof" \in Statuses
      BY DEF Statuses
    <2> QED BY <1>1, <2>1, ToldPendingIsOwn
  <1>3. PICK results : End(results) /\ OwnResults(results) /\ UNCHANGED peer
    BY Zenon, <1>1, <1>2 DEF Expired, ReadEof, ClientDropped, ConnectFails
  <1> QED BY Zenon, <1>3, EndX

\* A receiver with an event that decides nothing goes on, without `connect` failing.
LEMMA GreetedIs ==
  ASSUME XInv, Greeted
  PROVE  ConnectFails \/ UNCHANGED <<peer, toPeer, wire, buffered, body, outbox, pending, channel, actor, result, typed>>
  <1>1. PICK g, first, v : g = feed["greeting"].lagged /\ first = Head(feed["greeting"].queue) /\ v = peer.version
    BY Zenon
  <1>2. v < 5 \/ v >= 5
    BY <1>1 DEF XInv
  <1>3. (g \/ (first = "INFO" /\ v < 5)) \/ (~g /\ (first = "INFO" => v >= 5))
    BY Zenon, <1>2
  <1> QED BY Zenon, <1>1, <1>3 DEF Greeted

\* What the handshake sends is a command.
LEMMA HandshakeCommand ==
  ASSUME NEW k \in DOMAIN Handshake, NEW c, c = Command(Connector, Handshake[k], <<>>)
  PROVE  c \in Commands /\ c.from = Connector /\ c.verb = Handshake[k]
  <1>1. Handshake[k] \in Verbs
    BY Zenon, HandshakeIs
  <1>2. <<>> \in Written /\ Connector \in Parties
    BY Zenon, PartiesDiffer DEF Written, Parties
  <1> QED BY <1>1, <1>2 DEF Commands, Command

\* connect
LEMMA ConnectX ==
  ASSUME XInv, ConnectStep
  PROVE  XInv'
  <1>1. CASE ConnectFails
    BY Zenon, <1>1, EndingX
  <1>2. OwnResults(result) /\ channel \in Seq(Commands) /\ outbox \in Seq(Commands)
    BY Zenon DEF XInv
  <1>3. CASE Greeted
    <2>1. ConnectFails \/ UNCHANGED <<peer, toPeer, wire, buffered, body, outbox, pending, channel, actor, result, typed>>
      BY <1>3, GreetedIs
    <2>2. CASE UNCHANGED <<peer, toPeer, wire, buffered, body, outbox, pending, channel, actor, result, typed>>
      BY Zenon, <1>2, <2>2, SenderX
    <2> QED BY <1>1, <2>1, <2>2
  <1>4. CASE NoGreeting
    BY Zenon, <1>1, <1>4 DEF NoGreeting
  <1>5. CASE HandshakeSends
    <2>1. PICK c : c = Command(Connector, Handshake[connect], <<>>)
      BY Zenon
    <2>2. connect \in DOMAIN Handshake
      BY Zenon, <1>5 DEF HandshakeSends
    <2>4. c \in Commands
      BY <2>1, <2>2, HandshakeCommand
    <2>5. /\ Enqueue(Connector, c) \/ (channel' = Append(channel, c) /\ UNCHANGED result)
          /\ UNCHANGED <<peer, toPeer, wire, buffered, body, outbox, pending, actor, typed, feed>>
      BY Zenon, <1>5, <2>1 DEF HandshakeSends
    <2>6. Append(channel, c) \in Seq(Commands)
      BY <1>2, <2>4
    <2>7. channel' \in Seq(Commands) /\ OwnResults(result')
      <3>1. CASE Enqueue(Connector, c)
        BY <2>4, <3>1, EnqueueIs, PartiesDiffer
      <3> QED BY Zenon, <1>2, <2>5, <2>6, <3>1
    <2> QED BY Zenon, <1>2, <2>5, <2>7, SenderX
  <1>6. CASE HandshakeGoesOn
    <2>1. CASE ~ConnectFails
      <3>1. /\ result' = [result EXCEPT ![Connector] = Outcome(None)]
            /\ UNCHANGED <<peer, toPeer, wire, buffered, body, outbox, pending, channel, actor, typed, feed>>
        BY Zenon, <1>6, <2>1 DEF HandshakeGoesOn
      <3>2. None \in Statuses
        BY DEF Statuses
      <3>3. OwnResults([result EXCEPT ![Connector] = Outcome(None)])
        BY Zenon, <1>2, <3>2, PartiesDiffer, ToldIsOwn
      <3> QED BY Zenon, <1>2, <3>1, <3>3, SenderX
    <2> QED BY <1>1, <2>1
  <1> QED BY Zenon, <1>3, <1>4, <1>5, <1>6 DEF ConnectStep

\* The tasks that send.
LEMMA CallerX ==
  ASSUME XInv, NEW t \in Callers, GiveUp(t) \/ \E raw \in Params : Send(t, raw)
  PROVE  XInv'
  <1>1. t \in Tasks /\ t \in Parties
    BY Zenon DEF Tasks, Parties
  <1>2. OwnResults(result) /\ channel \in Seq(Commands) /\ outbox \in Seq(Commands)
    BY Zenon DEF XInv
  <1>3. "gave up" \in Statuses /\ "Forbidden" \in Statuses
    BY DEF Statuses
  <1>4. OwnResults([result EXCEPT ![t] = Outcome("gave up")]) /\ OwnResults([result EXCEPT ![t] = Outcome("Forbidden")])
    BY Zenon, <1>1, <1>2, <1>3, ToldIsOwn
  <1>5. CASE GiveUp(t)
    BY Zenon, <1>2, <1>4, <1>5, SenderX DEF GiveUp
  <1>6. ASSUME NEW raw \in Params, Send(t, raw) PROVE XInv'
    <2>1. PICK w \in Written : w = EscapeParam(raw)
      BY Zenon DEF Written
    <2>2. PICK c : c = Command(t, "send", w)
      BY Zenon
    <2>3. c \in Commands
      BY <1>1, <2>2 DEF Commands, Command, Verbs
    <2>4. channel' \in Seq(Commands) /\ OwnResults(result')
      <3>1. CASE Enqueue(t, c)
        BY <1>1, <2>3, <3>1, EnqueueIs
      <3>2. Enqueue(t, c) \/ (result' = [result EXCEPT ![t] = Outcome("Forbidden")] /\ UNCHANGED channel)
        BY Zenon, <1>6, <2>1, <2>2 DEF Send
      <3> QED BY Zenon, <1>2, <1>4, <3>1, <3>2
    <2> QED BY Zenon, <1>2, <1>6, <2>4, SenderX DEF Send
  <1> QED BY Zenon, <1>5, <1>6

\* Commands and replies stay matched.
LEMMA XInvInductive ==
  ASSUME XInv, [MgmtNext]_mgmtVars
  PROVE  XInv'
  <1>1. OwnResults(result) /\ channel \in Seq(Commands) /\ outbox \in Seq(Commands)
    BY Zenon DEF XInv
  <1>2. CASE UNCHANGED mgmtVars
    BY Zenon, <1>1, <1>2, SenderX DEF mgmtVars
  <1>3. CASE PeerStep
    <2>1. CASE PeerStops
      <3>1. PeerKept
        BY Zenon, <2>1, PeerEventIs DEF XInv
      <3> QED BY Zenon, <2>1, <3>1 DEF XInv, PeerKept, PeerStops
    <2> QED BY Zenon, <1>3, <2>1, PeerReadsX, PeerSendsX DEF PeerStep
  <1>4. CASE TakeCommand
    <2>1. channel # <<>> /\ outbox' = Append(outbox, Head(channel)) /\ channel' = Tail(channel)
      BY Zenon, <1>4 DEF TakeCommand
    <2>2. outbox' \in Seq(Commands) /\ channel' \in Seq(Commands)
      BY <1>1, <2>1
    <2> QED BY Zenon, <1>1, <1>4, <2>2, SenderX DEF TakeCommand
  <1>5. CASE Receive
    BY Zenon, <1>1, <1>5, SenderX DEF Receive
  <1>6. CASE \E t \in Callers : GiveUp(t) \/ \E raw \in Params : Send(t, raw)
    BY Zenon, <1>6, CallerX
  <1>7. CASE ReadStep
    BY Zenon, <1>7, ReadX DEF ReadStep
  <1> QED BY Zenon, <1>2, <1>3, <1>4, <1>5, <1>6, <1>7, WriteX, EndingX, ConnectX DEF MgmtNext

\* They are to begin with.
LEMMA XInvInitially ==
  ASSUME MgmtInit
  PROVE  XInv
  <1>1. PICK v \in Versions : peer = [version |-> v, alive |-> TRUE, held |-> TRUE, holds |-> 0, broke |-> FALSE,
                                      prompts |-> 0, got |-> {}, done |-> <<>>]
    BY Zenon DEF MgmtInit
  <1>2. /\ peer.version = v /\ peer.alive = TRUE /\ peer.held = TRUE /\ peer.holds = 0 /\ peer.broke = FALSE
        /\ peer.prompts = 0 /\ peer.got = {} /\ peer.done = <<>>
    BY <1>1
  <1>3. PeerShaped
    BY Zenon, <1>1, <1>2 DEF PeerShaped
  <1>4. peer.version \in Nat
    BY <1>2, MgmtClientAssumption
  <1>5. wire \in Seq(Halves) /\ Quiet(wire)
    <2>1. CASE wire = <<>>
      BY <2>1 DEF Quiet
    <2>2. CASE wire = Wired(<<Line("INFO", None)>>)
      <3>1. PICK lines : lines = <<Line("INFO", None)>>
        BY Zenon
      <3>2. "INFO" \in Events
        BY DEF Events
      <3>3. Wired(lines) \in Seq(Halves) /\ Quiet(Wired(lines))
        BY <3>1, <3>2, EventWired
      <3> QED BY Zenon, <2>2, <3>1, <3>3
    <2> QED BY Zenon, <2>1, <2>2 DEF MgmtInit
  <1>6. OwnResults(result)
    <2>1. PICK out : out = Outcome(None)
      BY Zenon
    <2>2. out \in [st : Statuses, to : Parties \cup {None}, lines : Seq(Parties)] /\ out.to = None /\ out.lines = <<>>
      BY <2>1 DEF Outcome, Statuses
    <2>3. result = [t \in Tasks |-> out]
      BY Zenon, <2>1 DEF MgmtInit
    <2> QED BY <2>2, <2>3 DEF OwnResults
  <1>7. /\ toPeer = <<>> /\ buffered = <<>> /\ body = <<>> /\ outbox = <<>> /\ pending = None /\ channel = <<>>
    BY Zenon DEF MgmtInit
  <1>8. <<>> \o wire = wire /\ DOMAIN <<>> = {} /\ \A S : <<>> \in Seq(S)
    BY <1>5
  <1>9. Matched(<<>>, wire, None, <<>>, peer.version)
    BY Zenon, <1>5, <1>8 DEF Matched, Settled, Quiet
  <1> QED BY Zenon, <1>3, <1>4, <1>5, <1>6, <1>7, <1>8, <1>9 DEF XInv

-----------------------------------------------------------------------------
(* How a step moves the commands that openvpn has not read yet.            *)

\* Appending to the second of two sequences.
LEMMA CatAppend ==
  ASSUME NEW S, NEW a \in Seq(S), NEW b \in Seq(S), NEW e \in S
  PROVE  a \o Append(b, e) = Append(a \o b, e) /\ Append(b, e) \in Seq(S)
  <1>1. <<e>> \in Seq(S)
    OBVIOUS
  <1>2. Append(b, e) = b \o <<e>> /\ Append(b, e) \in Seq(S)
    BY AppendIsConcat, AppendProperties
  <1>3. a \o b \in Seq(S)
    BY ConcatProperties
  <1>4. Append(a \o b, e) = (a \o b) \o <<e>>
    BY <1>3, AppendIsConcat
  <1>5. (a \o b) \o <<e>> = a \o (b \o <<e>>)
    BY <1>1, ConcatAssociative
  <1> QED BY Zenon, <1>2, <1>4, <1>5

\* A sequence is its head and its tail.
LEMMA HeadThenTail ==
  ASSUME NEW S, NEW b \in Seq(S), b # <<>>
  PROVE  b = <<Head(b)>> \o Tail(b) /\ Head(b) \in S /\ Tail(b) \in Seq(S) /\ <<Head(b)>> \in Seq(S)
  <1>1. Head(b) \in S /\ Tail(b) \in Seq(S)
    BY HeadTailProperties
  <1>2. <<Head(b)>> \in Seq(S)
    BY <1>1
  <1>3. b = <<Head(b)>> \o Tail(b)
    BY <1>1, <1>2
  <1> QED BY Zenon, <1>1, <1>2, <1>3

\* The head of the second of two sequences goes to the end of the first.
LEMMA HeadMoves ==
  ASSUME NEW S, NEW a \in Seq(S), NEW b \in Seq(S), b # <<>>
  PROVE  Append(a, Head(b)) \o Tail(b) = a \o b
  <1>1. PICK e \in S : e = Head(b)
    BY HeadThenTail
  <1>2. PICK t \in Seq(S) : t = Tail(b)
    BY Zenon, HeadThenTail
  <1>3. b = <<e>> \o t /\ <<e>> \in Seq(S)
    BY Zenon, <1>1, <1>2, HeadThenTail
  <1>4. Append(a, e) = a \o <<e>>
    BY AppendIsConcat
  <1>5. (a \o <<e>>) \o t = a \o (<<e>> \o t)
    BY <1>3, ConcatAssociative
  <1> QED BY Zenon, <1>1, <1>2, <1>3, <1>4, <1>5

\* The tail of two sequences.
LEMMA TailOfCat ==
  ASSUME NEW S, NEW a \in Seq(S), NEW b \in Seq(S), a # <<>>
  PROVE  Tail(a) \o b = Tail(a \o b) /\ a \o b # <<>> /\ Head(a \o b) = Head(a)
  <1>1. PICK t \in Seq(S) : t = Tail(a)
    BY Zenon, HeadThenTail
  <1>2. Len(a) \in Nat /\ Len(b) \in Nat /\ Len(t) = Len(a) - 1 /\ Len(a) >= 1 /\ \A i \in 1..Len(t) : t[i] = a[i + 1]
    BY <1>1, HeadTailProperties, EmptySeq, LenProperties
  <1>3. PICK c \in Seq(S) : c = a \o b
    BY Zenon, ConcatProperties
  <1>4. Len(c) = Len(a) + Len(b) /\ \A i \in 1..Len(a) + Len(b) : c[i] = IF i <= Len(a) THEN a[i] ELSE b[i - Len(a)]
    BY <1>3, ConcatProperties
  <1>5. c # <<>> /\ Head(c) = c[1] /\ Head(a) = a[1] /\ c[1] = a[1]
    BY <1>2, <1>4
  <1>6. PICK d \in Seq(S) : d = Tail(c)
    BY Zenon, <1>5, HeadThenTail
  <1>7. Len(d) = Len(c) - 1 /\ \A i \in 1..Len(d) : d[i] = c[i + 1]
    BY <1>5, <1>6, HeadTailProperties
  <1>8. PICK f \in Seq(S) : f = t \o b
    BY Zenon, ConcatProperties
  <1>9. Len(f) = Len(t) + Len(b) /\ \A i \in 1..Len(t) + Len(b) : f[i] = IF i <= Len(t) THEN t[i] ELSE b[i - Len(t)]
    BY <1>8, ConcatProperties
  <1>10. Len(f) = Len(d)
    BY <1>2, <1>4, <1>7, <1>9
  <1>11. ASSUME NEW i \in 1..Len(f) PROVE f[i] = d[i]
    <2>1. i \in 1..Len(d) /\ i \in 1..Len(t) + Len(b) /\ i + 1 \in 1..Len(a) + Len(b) /\ d[i] = c[i + 1]
      BY <1>2, <1>7, <1>9, <1>10
    <2>2. CASE i <= Len(t)
      <3>1. i \in 1..Len(t) /\ i + 1 <= Len(a)
        BY <1>2, <2>1, <2>2
      <3> QED BY Zenon, <1>2, <1>4, <1>9, <2>1, <2>2, <3>1
    <2>3. CASE ~(i <= Len(t))
      <3>1. ~(i + 1 <= Len(a)) /\ i - Len(t) = (i + 1) - Len(a)
        BY <1>2, <2>1, <2>3
      <3> QED BY Zenon, <1>4, <1>9, <2>1, <2>3, <3>1
    <2> QED BY <2>2, <2>3
  <1>12. f = d
    BY <1>10, <1>11, SeqEqual
  <1> QED BY Zenon, <1>1, <1>3, <1>5, <1>6, <1>8, <1>12

\* The commands openvpn has not read yet, in the order in which it will.
Queued == (toPeer \o outbox) \o channel

\* q with n releases of the hold put in after its first m commands.
Inserted(q, z, m, n) ==
    /\ m \in Nat /\ n \in Nat /\ m <= Len(q) /\ z \in Seq(Commands) /\ Len(z) = Len(q) + n
    /\ \A i \in 1..Len(q) : z[IF i <= m THEN i ELSE i + n] = q[i]
    /\ \A i \in (m + 1)..(m + n) : z[i] = HoldRelease

\* Commands put in between.
LEMMA InsertIs ==
  ASSUME NEW a \in Seq(Commands), NEW c \in Seq(Commands), NEW h \in Seq(Commands),
         \A i \in 1..Len(h) : h[i] = HoldRelease
  PROVE  Inserted(a \o c, (a \o h) \o c, Len(a), Len(h))
  <1>1. Len(a) \in Nat /\ Len(h) \in Nat /\ Len(c) \in Nat
    BY LenProperties
  <1>a. PICK m \in Nat, n \in Nat, k \in Nat : m = Len(a) /\ n = Len(h) /\ k = Len(c)
    BY Zenon, <1>1
  <1>2. PICK q \in Seq(Commands) : q = a \o c
    BY Zenon, ConcatProperties
  <1>3. Len(q) = m + k /\ \A i \in 1..(m + k) : q[i] = IF i <= m THEN a[i] ELSE c[i - m]
    BY <1>a, <1>2, ConcatProperties
  <1>4. PICK b \in Seq(Commands) : b = a \o h
    BY Zenon, ConcatProperties
  <1>5. Len(b) = m + n /\ \A i \in 1..(m + n) : b[i] = IF i <= m THEN a[i] ELSE h[i - m]
    BY <1>a, <1>4, ConcatProperties
  <1>6. PICK z \in Seq(Commands) : z = b \o c
    BY Zenon, ConcatProperties
  <1>7. /\ Len(z) = (m + n) + k
        /\ \A i \in 1..((m + n) + k) : z[i] = IF i <= m + n THEN b[i] ELSE c[i - (m + n)]
    <2>1. /\ Len(b \o c) = Len(b) + Len(c)
          /\ \A i \in 1..(Len(b) + Len(c)) : (b \o c)[i] = IF i <= Len(b) THEN b[i] ELSE c[i - Len(b)]
      BY ConcatProperties
    <2> QED BY Zenon, <1>a, <1>5, <1>6, <2>1
  <1>8. ASSUME NEW i \in 1..(m + k) PROVE z[IF i <= m THEN i ELSE i + n] = q[i]
    <2>1. CASE i <= m
      <3>1. i \in 1..((m + n) + k) /\ i <= m + n /\ i \in 1..(m + n)
        BY <2>1
      <3> QED BY Zenon, <1>3, <1>5, <1>7, <2>1, <3>1
    <2>2. CASE ~(i <= m)
      <3>1. i + n \in 1..((m + n) + k) /\ ~(i + n <= m + n) /\ (i + n) - (m + n) = i - m
        BY <2>2
      <3> QED BY Zenon, <1>3, <1>7, <2>2, <3>1
    <2> QED BY <2>1, <2>2
  <1>9. ASSUME NEW i \in (m + 1)..(m + n) PROVE z[i] = HoldRelease
    <2>1. i \in 1..((m + n) + k) /\ i <= m + n /\ i \in 1..(m + n) /\ ~(i <= m) /\ i - m \in 1..n
      OBVIOUS
    <2> QED BY Zenon, <1>a, <1>5, <1>7, <2>1
  <1>10. m <= m + k /\ (m + n) + k = (m + k) + n
    OBVIOUS
  <1>11. Inserted(q, z, m, n)
    BY Zenon, <1>3, <1>7, <1>8, <1>9, <1>10 DEF Inserted
  <1> QED BY Zenon, <1>a, <1>2, <1>4, <1>6, <1>11

-----------------------------------------------------------------------------
(* What a read changes besides.                                            *)

\* The outbox grows by releases of the hold only, and a task is told something
\* only when it waits, when a reply to it was on its way, and as the last.
Carried(x, o, r, stream) ==
    /\ \E h \in Seq({HoldRelease}) : x.outbox = o \o h
    /\ \A t \in Tasks : x.result[t] # r[t] =>
         /\ r[t].st = "waiting" /\ x.result[t].st \notin {None, "waiting"} /\ x.pending = None
         /\ \E i \in DOMAIN stream : stream[i].line.of = t

\* One half more.
LEMMA CarryStep ==
  ASSUME NEW stream \in Seq(Halves), NEW k \in 1..Len(stream), NEW p, NEW b,
         NEW x, RoutedUpto(x, stream, k - 1, p, b), NEW o0 \in Seq(Commands), NEW r0, Carried(x, o0, r0, stream)
  PROVE  Carried(RouteNext(x, stream[k]), o0, r0, stream)
  <1>1. PICK half \in Halves : half = stream[k]
    BY ElementOfSeq
  <1>2. PICK line \in Lines : line = half.line
    BY DEF Halves
  <1>3. k \in DOMAIN stream
    BY LenProperties
  <1>4. CASE ~(half.part = 2 /\ x.actor = "running")
    <2>1. RouteNext(x, half) = x
      BY Zenon, <1>4 DEF RouteNext
    <2> QED BY Zenon, <1>1, <2>1
  <1>5. CASE half.part = 2 /\ x.actor = "running"
    <2>1. PICK y : y = RouteNext(x, half)
      BY Zenon
    <2>2. PICK o, c, d, r, f, a : /\ o = x.outbox /\ c = x.pending /\ d = x.body
                                  /\ r = x.result /\ f = x.feed /\ a = x.actor
      BY Zenon
    <2>3. x = Routing(o, c, d, r, f, a)
      BY Zenon, <2>2 DEF RoutedUpto
    <2>4. y = RouteLine(Routing(o, c, d, r, f, a), line)
      BY Zenon, <1>2, <1>5, <2>1, <2>3 DEF RouteNext
    <2>5. /\ line.of \in {None, c} /\ line.of \in Parties \cup {None} /\ (line.frame \in Events <=> line.of = None)
          /\ line.frame \in Events \cup {"SUCCESS", "ERROR", "DATA", "END"}
      <3>1. k > k - 1
        OBVIOUS
      <3>2. line.of \in {None, c}
        BY Zenon, <1>1, <1>2, <1>3, <2>2, <3>1 DEF RoutedUpto
      <3> QED BY <3>2 DEF Lines
    <2>6. PICK h \in Seq({HoldRelease}) : o = o0 \o h
      BY Zenon, <2>2 DEF Carried
    <2>7. \A t \in Tasks : r[t] # r0[t] =>
            /\ r0[t].st = "waiting" /\ r[t].st \notin {None, "waiting"} /\ c = None
            /\ \E i \in DOMAIN stream : stream[i].line.of = t
      BY Zenon, <2>2 DEF Carried
    <2>8. CASE line.frame \in Events
      <3>1. PICK o2, f2, a2 : o2 = OutboxAfter(o, line) /\ f2 = FeedAfter(f, line) /\ a2 = ActorAfter(a, line)
        BY Zenon
      <3>2. y = Routing(o2, c, d, r, f2, a2)
        BY <2>4, <2>8, <3>1, RouteLineIs
      <3>3. y.outbox = o2 /\ y.pending = c /\ y.result = r
        BY <3>2, RoutingFields
      <3>4. \E g \in Seq({HoldRelease}) : o2 = o0 \o g
        <4>1. PICK e : e = HoldRelease
          BY Zenon
        <4>2. Append(h, e) \in Seq({e}) /\ Append(o0 \o h, e) = o0 \o Append(h, e)
          <5>1. e \in Commands
            BY Zenon, <4>1 DEF HoldRelease, Command, Commands, Parties, Verbs, Written
          <5>2. h \in Seq({e}) /\ e \in {e} /\ {e} \subseteq Commands
            BY Zenon, <2>6, <4>1, <5>1
          <5>3. h \in Seq(Commands)
            BY <5>2, SeqMonotonic
          <5>4. Append(h, e) \in Seq({e})
            BY <5>2, AppendProperties
          <5>5. o0 \o Append(h, e) = Append(o0 \o h, e)
            BY <5>1, <5>3, CatAppend
          <5> QED BY Zenon, <5>4, <5>5
        <4>3. CASE o2 = o
          BY Zenon, <2>6, <4>3
        <4>4. CASE o2 = Append(o, e)
          BY Zenon, <2>6, <4>1, <4>2, <4>4
        <4> QED BY Zenon, <3>1, <4>1, <4>3, <4>4 DEF OutboxAfter
      <3> QED BY Zenon, <1>1, <2>1, <2>7, <3>3, <3>4 DEF Carried
    <2>9. CASE line.frame \notin Events
      <3>1. line.of = c /\ c # None /\ c \in Parties
        BY Zenon, <2>5, <2>9
      <3>2. CASE line.frame = "DATA"
        <4>1. PICK d2 : d2 = Append(d, line.of)
          BY Zenon
        <4>2. y = Routing(o, c, d2, r, f, a)
          BY <2>4, <3>1, <3>2, <4>1, RouteLineIs
        <4>3. y.outbox = o /\ y.pending = c /\ y.result = r
          BY <4>2, RoutingFields
        <4> QED BY Zenon, <1>1, <2>1, <2>6, <2>7, <4>3 DEF Carried
      <3>3. CASE line.frame # "DATA"
        <4>1. line.frame \notin Events \cup {"DATA"} /\ line.frame \notin {None, "waiting"}
          BY <2>5, <2>9, <3>3 DEF None
        <4>2. PICK out : out = Replied(line, d)
          BY Zenon
        <4>3. PICK r2 : r2 = Answer(r, c, out)
          BY Zenon
        <4>4. y = Routing(o, None, <<>>, r2, f, a)
          BY SMTT(30), <2>4, <3>1, <4>1, <4>2, <4>3, RouteLineIs
        <4>5. y.outbox = o /\ y.pending = None /\ y.result = r2
          BY <4>4 DEF Routing
        <4>6. out.st = line.frame
          BY <4>2 DEF Replied
        <4>7. \A t \in Tasks : r[t] = r0[t]
          BY Zenon, <2>7, <3>1
        <4>8. r \in [Tasks -> [st : Statuses, to : Parties \cup {None}, lines : Seq(Parties)]]
          BY Zenon, <2>2 DEF RoutedUpto, OwnResults
        <4>9. \A t \in Tasks : r2[t] # r[t] => t = c /\ r[t].st = "waiting" /\ r2[t] = out
          BY <4>3, <4>8 DEF Answer
        <4>10. stream[k].line.of = c
          BY Zenon, <1>1, <1>2, <3>1
        <4>11. \A t \in Tasks : r2[t] # r0[t] =>
                 /\ r0[t].st = "waiting" /\ r2[t].st \notin {None, "waiting"}
                 /\ \E i \in DOMAIN stream : stream[i].line.of = t
          BY Zenon, <1>3, <4>1, <4>6, <4>7, <4>9, <4>10
        <4> QED BY Zenon, <1>1, <2>1, <2>6, <4>5, <4>11 DEF Carried
      <3> QED BY <3>2, <3>3
    <2> QED BY <2>8, <2>9
  <1> QED BY <1>4, <1>5

\* What holds of a read, in one place: how its chunk was routed, up to any half.
RoutedBy(chunk, rest, r) ==
    /\ ReadsBy(chunk, rest, r) /\ RouteTrace(r, Routing(outbox, pending, body, result, feed, actor), chunk)
    /\ \A k \in 0..Len(chunk) : RoutedUpto(r[k], chunk \o rest, k, pending, body)
    /\ Carried(r[Len(chunk)], outbox, result, chunk \o rest)

\* Every read is routed so.
LEMMA ReadRouted ==
  ASSUME XInv, NEW n \in 1..Len(wire), Read(n)
  PROVE  \E chunk, rest, r : RoutedBy(chunk, rest, r)
  <1>1. PICK chunk, rest, r : ReadsBy(chunk, rest, r)
    BY Zenon, ReadIs
  <1>2. actor = "running"
    BY Zenon, ReadIs
  <1>3. PICK stream : stream = buffered \o wire
    BY Zenon
  <1>4. chunk \in Seq(Halves) /\ rest \in Seq(Halves) /\ chunk \o rest = stream
    BY Zenon, <1>1, <1>3 DEF ReadsBy
  <1>5. PICK s : s = Routing(outbox, pending, body, result, feed, actor)
    BY Zenon
  <1>6. RouteTrace(r, s, chunk)
    BY Zenon, <1>1, <1>5 DEF ReadsBy
  <1>7. PICK p, b, v : p = pending /\ b = body /\ v = peer.version
    BY Zenon
  <1>8. Matched(toPeer, stream, p, b, v) /\ Settled(stream, p) /\ stream \in Seq(Halves)
    BY Zenon, <1>3, <1>4, <1>7, ConcatProperties DEF XInv, Matched
  <1>9. /\ s.outbox = outbox /\ s.pending = p /\ s.body = b /\ s.result = result
        /\ s.feed = feed /\ s.actor = actor
    BY <1>5, <1>7, RoutingFields
  <1>10. RoutedUpto(s, stream, 0, p, b)
    <2>1. s = Routing(s.outbox, s.pending, s.body, s.result, s.feed, s.actor)
      BY Zenon, <1>5, <1>7, <1>9
    <2>2. /\ outbox \in Seq(Commands) /\ b \in Seq(Parties) /\ p \in Parties \cup {None} /\ OwnResults(result)
          /\ actor \in {"running", "ended"}
      BY Zenon, <1>2, <1>7 DEF XInv
    <2> QED BY Zenon, <1>8, <1>9, <2>1, <2>2 DEF RoutedUpto, Settled, Matched
  <1>11. \A k \in 0..Len(chunk) : RoutedUpto(r[k], stream, k, p, b)
    <2>1. Settled(chunk \o rest, p) /\ RoutedUpto(s, chunk \o rest, 0, p, b)
      BY Zenon, <1>4, <1>8, <1>10
    <2>2. \A k \in 0..Len(chunk) : RoutedUpto(r[k], chunk \o rest, k, p, b)
      BY Zenon, <1>4, <1>6, <2>1, RouteAll
    <2> QED BY Zenon, <1>4, <2>2
  <1>12. PICK m \in Nat : m = Len(chunk)
    BY <1>4, LenProperties
  <1>13. m <= Len(stream) /\ Len(stream) \in Nat /\ \A k \in 1..m : stream[k] = chunk[k]
    BY <1>4, <1>12
  <1>14. PICK o0, r0 : o0 = outbox /\ r0 = result
    BY Zenon
  <1>15. o0 \in Seq(Commands)
    BY Zenon, <1>14 DEF XInv
  <1> DEFINE G == {k \in 0..m : Carried(r[k], o0, r0, stream)}
  <1>16. 0 \in G
    <2>1. r[0] = s
      BY Zenon, <1>6 DEF RouteTrace
    <2>2. <<>> \in Seq({HoldRelease}) /\ o0 = o0 \o <<>> /\ 0 \in 0..m
      BY <1>15
    <2> QED BY Zenon, <1>9, <1>14, <2>1, <2>2 DEF Carried
  <1>17. ASSUME NEW k \in 1..m, k - 1 \in G PROVE k \in G
    <2>1. r[k] = RouteNext(r[k - 1], stream[k])
      BY Zenon, <1>6, <1>12, <1>13 DEF RouteTrace
    <2>2. k \in 1..Len(stream) /\ k \in 0..m /\ k - 1 \in 0..m
      BY <1>13
    <2>3. PICK x : x = r[k - 1]
      BY Zenon
    <2>4. RoutedUpto(x, stream, k - 1, p, b) /\ Carried(x, o0, r0, stream)
      BY Zenon, <1>11, <1>12, <1>17, <2>2, <2>3
    <2>5. Carried(RouteNext(x, stream[k]), o0, r0, stream)
      BY <1>8, <1>15, <2>2, <2>4, CarryStep
    <2> QED BY Zenon, <2>1, <2>2, <2>3, <2>5
  <1>18. m \in G
    <2>1. G \in SUBSET (0..m) /\ m \in 0..m
      OBVIOUS
    <2> HIDE DEF G
    <2> QED BY Zenon, <1>16, <1>17, <2>1, IndexInduction
  <1>19. RoutedBy(chunk, rest, r)
    <2>1. Carried(r[m], o0, r0, stream)
      BY Zenon, <1>18
    <2> QED BY Zenon, <1>1, <1>4, <1>5, <1>6, <1>7, <1>11, <1>12, <1>14, <2>1 DEF RoutedBy
  <1> QED BY Zenon, <1>19

-----------------------------------------------------------------------------
(* The queue of unread commands, step by step.                             *)

\* It is one of commands.
LEMMA QueuedIs ==
  ASSUME XInv
  PROVE  /\ toPeer \in Seq(Commands) /\ outbox \in Seq(Commands) /\ channel \in Seq(Commands)
         /\ toPeer \o outbox \in Seq(Commands) /\ outbox \o channel \in Seq(Commands) /\ Queued \in Seq(Commands)
         /\ Queued = toPeer \o (outbox \o channel)
         /\ \A i \in DOMAIN Queued : Queued[i] \in Commands
  <1>1. toPeer \in Seq(Commands) /\ outbox \in Seq(Commands) /\ channel \in Seq(Commands)
    BY Zenon DEF XInv
  <1>2. toPeer \o outbox \in Seq(Commands) /\ outbox \o channel \in Seq(Commands)
    BY <1>1, ConcatProperties
  <1>3. PICK q \in Seq(Commands) : q = (toPeer \o outbox) \o channel
    BY Zenon, <1>1, <1>2, ConcatProperties
  <1>4. (toPeer \o outbox) \o channel = toPeer \o (outbox \o channel)
    BY <1>1, ConcatAssociative
  <1>5. \A i \in DOMAIN q : q[i] \in Commands
    BY ElementOfSeq, LenProperties
  <1> QED BY Zenon, <1>1, <1>2, <1>3, <1>4, <1>5 DEF Queued

\* A command moves from queue to queue, and keeps its place.
LEMMA MovesOn ==
  ASSUME XInv, Write \/ TakeCommand
  PROVE  Queued' = Queued
  <1>1. CASE Write
    <2>1. /\ toPeer' = Append(toPeer, Head(outbox)) /\ outbox' = Tail(outbox) /\ outbox # <<>>
          /\ channel' = channel
      BY Zenon, <1>1 DEF Write
    <2>2. Append(toPeer, Head(outbox)) \o Tail(outbox) = toPeer \o outbox
      BY SMTT(30), <2>1, QueuedIs, HeadMoves
    <2> QED BY Zenon, <2>1, <2>2 DEF Queued
  <1>2. CASE TakeCommand
    <2>1. /\ outbox' = Append(outbox, Head(channel)) /\ channel' = Tail(channel) /\ channel # <<>>
          /\ toPeer' = toPeer
      BY Zenon, <1>2 DEF TakeCommand
    <2>2. PICK c \in Commands : c = Head(channel)
      BY <2>1, QueuedIs, HeadTailProperties
    <2>3. toPeer \o Append(outbox, c) = Append(toPeer \o outbox, c)
      BY QueuedIs, CatAppend
    <2>4. Append(toPeer \o outbox, Head(channel)) \o Tail(channel) = (toPeer \o outbox) \o channel
      BY SMTT(30), <2>1, QueuedIs, HeadMoves
    <2> QED BY Zenon, <2>1, <2>2, <2>3, <2>4 DEF Queued
  <1> QED BY <1>1, <1>2

\* openvpn reads the first.
LEMMA FirstIsRead ==
  ASSUME XInv, toPeer # <<>>, toPeer' = Tail(toPeer), outbox' = outbox, channel' = channel
  PROVE  Queued # <<>> /\ Queued' = Tail(Queued) /\ Head(Queued) = Head(toPeer)
  <1>1. PICK a, b, c : a = toPeer /\ b = outbox /\ c = channel
    BY Zenon
  <1>2. a \in Seq(Commands) /\ b \in Seq(Commands) /\ c \in Seq(Commands) /\ a \o b \in Seq(Commands) /\ a # <<>>
    BY Zenon, <1>1, QueuedIs
  <1>3. Tail(a) \o b = Tail(a \o b) /\ a \o b # <<>> /\ Head(a \o b) = Head(a)
    BY <1>2, TailOfCat
  <1>4. Tail(a \o b) \o c = Tail((a \o b) \o c) /\ (a \o b) \o c # <<>> /\ Head((a \o b) \o c) = Head(a \o b)
    BY SMTT(30), <1>2, <1>3, TailOfCat
  <1>5. Queued = (a \o b) \o c /\ Queued' = (Tail(a) \o b) \o c
    BY Zenon, <1>1 DEF Queued
  <1> QED BY Zenon, <1>1, <1>3, <1>4, <1>5

\* A task adds a command at the end.
LEMMA LastIsAdded ==
  ASSUME XInv, NEW c \in Commands, toPeer' = toPeer, outbox' = outbox, channel' = Append(channel, c)
  PROVE  Queued' = Append(Queued, c)
  <1>1. (toPeer \o outbox) \o Append(channel, c) = Append((toPeer \o outbox) \o channel, c)
    BY QueuedIs, CatAppend
  <1> QED BY Zenon, <1>1 DEF Queued

\* A read puts releases of the hold in between.
LEMMA ReleasesComeBetween ==
  ASSUME XInv, NEW h \in Seq({HoldRelease}), outbox' = outbox \o h, toPeer' = toPeer, channel' = channel
  PROVE  \E m, n : Inserted(Queued, Queued', m, n)
  <1>1. HoldRelease \in Commands
    BY Zenon DEF HoldRelease, Command, Commands, Parties, Verbs, Written
  <1>2. h \in Seq(Commands)
    BY <1>1, SeqMonotonic
  <1>3. \A i \in 1..Len(h) : h[i] = HoldRelease
    <2>1. \A i \in 1..Len(h) : h[i] \in {HoldRelease}
      BY ElementOfSeq
    <2> QED BY Zenon, <2>1
  <1>4. PICK a \in Seq(Commands) : a = toPeer \o outbox
    BY Zenon, QueuedIs
  <1>5. channel \in Seq(Commands)
    BY Zenon, QueuedIs
  <1>6. Inserted(a \o channel, (a \o h) \o channel, Len(a), Len(h))
    BY <1>2, <1>3, <1>5, InsertIs
  <1>7. toPeer \o (outbox \o h) = a \o h
    <2>1. PICK s, t, S : s \in Seq(Commands) /\ t \in Seq(Commands) /\ s = toPeer /\ t = outbox /\ S = Commands
      BY Zenon, QueuedIs
    <2>2. s \in Seq(S) /\ t \in Seq(S) /\ h \in Seq(S)
      BY Zenon, <1>2, <2>1
    <2>3. (s \o t) \o h = s \o (t \o h)
      BY <2>2, ConcatAssociative
    <2> QED BY Zenon, <1>4, <2>1, <2>3
  <1> QED BY Zenon, <1>4, <1>6, <1>7 DEF Queued

\* Nothing else is put in.
LEMMA InsertedOnly ==
  ASSUME NEW q \in Seq(Commands), NEW z, NEW m, NEW n, Inserted(q, z, m, n)
  PROVE  \A i \in DOMAIN z : z[i] = HoldRelease \/ \E j \in DOMAIN q : z[i] = q[j]
  <1>1. PICK k \in Nat : k = Len(q)
    BY LenProperties
  <1>2. DOMAIN q = 1..k /\ DOMAIN z = 1..(k + n) /\ m \in Nat /\ n \in Nat /\ m <= k
    <2>1. m \in Nat /\ n \in Nat /\ m <= k /\ z \in Seq(Commands) /\ Len(z) = k + n
      BY Zenon, <1>1 DEF Inserted
    <2>2. DOMAIN z = 1..Len(z) /\ DOMAIN q = 1..Len(q)
      BY <2>1, LenProperties
    <2> QED BY Zenon, <1>1, <2>1, <2>2
  <1>3. /\ \A i \in 1..k : z[IF i <= m THEN i ELSE i + n] = q[i]
        /\ \A i \in (m + 1)..(m + n) : z[i] = HoldRelease
    BY Zenon, <1>1 DEF Inserted
  <1> SUFFICES ASSUME NEW i \in 1..(k + n) PROVE z[i] = HoldRelease \/ \E j \in 1..k : z[i] = q[j]
    BY Zenon, <1>2
  <1>4. CASE i <= m
    <2>1. i \in 1..k
      BY <1>2, <1>4
    <2> QED BY Zenon, <1>3, <1>4, <2>1
  <1>5. CASE i > m /\ i <= m + n
    <2>1. i \in (m + 1)..(m + n)
      BY <1>2, <1>5
    <2> QED BY Zenon, <1>3, <2>1
  <1>6. CASE i > m + n
    <2>1. i - n \in 1..k /\ ~(i - n <= m) /\ (i - n) + n = i
      BY <1>2, <1>6
    <2> QED BY Zenon, <1>3, <2>1
  <1> QED BY <1>2, <1>4, <1>5, <1>6

\* The actor is gone, and the queue with it.
LEMMA EndEmpties ==
  ASSUME NEW results, End(results)
  PROVE  Queued' = <<>> /\ DOMAIN Queued' = {} /\ buffered' \o wire' = <<>> /\ DOMAIN (buffered' \o wire') = {}
  <1>1. (<<>> \o <<>>) \o <<>> = <<>> /\ <<>> \o <<>> = <<>> /\ DOMAIN <<>> = {}
    OBVIOUS
  <1> QED BY Zenon, <1>1 DEF End, Queued

-----------------------------------------------------------------------------
(* A command is what its task typed.                                       *)

\* A queued command of a task carries what the task typed, escaped, and the
\* task has called `send`; what openvpn has read of it is what was typed.
TypedInv ==
    /\ typed \in [Callers -> Params \cup {<<>>}]
    /\ \A i \in DOMAIN Queued : Queued[i].from \in Callers =>
         /\ Queued[i].param = EscapeParam(typed[Queued[i].from]) /\ result[Queued[i].from].st # None
    /\ \A got \in peer.got : /\ got[1] \in Callers /\ result[got[1]].st # None
                             /\ got[2] = Lexed("closed", typed[got[1]])

\* No task forgets that it called `send`.
Remembered == \A t \in Callers : result[t].st # None => result'[t].st # None

\* It stays so where nothing new is queued, or only what is no caller's.
LEMMA TypedKept ==
  ASSUME TypedInv, Remembered, typed' = typed, peer'.got = peer.got,
         \A i \in DOMAIN Queued' : Queued'[i].from \notin Callers \/ \E j \in DOMAIN Queued : Queued'[i] = Queued[j]
  PROVE  TypedInv'
  <1>1. \A i \in DOMAIN Queued' : Queued'[i].from \in Callers =>
          /\ Queued'[i].param = EscapeParam(typed[Queued'[i].from]) /\ result'[Queued'[i].from].st # None
    BY Zenon DEF TypedInv, Remembered
  <1>2. \A got \in peer.got : /\ got[1] \in Callers /\ result'[got[1]].st # None
                              /\ got[2] = Lexed("closed", typed[got[1]])
    BY Zenon DEF TypedInv, Remembered
  <1> QED BY Zenon, <1>1, <1>2 DEF TypedInv

\* openvpn's lexer makes of the head of the queue what its task typed.
LEMMA HeadIsTyped ==
  ASSUME TypedInv, NEW c, c.from \in Callers, c.param = EscapeParam(typed[c.from])
  PROVE  Lex(c.param) = Lexed("closed", typed[c.from])
  <1>1. PICK C : C = STRING \cup {"q", "b"}
    BY Zenon
  <1>2. PICK S : S = STRING
    BY Zenon
  <1>3. {"q", "b"} \subseteq C /\ S \subseteq C
    BY Zenon, <1>1, <1>2
  <1>4. \A raw \in Params : raw \in Seq(C)
    <2>1. \A raw \in Params : raw \in Seq(S)
      BY Zenon, <1>2, MgmtClientAssumption
    <2> QED BY <1>3, <2>1, SeqMonotonic
  <1>5. <<>> \in Seq(C)
    OBVIOUS
  <1>6. PICK raw : raw = typed[c.from]
    BY Zenon
  <1>7. raw \in Params \cup {<<>>}
    BY <1>6 DEF TypedInv
  <1>8. raw \in Seq(C)
    BY Zenon, <1>4, <1>5, <1>7
  <1>9. Lex(EscapeParam(raw)) = Lexed("closed", raw)
    BY <1>3, <1>8, EscapeParamIsLossless
  <1> QED BY Zenon, <1>6, <1>9

\* openvpn reads a command.
LEMMA PeerReadsT ==
  ASSUME XInv, TypedInv, toPeer # <<>>, NEW shape \in Shapes(Head(toPeer)), PeerReads(shape)
  PROVE  TypedInv'
  <1>1. PICK command : command = Head(toPeer)
    BY Zenon
  <1>2. PICK lines, n : PeerAfter(command, n)
    BY Zenon, <1>1, PeerReadsIs
  <1>3. toPeer' = Tail(toPeer) /\ outbox' = outbox /\ channel' = channel /\ result' = result /\ typed' = typed
    BY Zenon DEF PeerReads
  <1>4. PICK q \in Seq(Commands) : q = Queued
    BY QueuedIs
  <1>5. q # <<>> /\ Queued' = Tail(q) /\ Head(q) = command
    <2>1. Queued # <<>> /\ Queued' = Tail(Queued) /\ Head(Queued) = Head(toPeer)
      BY <1>3, FirstIsRead
    <2> QED BY Zenon, <1>1, <1>4, <2>1
  <1>6. 1 \in DOMAIN q /\ q[1] = command /\ \A i \in DOMAIN Tail(q) : i + 1 \in DOMAIN q /\ Tail(q)[i] = q[i + 1]
    <2>1. Len(q) \in Nat \ {0} /\ DOMAIN q = 1..Len(q) /\ Head(q) = q[1]
      BY <1>5, EmptySeq, LenProperties
    <2>2. Tail(q) \in Seq(Commands) /\ Len(Tail(q)) = Len(q) - 1 /\ \A i \in 1..Len(Tail(q)) : Tail(q)[i] = q[i + 1]
      BY <1>5, HeadTailProperties
    <2>3. DOMAIN Tail(q) = 1..Len(Tail(q))
      BY <2>2, LenProperties
    <2>4. 1 \in 1..Len(q) /\ \A i \in 1..Len(Tail(q)) : i + 1 \in 1..Len(q)
      BY <2>1, <2>2
    <2> QED BY Zenon, <1>5, <2>1, <2>2, <2>3, <2>4
  <1>7. \A i \in DOMAIN Queued' : Queued'[i].from \in Callers =>
          /\ Queued'[i].param = EscapeParam(typed'[Queued'[i].from]) /\ result'[Queued'[i].from].st # None
    BY Zenon, <1>3, <1>4, <1>5, <1>6 DEF TypedInv
  <1>8. command.from \in Callers => /\ command.param = EscapeParam(typed[command.from])
                                    /\ result[command.from].st # None
    BY Zenon, <1>4, <1>6 DEF TypedInv
  <1>9. \A got \in peer'.got : /\ got[1] \in Callers /\ result'[got[1]].st # None
                               /\ got[2] = Lexed("closed", typed'[got[1]])
    <2>1. CASE command.from \notin Callers
      BY Zenon, <1>2, <1>3, <2>1 DEF TypedInv, PeerAfter
    <2>2. CASE command.from \in Callers
      <3>1. Lex(command.param) = Lexed("closed", typed[command.from])
        BY <1>8, <2>2, HeadIsTyped
      <3>2. PICK x, y : x = command.from /\ y = Lex(command.param)
        BY Zenon
      <3>3. peer'.got = peer.got \cup {<<x, y>>}
        BY Zenon, <1>2, <2>2, <3>2 DEF PeerAfter
      <3>4. <<x, y>>[1] = x /\ <<x, y>>[2] = y
        OBVIOUS
      <3> QED BY Zenon, <1>3, <1>8, <2>2, <3>1, <3>2, <3>3, <3>4 DEF TypedInv
    <2> QED BY <2>1, <2>2
  <1>10. typed' \in [Callers -> Params \cup {<<>>}]
    BY Zenon, <1>3 DEF TypedInv
  <1> QED BY Zenon, <1>7, <1>9, <1>10 DEF TypedInv

\* The actor is gone.
LEMMA EndT ==
  ASSUME TypedInv, NEW results, End(results), typed' = typed, peer' = peer,
         \A t \in Callers : result[t].st # None => results[t].st # None
  PROVE  TypedInv'
  <1>1. \A i \in DOMAIN Queued' : Queued'[i].from \notin Callers \/ \E j \in DOMAIN Queued : Queued'[i] = Queued[j]
    BY Zenon, EndEmpties
  <1>2. Remembered
    <2>1. PICK out : out = Outcome("Closed")
      BY Zenon
    <2>2. out.st # None
      BY <2>1 DEF Outcome, None
    <2>3. result' = [t \in Tasks |-> IF results[t].st = "waiting" THEN out ELSE results[t]]
      BY Zenon, <2>1 DEF End, Closed
    <2>4. \A t \in Callers : result'[t] = out \/ result'[t] = results[t]
      BY <2>3 DEF Tasks
    <2> QED BY Zenon, <2>2, <2>4 DEF Remembered
  <1> QED BY Zenon, <1>1, <1>2, TypedKept

\* A read.
LEMMA ReadT ==
  ASSUME XInv, TypedInv, NEW n \in 1..Len(wire), Read(n)
  PROVE  TypedInv'
  <1>1. PICK chunk, rest, r : RoutedBy(chunk, rest, r)
    BY ReadRouted
  <1>2. PICK z : z = r[Len(chunk)]
    BY Zenon
  <1>3. Carried(z, outbox, result, chunk \o rest) /\ ReadsBy(chunk, rest, r)
    BY Zenon, <1>1, <1>2 DEF RoutedBy
  <1>4. peer' = peer /\ typed' = typed
    BY Zenon, ReadIs
  <1>5. \A t \in Callers : result[t].st # None => z.result[t].st # None
    <2>1. \A t \in Callers : t \in Tasks
      BY Zenon DEF Tasks
    <2> QED BY Zenon, <1>3, <2>1 DEF Carried
  <1>6. CASE z.actor = "ended"
    <2>1. End(z.result)
      BY Zenon, <1>2, <1>3, <1>6 DEF ReadsBy
    <2> QED BY Zenon, <1>4, <1>5, <2>1, EndT
  <1>7. CASE z.actor # "ended"
    <2>1. result' = z.result /\ outbox' = z.outbox /\ channel' = channel /\ toPeer' = toPeer
      BY Zenon, <1>2, <1>3, <1>7 DEF ReadsBy
    <2>2. PICK h \in Seq({HoldRelease}) : outbox' = outbox \o h
      BY Zenon, <1>3, <2>1 DEF Carried
    <2>3. PICK m, k : Inserted(Queued, Queued', m, k)
      BY Zenon, <2>1, <2>2, ReleasesComeBetween
    <2>4. Queued \in Seq(Commands)
      BY Zenon, QueuedIs
    <2>5. \A i \in DOMAIN Queued' : Queued'[i] = HoldRelease \/ \E j \in DOMAIN Queued : Queued'[i] = Queued[j]
      BY <2>3, <2>4, InsertedOnly
    <2>6. HoldRelease.from \notin Callers
      BY Zenon, MgmtClientAssumption DEF HoldRelease, Command, Actor
    <2>7. Remembered
      BY Zenon, <1>5, <2>1 DEF Remembered
    <2> QED BY Zenon, <1>4, <2>5, <2>6, <2>7, TypedKept
  <1> QED BY <1>6, <1>7

\* The tasks that send, one command each.
LEMMA CallerT ==
  ASSUME XInv, TypedInv, NEW t \in Callers, GiveUp(t) \/ \E raw \in Params : Send(t, raw)
  PROVE  TypedInv'
  <1>1. result \in [Tasks -> [st : Statuses, to : Parties \cup {None}, lines : Seq(Parties)]] /\ t \in Tasks
    BY Zenon DEF XInv, OwnResults, Tasks
  <1>2. ASSUME NEW st, st # None, result' = [result EXCEPT ![t] = Outcome(st)]
        PROVE  /\ result'[t].st # None
               /\ \A u \in Tasks : u # t => result'[u] = result[u]
               /\ Remembered
    <2>1. PICK out : out = Outcome(st)
      BY Zenon
    <2>2. out.st # None
      BY <1>2, <2>1 DEF Outcome
    <2>3. result' = [result EXCEPT ![t] = out]
      BY Zenon, <1>2, <2>1
    <2>4. result'[t] = out /\ \A u \in Tasks : u # t => result'[u] = result[u]
      BY <1>1, <2>3
    <2>5. \A u \in Callers : u \in Tasks
      BY Zenon DEF Tasks
    <2> QED BY Zenon, <2>2, <2>4, <2>5 DEF Remembered
  <1>3. CASE GiveUp(t)
    <2>1. /\ result' = [result EXCEPT ![t] = Outcome("gave up")] /\ typed' = typed /\ peer' = peer
          /\ toPeer' = toPeer /\ outbox' = outbox /\ channel' = channel
      BY Zenon, <1>3 DEF GiveUp
    <2>2. "gave up" # None
      BY DEF None
    <2>3. Remembered /\ Queued' = Queued
      BY Zenon, <1>2, <2>1, <2>2 DEF Queued
    <2> QED BY Zenon, <2>1, <2>3, TypedKept
  <1>4. ASSUME NEW raw \in Params, Send(t, raw) PROVE TypedInv'
    <2>1. /\ typed' = [typed EXCEPT ![t] = raw] /\ result[t].st = None /\ peer' = peer
          /\ toPeer' = toPeer /\ outbox' = outbox
      BY Zenon, <1>4 DEF Send
    <2>2. PICK c : c = Command(t, "send", EscapeParam(raw))
      BY Zenon
    <2>3. PICK st : /\ st \in {"Forbidden", "Closed", "waiting"} /\ result' = [result EXCEPT ![t] = Outcome(st)]
                    /\ channel' = channel \/ channel' = Append(channel, c)
      <3>1. CASE Forbidden(raw)
        BY Zenon, <1>4, <3>1 DEF Send
      <3>2. CASE ~Forbidden(raw)
        BY Zenon, <1>4, <2>2, <3>2 DEF Send, Enqueue
      <3> QED BY <3>1, <3>2
    <2>4. st # None
      BY <2>3 DEF None
    <2>5. result'[t].st # None /\ Remembered
      BY Zenon, <1>2, <2>3, <2>4
    <2>6. typed' \in [Callers -> Params \cup {<<>>}] /\ typed'[t] = raw /\ \A u \in Callers : u # t => typed'[u] = typed[u]
      BY <2>1 DEF TypedInv
    <2>7. \A got \in peer'.got : /\ got[1] \in Callers /\ result'[got[1]].st # None
                                 /\ got[2] = Lexed("closed", typed'[got[1]])
      BY Zenon, <2>1, <2>5, <2>6 DEF TypedInv, Remembered
    <2>8. \A i \in DOMAIN Queued : Queued[i].from \in Callers =>
            /\ Queued[i].param = EscapeParam(typed'[Queued[i].from]) /\ result'[Queued[i].from].st # None
      BY Zenon, <2>1, <2>5, <2>6 DEF TypedInv, Remembered
    <2>9. c.from = t /\ c.param = EscapeParam(typed'[t])
      <3>1. c.from = t /\ c.param = EscapeParam(raw)
        BY <2>2 DEF Command
      <3> QED BY Zenon, <2>6, <3>1
    <2>10. \A i \in DOMAIN Queued' : Queued'[i].from \in Callers =>
             /\ Queued'[i].param = EscapeParam(typed'[Queued'[i].from]) /\ result'[Queued'[i].from].st # None
      <3>1. CASE channel' = channel
        <4>1. Queued' = Queued
          BY Zenon, <2>1, <3>1 DEF Queued
        <4> QED BY Zenon, <2>8, <4>1
      <3>2. CASE channel' = Append(channel, c)
        <4>1. c \in Commands
          <5>1. EscapeParam(raw) \in Written /\ t \in Parties
            BY Zenon, <1>1 DEF Written, Parties
          <5> QED BY <2>2, <5>1 DEF Commands, Command, Verbs
        <4>2. PICK q \in Seq(Commands) : q = Queued
          BY QueuedIs
        <4>3. PICK z : z = Append(q, c)
          BY Zenon
        <4>4. Queued' = z
          <5>1. Queued' = Append(Queued, c)
            BY SMTT(30), <2>1, <3>2, <4>1, LastIsAdded
          <5> QED BY Zenon, <4>2, <4>3, <5>1
        <4>5. \A i \in DOMAIN z : (i \in DOMAIN q /\ z[i] = q[i]) \/ z[i] = c
          BY <4>1, <4>3
        <4> QED BY Zenon, <2>5, <2>8, <2>9, <4>2, <4>4, <4>5
      <3> QED BY Zenon, <2>3, <3>1, <3>2
    <2> QED BY Zenon, <2>6, <2>7, <2>10 DEF TypedInv
  <1> QED BY Zenon, <1>3, <1>4

\* The handshake is nobody's parameter.
LEMMA ConnectT ==
  ASSUME XInv, TypedInv, ConnectStep \/ Expired \/ ReadEof \/ ClientDropped
  PROVE  TypedInv'
  <1>1. ASSUME NEW st \in {"Timeout", "Eof"}
        PROVE  \A t \in Callers : result[t].st # None => Answer(result, pending, Outcome(st))[t].st # None
    <2>1. PICK out : out = Outcome(st)
      BY Zenon
    <2>2. out.st # None
      BY <1>1, <2>1 DEF Outcome, None
    <2>3. result \in [Tasks -> [st : Statuses, to : Parties \cup {None}, lines : Seq(Parties)]]
      BY Zenon DEF XInv, OwnResults
    <2>4. \A t \in Callers : Answer(result, pending, out)[t] \in {result[t], out}
      BY <2>3 DEF Answer, Tasks
    <2> QED BY Zenon, <2>1, <2>2, <2>4
  <1>2. ASSUME NEW results, End(results), UNCHANGED <<peer, typed>>,
               \A t \in Callers : result[t].st # None => results[t].st # None
        PROVE  TypedInv'
    BY Zenon, <1>2, EndT
  <1>3. CASE Expired \/ ReadEof
    <2>1. "Timeout" \in {"Timeout", "Eof"} /\ "Eof" \in {"Timeout", "Eof"}
      OBVIOUS
    <2> QED BY Zenon, <1>1, <1>2, <1>3, <2>1 DEF Expired, ReadEof
  <1>4. CASE ConnectFails \/ ClientDropped
    BY Zenon, <1>2, <1>4 DEF ConnectFails, ClientDropped
  <1>5. ASSUME UNCHANGED <<peer, toPeer, outbox, channel, result, typed>> PROVE TypedInv'
    <2>1. Queued' = Queued /\ Remembered
      BY Zenon, <1>5 DEF Queued, Remembered
    <2> QED BY Zenon, <1>5, <2>1, TypedKept
  <1>6. CASE Greeted
    <2>1. ConnectFails \/ UNCHANGED <<peer, toPeer, wire, buffered, body, outbox, pending, channel, actor, result, typed>>
      BY <1>6, GreetedIs
    <2> QED BY Zenon, <1>4, <1>5, <2>1
  <1>7. Connector \in Tasks /\ \A t \in Callers : t \in Tasks /\ t # Connector
    BY Zenon, PartiesDiffer DEF Tasks
  <1>8. ASSUME NEW st, result' = [result EXCEPT ![Connector] = Outcome(st)] PROVE Remembered
    <2>1. PICK out : out = Outcome(st)
      BY Zenon
    <2>2. result' = [result EXCEPT ![Connector] = out]
      BY Zenon, <1>8, <2>1
    <2>3. result \in [Tasks -> [st : Statuses, to : Parties \cup {None}, lines : Seq(Parties)]]
      BY Zenon DEF XInv, OwnResults
    <2>4. \A t \in Callers : result'[t] = result[t]
      BY <1>7, <2>2, <2>3
    <2> QED BY Zenon, <2>4 DEF Remembered
  <1>9. CASE HandshakeSends
    <2>1. PICK c : c = Command(Connector, Handshake[connect], <<>>)
      BY Zenon
    <2>2. c \in Commands /\ c.from = Connector
      <3>1. connect \in DOMAIN Handshake
        BY Zenon, <1>9 DEF HandshakeSends
      <3> QED BY <2>1, <3>1, HandshakeCommand
    <2>3. /\ toPeer' = toPeer /\ outbox' = outbox /\ peer' = peer /\ typed' = typed
          /\ channel' = channel \/ channel' = Append(channel, c)
          /\ result' = result \/ \E st : result' = [result EXCEPT ![Connector] = Outcome(st)]
      BY Zenon, <1>9, <2>1 DEF HandshakeSends, Enqueue
    <2>4. Remembered
      BY Zenon, <1>8, <2>3 DEF Remembered
    <2>5. CASE channel' = channel
      <3>1. Queued' = Queued
        BY Zenon, <2>3, <2>5 DEF Queued
      <3> QED BY Zenon, <2>3, <2>4, <3>1, TypedKept
    <2>6. CASE channel' = Append(channel, c)
      <3>1. PICK q \in Seq(Commands) : q = Queued
        BY QueuedIs
      <3>2. PICK z : z = Append(q, c)
        BY Zenon
      <3>3. Queued' = z
        <4>1. Queued' = Append(Queued, c)
          BY <2>2, <2>3, <2>6, LastIsAdded
        <4> QED BY Zenon, <3>1, <3>2, <4>1
      <3>4. \A i \in DOMAIN z : (i \in DOMAIN q /\ z[i] = q[i]) \/ z[i] = c
        BY <2>2, <3>2
      <3>5. c.from \notin Callers
        BY Zenon, <1>7, <2>2
      <3> QED BY Zenon, <2>3, <2>4, <3>1, <3>3, <3>4, <3>5, TypedKept
    <2> QED BY <2>3, <2>5, <2>6
  <1>10. CASE HandshakeGoesOn
    <2>1. CASE ~ConnectFails
      <3>1. /\ result' = [result EXCEPT ![Connector] = Outcome(None)] /\ typed' = typed /\ peer' = peer
            /\ toPeer' = toPeer /\ outbox' = outbox /\ channel' = channel
        BY Zenon, <1>10, <2>1 DEF HandshakeGoesOn
      <3>2. Queued' = Queued /\ Remembered
        BY Zenon, <1>8, <3>1 DEF Queued
      <3> QED BY Zenon, <3>1, <3>2, TypedKept
    <2> QED BY <1>4, <2>1
  <1> QED BY Zenon, <1>3, <1>4, <1>6, <1>9, <1>10 DEF ConnectStep, NoGreeting

\* Commands stay what was typed.
LEMMA TypedInductive ==
  ASSUME XInv, TypedInv, [MgmtNext]_mgmtVars
  PROVE  TypedInv'
  <1>1. ASSUME typed' = typed, result' = result, peer'.got = peer.got, Queued' = Queued PROVE TypedInv'
    <2>1. Remembered
      BY Zenon, <1>1 DEF Remembered
    <2> QED BY Zenon, <1>1, <2>1, TypedKept
  <1>2. CASE UNCHANGED mgmtVars \/ Receive
    <2>1. typed' = typed /\ result' = result /\ peer' = peer /\ toPeer' = toPeer /\ outbox' = outbox /\ channel' = channel
      BY Zenon, <1>2 DEF mgmtVars, Receive
    <2> QED BY Zenon, <1>1, <2>1 DEF Queued
  <1>3. CASE PeerHolds \/ PeerBreaks \/ PeerStops
    <2>1. PeerKept
      BY Zenon, <1>3, PeerEventIs DEF XInv
    <2>2. typed' = typed /\ result' = result /\ toPeer' = toPeer /\ outbox' = outbox /\ channel' = channel
      BY Zenon, <1>3 DEF PeerHolds, PeerBreaks, PeerStops
    <2> QED BY Zenon, <1>1, <2>1, <2>2 DEF Queued, PeerKept
  <1>4. CASE Write \/ TakeCommand
    <2>1. Queued' = Queued
      BY Zenon, <1>4, MovesOn
    <2>2. typed' = typed /\ result' = result /\ peer' = peer
      BY Zenon, <1>4 DEF Write, TakeCommand
    <2> QED BY Zenon, <1>1, <2>1, <2>2
  <1>5. CASE \E t \in Callers : GiveUp(t) \/ \E raw \in Params : Send(t, raw)
    BY Zenon, <1>5, CallerT
  <1>6. CASE ReadStep
    BY Zenon, <1>6, ReadT DEF ReadStep
  <1> QED BY Zenon, <1>2, <1>3, <1>4, <1>5, <1>6, PeerReadsT, ConnectT DEF MgmtNext, PeerStep

\* A command and its reply are the caller's own (the model-checked ExchangeIsOwn),
\* for every number of tasks, every parameter and every way in which holds,
\* abandoned commands and split reads come between.
THEOREM ExchangeIsOwnAlways == MgmtSpec => []ExchangeIsOwn
  <1>1. MgmtInit => XInv /\ TypedInv
    <2> SUFFICES ASSUME MgmtInit PROVE TypedInv
      BY XInvInitially
    <2>1. Queued = <<>> /\ DOMAIN Queued = {}
      <3>1. (<<>> \o <<>>) \o <<>> = <<>> /\ DOMAIN <<>> = {}
        OBVIOUS
      <3> QED BY Zenon, <3>1 DEF MgmtInit, Queued
    <2>2. peer.got = {}
      BY DEF MgmtInit
    <2>3. typed \in [Callers -> Params \cup {<<>>}]
      BY DEF MgmtInit
    <2> QED BY Zenon, <2>1, <2>2, <2>3 DEF TypedInv
  <1>2. XInv /\ TypedInv /\ [MgmtNext]_mgmtVars => XInv' /\ TypedInv'
    BY XInvInductive, TypedInductive
  <1>3. XInv /\ TypedInv => ExchangeIsOwn
    <2> SUFFICES ASSUME XInv, TypedInv PROVE ExchangeIsOwn
      OBVIOUS
    <2>1. \A t \in Tasks : result[t].to \in {None, t} /\ \A i \in DOMAIN result[t].lines : result[t].lines[i] = t
      BY Zenon DEF XInv, OwnResults
    <2>2. \A t \in Tasks : DOMAIN result[t].lines = 1..Len(result[t].lines)
      <3>1. \A t \in Tasks : result[t].lines \in Seq(Parties)
        BY DEF XInv, OwnResults
      <3> QED BY <3>1, LenProperties
    <2> QED BY Zenon, <2>1, <2>2 DEF ExchangeIsOwn, TypedInv
  <1> QED BY <1>1, <1>2, <1>3, PTL DEF MgmtSpec

-----------------------------------------------------------------------------
(* The commands of the handshake in the queues.                             *)


\* f finds in q the commands d + 1 to n of the handshake: they are the ones
\* `connect` has queued there, in order, and only the last is answered.
Finds(f, q, d, n, v) ==
    /\ f \in [(d + 1)..n -> DOMAIN q]
    /\ \A i, j \in (d + 1)..n : i < j => f[i] < f[j]
    /\ \A i \in (d + 1)..n : /\ q[f[i]].from = Connector /\ q[f[i]].verb = Handshake[i]
                             /\ Awaited(q[f[i]], v) => i = n
    /\ \A j \in DOMAIN q : q[j].from = Connector => \E i \in (d + 1)..n : f[i] = j

Trails(q, d, n, v) == d \in Nat /\ n \in Nat /\ d <= n /\ \E f : Finds(f, q, d, n, v)

\* Where all are read, none is queued.
LEMMA TrailsDone ==
  ASSUME NEW q, NEW d \in Nat, NEW v, Trails(q, d, d, v)
  PROVE  \A j \in DOMAIN q : q[j].from # Connector
  <1>1. PICK f : Finds(f, q, d, d, v)
    BY Zenon DEF Trails
  <1>2. (d + 1)..d = {}
    OBVIOUS
  <1> QED BY Zenon, <1>1, <1>2 DEF Finds

\* With none queued.
LEMMA TrailsNone ==
  ASSUME NEW q, \A j \in DOMAIN q : q[j].from # Connector, NEW d \in Nat, NEW v
  PROVE  Trails(q, d, d, v)
  <1>1. (d + 1)..d = {} /\ d <= d
    OBVIOUS
  <1>2. PICK f : f = [i \in {} |-> i]
    BY Zenon
  <1>3. f \in [{} -> DOMAIN q]
    BY <1>2
  <1>4. Finds(f, q, d, d, v)
    BY Zenon, <1>1, <1>3 DEF Finds
  <1> QED BY Zenon, <1>1, <1>4 DEF Trails

\* g takes the commands of q to other places in z, in the same order, and no other
\* command there is of `connect`.
Shifts(g, q, z) ==
    /\ g \in [DOMAIN q -> DOMAIN z] /\ \A i, j \in DOMAIN q : i < j => g[i] < g[j]
    /\ \A i \in DOMAIN q : z[g[i]] = q[i]
    /\ \A j \in DOMAIN z : z[j].from = Connector => \E i \in DOMAIN q : g[i] = j

\* The same commands at other places.
LEMMA TrailsMoved ==
  ASSUME NEW q, NEW z, NEW d, NEW n, NEW v, Trails(q, d, n, v), NEW g, Shifts(g, q, z)
  PROVE  Trails(z, d, n, v)
  <1>1. PICK f : Finds(f, q, d, n, v)
    BY Zenon DEF Trails
  <1>2. PICK D : D = (d + 1)..n
    BY Zenon
  <1>3. f \in [D -> DOMAIN q]
    BY Zenon, <1>1, <1>2 DEF Finds
  <1>4. PICK h : h = [i \in D |-> g[f[i]]]
    BY Zenon
  <1>5. h \in [D -> DOMAIN z] /\ \A i \in D : h[i] = g[f[i]] /\ f[i] \in DOMAIN q
    BY <1>3, <1>4 DEF Shifts
  <1>6. \A i, j \in D : i < j => h[i] < h[j]
    <2> SUFFICES ASSUME NEW i \in D, NEW j \in D, i < j PROVE h[i] < h[j]
      BY Zenon
    <2>1. f[i] < f[j]
      BY Zenon, <1>1, <1>2 DEF Finds
    <2>2. g[f[i]] < g[f[j]]
      BY Zenon, <1>5, <2>1 DEF Shifts
    <2> QED BY Zenon, <1>5, <2>2
  <1>7. \A i \in D : z[h[i]] = q[f[i]]
    BY Zenon, <1>5 DEF Shifts
  <1>8. \A j \in DOMAIN z : z[j].from = Connector => \E i \in D : h[i] = j
    <2> SUFFICES ASSUME NEW j \in DOMAIN z, z[j].from = Connector PROVE \E i \in D : h[i] = j
      BY Zenon
    <2>1. PICK k \in DOMAIN q : g[k] = j
      BY Zenon DEF Shifts
    <2>2. q[k].from = Connector
      BY Zenon, <2>1 DEF Shifts
    <2>3. PICK i \in D : f[i] = k
      BY Zenon, <1>1, <1>2, <2>2 DEF Finds
    <2> QED BY Zenon, <1>5, <2>1, <2>3
  <1>9. Finds(h, z, d, n, v)
    BY Zenon, <1>1, <1>2, <1>5, <1>6, <1>7, <1>8 DEF Finds
  <1> QED BY Zenon, <1>9 DEF Trails

\* Another's command at the end, and releases of the hold in between.
LEMMA TrailsAmong ==
  ASSUME NEW q \in Seq(Commands), NEW d, NEW n, NEW v, Trails(q, d, n, v)
  PROVE  /\ \A c \in Commands : c.from # Connector => Trails(Append(q, c), d, n, v)
         /\ \A z, m, k : Inserted(q, z, m, k) => Trails(z, d, n, v)
  <1>1. PICK l \in Nat : l = Len(q)
    BY LenProperties
  <1>2. DOMAIN q = 1..l
    BY <1>1, LenProperties
  <1>3. ASSUME NEW c \in Commands, c.from # Connector PROVE Trails(Append(q, c), d, n, v)
    <2>1. PICK z : z = Append(q, c)
      BY Zenon
    <2>2. DOMAIN z = 1..(l + 1) /\ z[l + 1] = c /\ \A i \in 1..l : z[i] = q[i]
      BY <1>1, <2>1, AppendProperties, LenProperties
    <2>3. PICK g : g = [i \in 1..l |-> i]
      BY Zenon
    <2>4. /\ g \in [1..l -> 1..(l + 1)] /\ \A i \in 1..l : g[i] = i
          /\ \A i \in 1..(l + 1) : i \in 1..l \/ i = l + 1
      BY <2>3
    <2>5. /\ \A i, j \in DOMAIN q : i < j => g[i] < g[j]
          /\ \A i \in DOMAIN q : z[g[i]] = q[i]
          /\ \A j \in DOMAIN z : z[j].from = Connector => \E i \in DOMAIN q : g[i] = j
      BY Zenon, <1>2, <1>3, <2>2, <2>4
    <2>6. Shifts(g, q, z)
      BY Zenon, <1>2, <2>2, <2>4, <2>5 DEF Shifts
    <2>7. Trails(z, d, n, v)
      BY <2>6, TrailsMoved
    <2> QED BY Zenon, <2>1, <2>7
  <1>4. ASSUME NEW z, NEW m, NEW k, Inserted(q, z, m, k) PROVE Trails(z, d, n, v)
    <2>1. m \in Nat /\ k \in Nat /\ m <= l /\ z \in Seq(Commands) /\ Len(z) = l + k
      BY Zenon, <1>1, <1>4 DEF Inserted
    <2>2. DOMAIN z = 1..(l + k)
      <3>1. DOMAIN z = 1..Len(z)
        BY <2>1, LenProperties
      <3> QED BY Zenon, <2>1, <3>1
    <2>3. PICK g : g = [i \in 1..l |-> IF i <= m THEN i ELSE i + k]
      BY Zenon
    <2>4. /\ g \in [1..l -> 1..(l + k)] /\ \A i \in 1..l : g[i] = IF i <= m THEN i ELSE i + k
      BY <2>1, <2>3
    <2>5. \A i, j \in 1..l : i < j => g[i] < g[j]
      BY <2>1, <2>4
    <2>6. \A i \in 1..l : z[g[i]] = q[i]
      BY Zenon, <1>1, <1>4, <2>4 DEF Inserted
    <2>7. ASSUME NEW j \in 1..(l + k), z[j].from = Connector PROVE \E i \in 1..l : g[i] = j
      <3>1. j \notin (m + 1)..(m + k)
        <4>1. HoldRelease.from # Connector
          BY DEF HoldRelease, Command, Actor, Connector
        <4> QED BY Zenon, <1>4, <2>7, <4>1 DEF Inserted
      <3>2. CASE j <= m
        <4>1. j \in 1..l /\ g[j] = j
          BY <2>1, <2>4, <3>2
        <4> QED BY Zenon, <4>1
      <3>3. CASE ~(j <= m)
        <4>1. j - k \in 1..l /\ ~(j - k <= m) /\ (j - k) + k = j
          BY <2>1, <3>1, <3>3
        <4>2. g[j - k] = j
          BY Zenon, <2>4, <4>1
        <4> QED BY Zenon, <4>1, <4>2
      <3> QED BY <3>2, <3>3
    <2>8. Shifts(g, q, z)
      BY Zenon, <1>2, <2>2, <2>4, <2>5, <2>6, <2>7 DEF Shifts
    <2> QED BY <2>8, TrailsMoved
  <1> QED BY Zenon, <1>3, <1>4

\* The next command of the handshake at the end, where none queued is answered.
LEMMA TrailsAdded ==
  ASSUME NEW q \in Seq(Commands), NEW d, NEW n, NEW v, Trails(q, d, n, v),
         \A i \in DOMAIN q : q[i].from = Connector => ~Awaited(q[i], v),
         NEW c \in Commands, c.from = Connector, c.verb = Handshake[n + 1]
  PROVE  Trails(Append(q, c), d, n + 1, v)
  <1>1. PICK l \in Nat : l = Len(q)
    BY LenProperties
  <1>2. PICK z : z = Append(q, c)
    BY Zenon
  <1>3. DOMAIN q = 1..l /\ DOMAIN z = 1..(l + 1) /\ z[l + 1] = c /\ \A i \in 1..l : z[i] = q[i]
    BY <1>1, <1>2, AppendProperties, LenProperties
  <1>4. d \in Nat /\ n \in Nat /\ d <= n
    BY Zenon DEF Trails
  <1>5. PICK f : Finds(f, q, d, n, v)
    BY Zenon DEF Trails
  <1>6. PICK D, E : D = (d + 1)..n /\ E = (d + 1)..(n + 1)
    BY Zenon
  <1>7. /\ n + 1 \in E /\ D \subseteq E /\ n + 1 \notin D /\ \A i \in E : i \in D \/ i = n + 1
        /\ \A i, j \in E : i < j => i \in D
    BY <1>4, <1>6
  <1>8. f \in [D -> 1..l]
    BY Zenon, <1>3, <1>5, <1>6 DEF Finds
  <1>9. PICK h : h = [i \in E |-> IF i = n + 1 THEN l + 1 ELSE f[i]]
    BY Zenon
  <1>10. h[n + 1] = l + 1 /\ \A i \in D : h[i] = f[i] /\ f[i] \in 1..l
    BY <1>7, <1>8, <1>9
  <1>11. h \in [E -> 1..(l + 1)]
    BY <1>7, <1>8, <1>9
  <1>12. \A i, j \in E : i < j => h[i] < h[j]
    <2> SUFFICES ASSUME NEW i \in E, NEW j \in E, i < j PROVE h[i] < h[j]
      BY Zenon
    <2>1. i \in D
      BY Zenon, <1>7
    <2>2. CASE j \in D
      BY Zenon, <1>5, <1>6, <1>10, <2>1, <2>2 DEF Finds
    <2>3. CASE j = n + 1
      BY <1>10, <2>1, <2>3
    <2> QED BY Zenon, <1>7, <2>2, <2>3
  <1>13. \A i \in E : z[h[i]].from = Connector /\ z[h[i]].verb = Handshake[i] /\ (Awaited(z[h[i]], v) => i = n + 1)
    <2> SUFFICES ASSUME NEW i \in E
                 PROVE  z[h[i]].from = Connector /\ z[h[i]].verb = Handshake[i] /\ (Awaited(z[h[i]], v) => i = n + 1)
      BY Zenon
    <2>1. CASE i \in D
      <3>1. z[h[i]] = q[f[i]] /\ f[i] \in DOMAIN q
        BY Zenon, <1>3, <1>10, <2>1
      <3> QED BY Zenon, <1>5, <1>6, <2>1, <3>1 DEF Finds
    <2>2. CASE i = n + 1
      BY Zenon, <1>3, <1>10, <2>2
    <2> QED BY Zenon, <1>7, <2>1, <2>2
  <1>14. \A j \in 1..(l + 1) : z[j].from = Connector => \E i \in E : h[i] = j
    <2> SUFFICES ASSUME NEW j \in 1..(l + 1), z[j].from = Connector PROVE \E i \in E : h[i] = j
      BY Zenon
    <2>1. j \in 1..l \/ j = l + 1
      OBVIOUS
    <2>2. CASE j \in 1..l
      <3>1. q[j].from = Connector
        BY Zenon, <1>3, <2>2
      <3>2. PICK i \in D : f[i] = j
        BY Zenon, <1>3, <1>5, <1>6, <2>2, <3>1 DEF Finds
      <3> QED BY Zenon, <1>7, <1>10, <3>2
    <2>3. CASE j = l + 1
      BY Zenon, <1>7, <1>10, <2>3
    <2> QED BY <2>1, <2>2, <2>3
  <1>15. n + 1 \in Nat /\ d <= n + 1
    BY <1>4
  <1>16. Finds(h, z, d, n + 1, v)
    BY Zenon, <1>3, <1>6, <1>11, <1>12, <1>13, <1>14 DEF Finds
  <1> QED BY Zenon, <1>2, <1>4, <1>15, <1>16 DEF Trails

\* openvpn reads the first, which is another's or the next of the handshake.
LEMMA TrailsRead ==
  ASSUME NEW q \in Seq(Commands), q # <<>>, NEW d, NEW n, NEW v, Trails(q, d, n, v)
  PROVE  /\ q[1].from # Connector => Trails(Tail(q), d, n, v)
         /\ q[1].from = Connector => /\ Trails(Tail(q), d + 1, n, v) /\ d + 1 <= n
                                     /\ q[1].verb = Handshake[d + 1] /\ (Awaited(q[1], v) => d + 1 = n)
  <1>1. PICK l \in Nat : l = Len(q)
    BY LenProperties
  <1>2. l >= 1 /\ DOMAIN q = 1..l
    BY <1>1, EmptySeq, LenProperties
  <1>3. PICK z \in Seq(Commands) : z = Tail(q)
    BY Zenon, HeadTailProperties
  <1>4. Len(z) = l - 1 /\ \A i \in 1..Len(z) : z[i] = q[i + 1]
    BY <1>1, <1>3, HeadTailProperties
  <1>5. DOMAIN z = 1..(l - 1) /\ \A i \in 1..(l - 1) : z[i] = q[i + 1]
    BY Zenon, <1>4, LenProperties
  <1>6. d \in Nat /\ n \in Nat /\ d <= n
    BY Zenon DEF Trails
  <1>7. PICK f : Finds(f, q, d, n, v)
    BY Zenon DEF Trails
  <1>8. PICK D : D = (d + 1)..n
    BY Zenon
  <1>9. f \in [D -> 1..l] /\ (\A i, j \in D : i < j => f[i] < f[j])
    BY Zenon, <1>2, <1>7, <1>8 DEF Finds
  <1>10. ASSUME NEW E \in SUBSET D, NEW k \in {d, d + 1}, E = (k + 1)..n, k <= n,
                \A i \in D : i \in E <=> f[i] # 1
         PROVE  Trails(z, k, n, v)
    <2>1. PICK h : h = [i \in E |-> f[i] - 1]
      BY Zenon
    <2>2. h \in [E -> 1..(l - 1)] /\ \A i \in E : h[i] = f[i] - 1 /\ h[i] + 1 = f[i] /\ i \in D
      BY <1>2, <1>9, <1>10, <2>1
    <2>3. \A i, j \in E : i < j => h[i] < h[j]
      BY <1>9, <2>2
    <2>4. \A i \in E : z[h[i]] = q[f[i]]
      BY Zenon, <1>5, <2>2
    <2>5. \A i \in E : z[h[i]].from = Connector /\ z[h[i]].verb = Handshake[i] /\ (Awaited(z[h[i]], v) => i = n)
      <3> SUFFICES ASSUME NEW i \in E
                   PROVE  z[h[i]].from = Connector /\ z[h[i]].verb = Handshake[i] /\ (Awaited(z[h[i]], v) => i = n)
        BY Zenon
      <3>1. i \in D /\ z[h[i]] = q[f[i]]
        BY Zenon, <2>2, <2>4
      <3>2. q[f[i]].from = Connector /\ q[f[i]].verb = Handshake[i] /\ (Awaited(q[f[i]], v) => i = n)
        BY Zenon, <1>7, <1>8, <3>1 DEF Finds
      <3> QED BY Zenon, <3>1, <3>2
    <2>6. \A j \in DOMAIN z : z[j].from = Connector => \E i \in E : h[i] = j
      <3> SUFFICES ASSUME NEW j \in 1..(l - 1), z[j].from = Connector PROVE \E i \in E : h[i] = j
        BY Zenon, <1>5
      <3>1. j + 1 \in 1..l /\ j + 1 # 1 /\ (j + 1) - 1 = j
        BY <1>2
      <3>2. q[j + 1].from = Connector
        BY Zenon, <1>5
      <3>3. PICK i \in D : f[i] = j + 1
        BY Zenon, <1>2, <1>7, <1>8, <3>1, <3>2 DEF Finds
      <3>4. i \in E /\ h[i] = j
        BY Zenon, <1>10, <2>2, <3>1, <3>3
      <3> QED BY Zenon, <3>4
    <2>7. Finds(h, z, k, n, v)
      BY Zenon, <1>5, <1>10, <2>2, <2>3, <2>5, <2>6 DEF Finds
    <2>8. k \in Nat
      BY <1>6, <1>10
    <2> QED BY Zenon, <1>6, <1>10, <2>7, <2>8 DEF Trails
  <1>11. CASE q[1].from # Connector
    <2>1. \A i \in D : f[i] # 1
      BY Zenon, <1>7, <1>8, <1>11 DEF Finds
    <2>2. D \in SUBSET D /\ d \in {d, d + 1} /\ D = (d + 1)..n /\ d <= n /\ \A i \in D : i \in D <=> f[i] # 1
      BY Zenon, <1>6, <1>8, <2>1
    <2>3. Trails(z, d, n, v)
      BY Zenon, <1>10, <2>2
    <2> QED BY Zenon, <1>3, <1>11, <2>3
  <1>12. CASE q[1].from = Connector
    <2>1. 1 \in 1..l
      BY <1>2
    <2>2. PICK i \in D : f[i] = 1
      BY Zenon, <1>2, <1>7, <1>8, <1>12, <2>1 DEF Finds
    <2>3. d + 1 \in D /\ d + 1 <= n /\ (i = d + 1 \/ d + 1 < i) /\ i \in Nat
      BY SMTT(30), <1>6, <1>8, <2>2
    <2>4. i = d + 1
      <3>1. CASE d + 1 < i
        <4>1. f[d + 1] < f[i] /\ f[d + 1] \in 1..l
          BY Zenon, <1>9, <2>3, <3>1
        <4> QED BY <2>2, <4>1
      <3> QED BY <2>3, <3>1
    <2>5. q[1].verb = Handshake[d + 1] /\ (Awaited(q[1], v) => d + 1 = n)
      BY Zenon, <1>7, <1>8, <2>2, <2>4 DEF Finds
    <2>6. PICK E : E = ((d + 1) + 1)..n
      BY Zenon
    <2>7. E \in SUBSET D /\ \A j \in D : (j \in E <=> j # d + 1) /\ (j # d + 1 => d + 1 < j)
      BY <1>6, <1>8, <2>6
    <2>8. \A j \in D : j \in E <=> f[j] # 1
      <3> SUFFICES ASSUME NEW j \in D, j # d + 1 PROVE f[j] # 1
        BY Zenon, <2>2, <2>4, <2>7
      <3>1. f[d + 1] < f[j] /\ f[j] \in 1..l
        BY Zenon, <1>9, <2>3, <2>7
      <3> QED BY <2>2, <2>4, <3>1
    <2>9. d + 1 \in {d, d + 1}
      BY Zenon
    <2>10. Trails(z, d + 1, n, v)
      BY Zenon, <1>10, <2>3, <2>6, <2>7, <2>8, <2>9
    <2> QED BY Zenon, <1>3, <1>12, <2>3, <2>5, <2>10
  <1> QED BY <1>11, <1>12

-----------------------------------------------------------------------------
(* Counting what a sequence holds of a set.                                *)

PlacesOf(s, P) == {i \in DOMAIN s : s[i] \in P}

CountOf(s, P) == Cardinality(PlacesOf(s, P))

\* A sequence holds finitely many.
LEMMA CountIsNat ==
  ASSUME NEW S, NEW s \in Seq(S), NEW P
  PROVE  IsFiniteSet(PlacesOf(s, P)) /\ CountOf(s, P) \in Nat
  <1>1. PICK n \in Nat : DOMAIN s = 1..n
    BY LenProperties
  <1>2. IsFiniteSet(1..n)
    BY FS_Interval
  <1>3. PlacesOf(s, P) \in SUBSET (1..n)
    BY <1>1 DEF PlacesOf
  <1>4. IsFiniteSet(PlacesOf(s, P))
    BY SMTT(30), <1>2, <1>3, FS_Subset
  <1> QED BY <1>4, FS_CardinalityType DEF CountOf

\* One after the other.
LEMMA CountCat ==
  ASSUME NEW S, NEW s \in Seq(S), NEW t \in Seq(S), NEW P
  PROVE  CountOf(s \o t, P) = CountOf(s, P) + CountOf(t, P)
  <1>1. PICK m \in Nat : m = Len(s)
    BY LenProperties
  <1>2. PICK n \in Nat : n = Len(t)
    BY LenProperties
  <1>3. PICK z : z = s \o t
    BY Zenon
  <1>4. /\ DOMAIN z = 1..(m + n) /\ DOMAIN s = 1..m /\ DOMAIN t = 1..n
        /\ \A i \in 1..m : z[i] = s[i]
        /\ \A i \in 1..n : z[i + m] = t[i]
    BY <1>1, <1>2, <1>3, ConcatProperties, LenProperties
  <1>5. PICK A, B : A = PlacesOf(s, P) /\ B = PlacesOf(t, P)
    BY Zenon
  <1>6. PICK D : D = {i + m : i \in B}
    BY Zenon
  <1>7. A \subseteq 1..m /\ B \subseteq 1..n
    BY <1>4, <1>5 DEF PlacesOf
  <1>8. PlacesOf(z, P) = A \cup D /\ A \cap D = {}
    <2>1. A \cup D \subseteq PlacesOf(z, P)
      <3>1. ASSUME NEW i \in A PROVE i \in PlacesOf(z, P)
        <4>1. i \in 1..m /\ s[i] \in P /\ z[i] = s[i] /\ i \in 1..(m + n)
          BY <1>4, <1>5, <1>7 DEF PlacesOf
        <4> QED BY Zenon, <1>4, <4>1 DEF PlacesOf
      <3>2. ASSUME NEW j \in D PROVE j \in PlacesOf(z, P)
        <4>1. PICK i \in B : j = i + m
          BY <1>6
        <4>2. i \in 1..n /\ t[i] \in P /\ z[i + m] = t[i] /\ i + m \in 1..(m + n)
          BY <1>4, <1>5, <1>7 DEF PlacesOf
        <4> QED BY Zenon, <1>4, <4>1, <4>2 DEF PlacesOf
      <3> QED BY Zenon, <3>1, <3>2
    <2>2. ASSUME NEW i \in PlacesOf(z, P), i \notin A PROVE i \in D
      <3>1. i \in 1..(m + n) /\ z[i] \in P
        BY <1>4 DEF PlacesOf
      <3>2. i > m
        <4>1. CASE i \in 1..m
          BY Zenon, <1>4, <1>5, <2>2, <3>1, <4>1 DEF PlacesOf
        <4> QED BY <3>1, <4>1
      <3>3. PICK j \in 1..n : i = j + m
        <4>1. i - m \in 1..n /\ i = (i - m) + m
          BY <3>1, <3>2
        <4> QED BY Zenon, <4>1
      <3>4. j \in B
        BY Zenon, <1>4, <1>5, <3>1, <3>3 DEF PlacesOf
      <3> QED BY SMTT(30), <1>6, <3>3, <3>4
    <2>3. \A i \in D : i > m
      BY <1>6, <1>7
    <2>4. \A i \in A : ~(i > m)
      BY <1>7
    <2> QED BY Zenon, <2>1, <2>2, <2>3, <2>4
  <1>9. IsFiniteSet(A) /\ IsFiniteSet(B) /\ Cardinality(A) = CountOf(s, P) /\ Cardinality(B) = CountOf(t, P)
    BY <1>5, CountIsNat DEF CountOf
  <1>10. IsFiniteSet(D) /\ Cardinality(D) = Cardinality(B)
    <2>1. PICK f : f = [i \in B |-> i + m]
      BY Zenon
    <2>2. f \in [B -> D] /\ \A i \in B : f[i] = i + m
      BY <1>6, <2>1
    <2>3. \A i, j \in B : f[i] = f[j] => i = j
      BY <1>7, <2>2
    <2>4. \A d \in D : \E i \in B : f[i] = d
      BY <1>6, <2>2
    <2>5. f \in Bijection(B, D)
      BY Zenon, <2>2, <2>3, <2>4 DEF Bijection, Injection, Surjection, IsInjective
    <2>6. ExistsBijection(B, D)
      BY Zenon, <2>5 DEF ExistsBijection
    <2> QED BY <1>9, <2>6, FS_Bijection
  <1>11. Cardinality(A \cup D) = Cardinality(A) + Cardinality(D) - Cardinality({})
    BY SMTT(30), <1>8, <1>9, <1>10, FS_Union
  <1>12. Cardinality({}) = 0 /\ Cardinality(A) \in Nat /\ Cardinality(D) \in Nat
    BY <1>9, <1>10, FS_EmptySet, FS_CardinalityType
  <1>13. CountOf(z, P) = Cardinality(A \cup D)
    BY Zenon, <1>8 DEF CountOf
  <1> QED BY SMTT(30), <1>3, <1>9, <1>10, <1>11, <1>12, <1>13

\* None of them.
LEMMA CountNone ==
  ASSUME NEW s, NEW P, \A i \in DOMAIN s : s[i] \notin P
  PROVE  CountOf(s, P) = 0
  <1>1. PlacesOf(s, P) = {}
    BY DEF PlacesOf
  <1> QED BY Zenon, <1>1, FS_EmptySet DEF CountOf

\* Just one.
LEMMA CountSingle ==
  ASSUME NEW s, NEW P, NEW k \in DOMAIN s, \A i \in DOMAIN s : s[i] \in P <=> i = k
  PROVE  CountOf(s, P) = 1
  <1>1. PlacesOf(s, P) = {k}
    BY DEF PlacesOf
  <1> QED BY Zenon, <1>1, FS_Singleton DEF CountOf

\* A sequence of one.
LEMMA CountOne ==
  ASSUME NEW e, NEW P
  PROVE  CountOf(<<e>>, P) = IF e \in P THEN 1 ELSE 0
  <1>1. PICK s : s = <<e>>
    BY Zenon
  <1>2. DOMAIN s = {1} /\ s[1] = e
    BY <1>1
  <1>3. CASE e \in P
    <2>1. 1 \in DOMAIN s /\ \A i \in DOMAIN s : s[i] \in P <=> i = 1
      BY Zenon, <1>2, <1>3
    <2>2. CountOf(s, P) = 1
      BY <2>1, CountSingle
    <2> QED BY Zenon, <1>1, <1>3, <2>2
  <1>4. CASE e \notin P
    <2>1. \A i \in DOMAIN s : s[i] \notin P
      BY Zenon, <1>2, <1>4
    <2>2. CountOf(s, P) = 0
      BY <2>1, CountNone
    <2> QED BY Zenon, <1>1, <1>4, <2>2
  <1> QED BY <1>3, <1>4

\* One more at the end.
LEMMA CountAppend ==
  ASSUME NEW S, NEW s \in Seq(S), NEW e \in S, NEW P
  PROVE  CountOf(Append(s, e), P) = CountOf(s, P) + (IF e \in P THEN 1 ELSE 0)
  <1>1. PICK t : t = <<e>>
    BY Zenon
  <1>2. t \in Seq(S) /\ Append(s, e) = s \o t
    BY <1>1, AppendIsConcat
  <1>3. CountOf(s \o t, P) = CountOf(s, P) + CountOf(t, P)
    BY <1>2, CountCat
  <1>4. CountOf(t, P) = IF e \in P THEN 1 ELSE 0
    BY Zenon, <1>1, CountOne
  <1> QED BY Zenon, <1>2, <1>3, <1>4

\* The head is one of them or not.
LEMMA CountHead ==
  ASSUME NEW S, NEW s \in Seq(S), s # <<>>, NEW P
  PROVE  CountOf(s, P) = (IF Head(s) \in P THEN 1 ELSE 0) + CountOf(Tail(s), P)
  <1>1. PICK e, h, t : e = Head(s) /\ h = <<e>> /\ t = Tail(s)
    BY Zenon
  <1>2. s = h \o t /\ h \in Seq(S) /\ t \in Seq(S)
    BY Zenon, <1>1, HeadThenTail
  <1>3. CountOf(h \o t, P) = CountOf(h, P) + CountOf(t, P)
    BY <1>2, CountCat
  <1>4. CountOf(h, P) = IF e \in P THEN 1 ELSE 0
    BY Zenon, <1>1, CountOne
  <1> QED BY Zenon, <1>1, <1>2, <1>3, <1>4

\* The prompts on the wire: the half lines that complete one.
PromptHalves == {h \in Halves : h.part = 2 /\ h.line.frame = "PASSWORD"}

\* The halves of lines hold as many prompts as the lines.
LEMMA PromptsWired ==
  ASSUME NEW lines \in Seq(Lines), NEW n \in {0, 1},
         n = 0 => \A i \in 1..Len(lines) : lines[i].frame # "PASSWORD",
         n = 1 => Len(lines) >= 1 /\ \A i \in 1..Len(lines) : lines[i].frame = "PASSWORD" <=> i = Len(lines)
  PROVE  CountOf(Wired(lines), PromptHalves) = n
  <1>1. PICK w : w = Wired(lines)
    BY Zenon
  <1>2. PICK m \in Nat : m = Len(lines)
    BY LenProperties
  <1>3. /\ w \in Seq(Halves) /\ Len(w) = 2 * m
        /\ \A i \in 1..2 * m : (i + 1) \div 2 \in 1..m /\ w[i].line = lines[(i + 1) \div 2] /\ w[i].part = 2 - (i % 2)
    BY Zenon, <1>1, <1>2, WiredIs
  <1>4. DOMAIN w = 1..2 * m /\ \A i \in 1..2 * m : w[i] \in Halves
    BY <1>3, LenProperties, ElementOfSeq
  <1>5. \A i \in 1..2 * m : w[i] \in PromptHalves <=> w[i].part = 2 /\ w[i].line.frame = "PASSWORD"
    BY Zenon, <1>4 DEF PromptHalves
  <1>6. CASE n = 0
    <2>1. \A i \in 1..m : lines[i].frame # "PASSWORD"
      BY <1>2, <1>6
    <2>2. ASSUME NEW i \in 1..2 * m PROVE w[i] \notin PromptHalves
      BY Zenon, <1>3, <1>5, <2>1, <2>2
    <2>3. CountOf(w, PromptHalves) = 0
      BY <1>4, <2>2, CountNone
    <2> QED BY <1>1, <1>6, <2>3
  <1>7. CASE n = 1
    <2>1. m >= 1 /\ \A i \in 1..m : lines[i].frame = "PASSWORD" <=> i = m
      BY <1>2, <1>7
    <2>2. 2 * m \in 1..2 * m
      BY <2>1
    <2>3. \A i \in 1..2 * m : 2 - (i % 2) = 2 /\ (i + 1) \div 2 = m <=> i = 2 * m
      OBVIOUS
    <2>4. ASSUME NEW i \in 1..2 * m PROVE w[i] \in PromptHalves <=> i = 2 * m
      <3>1. PICK j \in 1..m : j = (i + 1) \div 2
        BY Zenon, <1>3, <2>4
      <3>2. w[i].line.frame = "PASSWORD" <=> j = m
        BY Zenon, <1>3, <2>1, <2>4, <3>1
      <3>3. w[i].part = 2 - (i % 2)
        BY Zenon, <1>3, <2>4
      <3> QED BY Zenon, <1>5, <2>3, <2>4, <3>1, <3>2, <3>3
    <2>5. PICK d \in DOMAIN w : d = 2 * m
      BY Zenon, <1>4, <2>2
    <2>6. \A i \in DOMAIN w : w[i] \in PromptHalves <=> i = d
      BY Zenon, <1>4, <2>4, <2>5
    <2>7. CountOf(w, PromptHalves) = 1
      BY <2>6, CountSingle
    <2> QED BY Zenon, <1>1, <1>7, <2>7
  <1> QED BY <1>6, <1>7

===============================================================================
