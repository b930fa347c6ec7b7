-------------------------- MODULE ConnStream_proofs --------------------------
(***************************************************************************)
(* Theorems about what leaves a connection: the data of an application that *)
(* repeats what was refused goes out once and in order, a close that came    *)
(* through has told the peer, and the connection implements ConnLife.        *)
(***************************************************************************)
EXTENDS ConnState_proofs, SequenceTheorems, WellFoundedInduction

-----------------------------------------------------------------------------
(* Induction over the natural numbers, for a set.                            *)

(* A set of natural numbers that is not empty has a least element.           *)
LEMMA LeastOf ==
  ASSUME NEW T \in SUBSET Nat, T # {}
  PROVE  \E x \in T : \A y \in T : x <= y
<1> DEFINE R == {p \in Nat \X Nat : p[1] < p[2]}
<1>1. IsWellFoundedOn(R, Nat)
  BY NatLessThanWellFounded DEF OpToRel
<1>2. PICK x \in T : \A y \in T : ~ (<<y, x>> \in R)
  <2> HIDE DEF R
  <2> QED
    BY <1>1, WFMin
<1>3. ASSUME NEW y \in T PROVE x <= y
  <2>1. x \in Nat /\ y \in Nat /\ <<y, x>> \notin R
    BY <1>2
  <2>2. ~ (y < x)
    BY <2>1
  <2> QED
    BY <2>1, <2>2
<1> QED
  BY <1>3

(* A set that holds 0 and with every number the next one holds all of them.  *)
LEMMA SetInduction ==
  ASSUME NEW S, 0 \in S, \A n \in Nat : n \in S => n + 1 \in S
  PROVE  Nat \subseteq S
<1> SUFFICES ASSUME Nat \ S # {} PROVE FALSE
  OBVIOUS
<1>1. PICK x \in Nat \ S : \A y \in Nat \ S : x <= y
  BY LeastOf
<1>2. x # 0 /\ x - 1 \in Nat /\ x - 1 \notin Nat \ S /\ (x - 1) + 1 = x
  BY <1>1
<1> QED
  BY <1>2

-----------------------------------------------------------------------------
(* The elements at chosen positions.                                         *)

Chooses(f, s, P, m) ==
  f = [n \in 0 .. m |-> IF n = 0 THEN <<>>
                        ELSE IF n \in P THEN Append(f[n - 1], s[n]) ELSE f[n - 1]]

(* The function that Chosen defines recursively exists. *)
LEMMA ChosenExists ==
  ASSUME NEW s, NEW P, NEW m \in Nat
  PROVE  \E f : Chooses(f, s, P, m)
<1> DEFINE S == {n \in Nat : \E f : Chooses(f, s, P, n)}
<1>1. 0 \in S
  <2>1. Chooses([n \in 0 .. 0 |-> <<>>], s, P, 0)
    BY DEF Chooses
  <2> QED
    BY <2>1
<1>2. ASSUME NEW n \in Nat, n \in S PROVE n + 1 \in S
  <2>1. PICK f : Chooses(f, s, P, n)
    BY <1>2
  <2> DEFINE x == IF n + 1 \in P THEN Append(f[n], s[n + 1]) ELSE f[n]
             g == [k \in 0 .. n + 1 |-> IF k = n + 1 THEN x ELSE f[k]]
             Here(k) == IF k = 0 THEN <<>> ELSE IF k \in P THEN Append(g[k - 1], s[k]) ELSE g[k - 1]
  <2>2. \A k \in 0 .. n : g[k] = f[k]
    OBVIOUS
  <2>3. g[n + 1] = x /\ g = [k \in 0 .. n + 1 |-> g[k]]
    OBVIOUS
  <2>4. \A k \in 0 .. n : k # 0 => k - 1 \in 0 .. n
    OBVIOUS
  <2>5. \A k \in 0 .. n : f[k] = IF k = 0 THEN <<>>
                               ELSE IF k \in P THEN Append(f[k - 1], s[k]) ELSE f[k - 1]
    BY <2>1 DEF Chooses
  <2> HIDE DEF g
  <2>6. ASSUME NEW k \in 0 .. n + 1 PROVE g[k] = Here(k)
    <3>1. CASE k = n + 1
      <4>1. k # 0 /\ k - 1 = n /\ g[n] = f[n]
        BY <3>1, <2>2
      <4> QED
        BY <3>1, <4>1, <2>3
    <3>2. CASE k # n + 1
      <4>1. k \in 0 .. n
        BY <3>2
      <4> QED
        BY <4>1, <2>2, <2>4, <2>5
    <3> QED
      BY <3>1, <3>2
  <2>7. Chooses(g, s, P, n + 1)
    BY <2>3, <2>6 DEF Chooses
  <2> QED
    BY <2>7
<1>3. Nat \subseteq S
  <2> HIDE DEF S
  <2> QED
    BY <1>1, <1>2, SetInduction
<1> QED
  BY <1>3

(* Chosen one position after the other. *)
LEMMA ChosenSteps ==
  ASSUME NEW S, NEW s \in Seq(S), NEW P
  PROVE  \E f : /\ Chosen(s, P) = f[Len(s)] /\ f[0] = <<>>
                /\ \A n \in 1 .. Len(s) :
                     f[n] = IF n \in P THEN Append(f[n - 1], s[n]) ELSE f[n - 1]
<1>1. Len(s) \in Nat
  OBVIOUS
<1> DEFINE g == CHOOSE f : Chooses(f, s, P, Len(s))
<1>2. Chosen(s, P) = g[Len(s)]
  BY DEF Chosen, Chooses
<1>3. Chooses(g, s, P, Len(s))
  BY <1>1, ChosenExists
<1> HIDE DEF g
<1>4. \A n \in 0 .. Len(s) : g[n] = IF n = 0 THEN <<>>
                                   ELSE IF n \in P THEN Append(g[n - 1], s[n]) ELSE g[n - 1]
  BY <1>3 DEF Chooses
<1>5. g[0] = <<>>
  BY <1>1, <1>4
<1>6. \A n \in 1 .. Len(s) : g[n] = IF n \in P THEN Append(g[n - 1], s[n]) ELSE g[n - 1]
  BY <1>1, <1>4
<1> QED
  BY <1>2, <1>5, <1>6

(* What is chosen, and nothing else. *)
LEMMA ChosenElements ==
  ASSUME NEW S, NEW s \in Seq(S), NEW P
  PROVE  /\ Chosen(s, P) \in Seq({s[i] : i \in P \cap (1 .. Len(s))})
         /\ \A i \in P \cap (1 .. Len(s)) :
              \E j \in 1 .. Len(Chosen(s, P)) : Chosen(s, P)[j] = s[i]
<1> DEFINE E == {s[i] : i \in P \cap (1 .. Len(s))}
<1>0. Len(s) \in Nat
  OBVIOUS
<1>1. PICK f : /\ Chosen(s, P) = f[Len(s)] /\ f[0] = <<>>
               /\ \A n \in 1 .. Len(s) :
                    f[n] = IF n \in P THEN Append(f[n - 1], s[n]) ELSE f[n - 1]
  BY ChosenSteps
<1> DEFINE Holds(i, t) == \E j \in 1 .. Len(t) : t[j] = s[i]
           T == {n \in Nat : n <= Len(s) =>
                   f[n] \in Seq(E) /\ \A i \in P \cap (1 .. n) : Holds(i, f[n])}
<1>2. 0 \in T
  <2>1. <<>> \in Seq(E)
    <3> HIDE DEF E
    <3> QED
      BY EmptySeq
  <2>2. P \cap (1 .. 0) = {}
    OBVIOUS
  <2> HIDE DEF E, Holds
  <2> QED
    BY <1>1, <2>1, <2>2
<1>3. ASSUME NEW n \in Nat, n \in T PROVE n + 1 \in T
  <2> SUFFICES ASSUME n + 1 <= Len(s)
               PROVE  /\ f[n + 1] \in Seq(E)
                      /\ \A i \in P \cap (1 .. n + 1) : Holds(i, f[n + 1])
    OBVIOUS
  <2>1. /\ f[n] \in Seq(E) /\ \A i \in P \cap (1 .. n) : Holds(i, f[n])
        /\ n + 1 \in 1 .. Len(s) /\ (n + 1) - 1 = n
    BY <1>0, <1>3
  <2>2. f[n + 1] = IF n + 1 \in P THEN Append(f[n], s[n + 1]) ELSE f[n]
    BY <1>1, <2>1
  <2>3. CASE n + 1 \notin P
    BY <2>1, <2>2, <2>3
  <2>4. CASE n + 1 \in P
    <3>1. s[n + 1] \in E
      BY <2>1, <2>4
    <3>2. PICK t \in Seq(E), x \in E : t = f[n] /\ x = s[n + 1]
      BY <2>1, <3>1
    <3> HIDE DEF E
    <3>3. /\ Append(t, x) \in Seq(E) /\ Len(Append(t, x)) = Len(t) + 1 /\ Len(t) \in Nat
          /\ Append(t, x)[Len(t) + 1] = x
          /\ \A j \in 1 .. Len(t) : Append(t, x)[j] = t[j]
      BY AppendProperties, LenProperties
    <3>4. f[n + 1] = Append(t, x)
      BY <2>2, <2>4, <3>2
    <3>5. ASSUME NEW i \in P \cap (1 .. n + 1) PROVE Holds(i, Append(t, x))
      <4>1. CASE i = n + 1
        <5>1. Len(t) + 1 \in 1 .. Len(Append(t, x)) /\ Append(t, x)[Len(t) + 1] = s[i]
          BY <3>2, <3>3, <4>1
        <5> QED
          BY <5>1
      <4>2. CASE i # n + 1
        <5>1. Holds(i, t)
          BY <2>1, <3>2, <4>2
        <5>2. PICK j \in 1 .. Len(t) : t[j] = s[i]
          BY <5>1
        <5>3. j \in 1 .. Len(Append(t, x)) /\ Append(t, x)[j] = s[i]
          BY <3>3, <5>2
        <5> QED
          BY <5>3
      <4> QED
        BY <4>1, <4>2
    <3> QED
      BY <3>3, <3>4, <3>5
  <2> QED
    BY <2>3, <2>4
<1>4. Nat \subseteq T
  <2> HIDE DEF T
  <2> QED
    BY <1>2, <1>3, SetInduction
<1>5. f[Len(s)] \in Seq(E) /\ \A i \in P \cap (1 .. Len(s)) : Holds(i, f[Len(s)])
  BY <1>0, <1>4, SMTT(30)
<1> QED
  BY <1>1, <1>5

(* A longer sequence, of whose new positions none is chosen or, when it is   *)
(* one, possibly this one.                                                   *)
LEMMA ChosenPrefix ==
  ASSUME NEW S, NEW s \in Seq(S), NEW t \in Seq(S), NEW P, NEW Q,
         Len(s) <= Len(t), \A i \in 1 .. Len(s) : t[i] = s[i] /\ (i \in Q <=> i \in P)
  PROVE  /\ (\A i \in Q : i \notin Len(s) + 1 .. Len(t)) => Chosen(t, Q) = Chosen(s, P)
         /\ Len(t) = Len(s) + 1 /\ Len(t) \in Q => Chosen(t, Q) = Append(Chosen(s, P), t[Len(t)])
<1>0. Len(s) \in Nat /\ Len(t) \in Nat
  OBVIOUS
<1>1. PICK f : /\ Chosen(s, P) = f[Len(s)] /\ f[0] = <<>>
               /\ \A n \in 1 .. Len(s) :
                    f[n] = IF n \in P THEN Append(f[n - 1], s[n]) ELSE f[n - 1]
  BY ChosenSteps
<1>2. PICK g : /\ Chosen(t, Q) = g[Len(t)] /\ g[0] = <<>>
               /\ \A n \in 1 .. Len(t) :
                    g[n] = IF n \in Q THEN Append(g[n - 1], t[n]) ELSE g[n - 1]
  BY ChosenSteps
<1>3. g[Len(s)] = f[Len(s)]
  <2> DEFINE T == {n \in Nat : n <= Len(s) => g[n] = f[n]}
  <2>1. 0 \in T
    BY <1>1, <1>2
  <2>2. ASSUME NEW n \in Nat, n \in T PROVE n + 1 \in T
    <3> SUFFICES ASSUME n + 1 <= Len(s) PROVE g[n + 1] = f[n + 1]
      OBVIOUS
    <3>1. g[n] = f[n] /\ n + 1 \in 1 .. Len(s) /\ n + 1 \in 1 .. Len(t) /\ (n + 1) - 1 = n
      BY <1>0, <2>2
    <3>2. t[n + 1] = s[n + 1] /\ (n + 1 \in Q <=> n + 1 \in P)
      BY <3>1
    <3> QED
      BY <1>1, <1>2, <3>1, <3>2
  <2>3. Nat \subseteq T
    <3> HIDE DEF T
    <3> QED
      BY <2>1, <2>2, SetInduction
  <2> QED
    BY <1>0, <2>3
<1>4. ASSUME \A i \in Q : i \notin Len(s) + 1 .. Len(t) PROVE g[Len(t)] = g[Len(s)]
  <2> DEFINE T == {n \in Nat : Len(s) + n <= Len(t) => g[Len(s) + n] = g[Len(s)]}
  <2>1. 0 \in T
    BY <1>0
  <2>2. ASSUME NEW n \in Nat, n \in T PROVE n + 1 \in T
    <3> SUFFICES ASSUME Len(s) + (n + 1) <= Len(t) PROVE g[Len(s) + (n + 1)] = g[Len(s)]
      OBVIOUS
    <3> DEFINE m == Len(s) + (n + 1)
    <3>1. /\ m \in 1 .. Len(t) /\ m \in Len(s) + 1 .. Len(t) /\ m - 1 = Len(s) + n
          /\ g[Len(s) + n] = g[Len(s)]
      BY <1>0, <2>2
    <3>2. m \notin Q
      BY <1>4, <3>1
    <3> HIDE DEF m
    <3>3. g[m] = g[m - 1]
      BY <1>2, <3>1, <3>2
    <3> QED
      BY <3>1, <3>3 DEF m
  <2>3. Nat \subseteq T
    <3> HIDE DEF T
    <3> QED
      BY <2>1, <2>2, SetInduction
  <2>4. Len(t) - Len(s) \in T /\ Len(s) + (Len(t) - Len(s)) = Len(t)
    <3> HIDE DEF T
    <3> QED
      BY <1>0, <2>3
  <2> QED
    BY <1>0, <2>4
<1>5. ASSUME Len(t) = Len(s) + 1, Len(t) \in Q PROVE g[Len(t)] = Append(g[Len(s)], t[Len(t)])
  <2>1. Len(t) \in 1 .. Len(t) /\ Len(t) - 1 = Len(s)
    BY <1>0, <1>5
  <2> QED
    BY <1>2, <1>5, <2>1
<1> QED
  BY <1>1, <1>2, <1>3, <1>4, <1>5

-----------------------------------------------------------------------------
(* The records of a connection, and what they show.                          *)

QuietRecords == {NoRecord, Handshake} \cup {Alert(l, d) : l \in Levels, d \in Descriptions}
ConnStream == QuietRecords \cup {App(n) : n \in Nat}

Closer(s) == \E i \in 1 .. Len(s) : ClosesWrite(s[i])

(* What kind of record each one is.                                          *)
LEMMA RecordTypes ==
  /\ \A r \in QuietRecords : r.type # "APP"
  /\ \A n \in Nat : App(n).type = "APP" /\ App(n).body = n /\ App(n) \in ConnStream
                    /\ ~ClosesWrite(App(n)) /\ App(n) # NoRecord
  /\ \A r \in ConnStream : r.type = "APP" => \E n \in Nat : r = App(n)
  /\ QuietRecords \subseteq ConnStream
  /\ Handshake \in QuietRecords /\ NoRecord \in QuietRecords
  /\ \A l \in Levels, d \in Descriptions : Alert(l, d) \in QuietRecords
<1>1. /\ NoRecord.type = "NONE" /\ Handshake.type = "HANDSHAKE"
      /\ \A l \in Levels, d \in Descriptions : Alert(l, d).type = "ALERT"
      /\ \A n \in Nat : App(n).type = "APP" /\ App(n).body = n
  BY DEF NoRecord, Handshake, Alert, App
<1>2. \A r \in QuietRecords : r.type # "APP"
  BY <1>1 DEF QuietRecords
<1>3. \A n \in Nat : ~ClosesWrite(App(n)) /\ App(n) # NoRecord
  BY <1>1 DEF ClosesWrite
<1>4. \A r \in ConnStream : r.type = "APP" => \E n \in Nat : r = App(n)
  BY <1>2 DEF ConnStream
<1>5. /\ \A n \in Nat : App(n) \in ConnStream
      /\ QuietRecords \subseteq ConnStream
  BY DEF ConnStream
<1>6. /\ Handshake \in QuietRecords /\ NoRecord \in QuietRecords
      /\ \A l \in Levels, d \in Descriptions : Alert(l, d) \in QuietRecords
  BY DEF QuietRecords
<1> QED
  BY <1>1, <1>2, <1>3, <1>4, <1>5, <1>6

(* Nothing is chosen of an empty sequence. *)
LEMMA ChosenNothing == \A P : Chosen(<<>>, P) = <<>>
<1> SUFFICES ASSUME NEW P PROVE Chosen(<<>>, P) = <<>>
  OBVIOUS
<1>1. PICK e \in Seq({}) : e = <<>> /\ Len(e) = 0
  BY EmptySeq
<1>2. PICK f : Chosen(e, P) = f[Len(e)] /\ f[0] = <<>>
  BY ChosenSteps
<1>3. f[Len(e)] = f[0]
  BY <1>1
<1> QED
  BY <1>1, <1>2, <1>3

(* The numbers of the application records: those of a record that is added,  *)
(* and none of records that carry no data.                                   *)
AppPositions(s) == {i \in 1 .. Len(s) : s[i].type = "APP"}

(* No record shows no number.                                                *)
LEMMA NumbersOfNone == Numbers(<<>>) = <<>>
<1>1. Chosen(<<>>, AppPositions(<<>>)) = <<>> /\ Len(<<>>) = 0
  BY ChosenNothing
<1> QED
  BY <1>1 DEF Numbers, AppPositions

(* The numbers are those of the application records, one for one.            *)
LEMMA NumbersTyped ==
  ASSUME NEW s \in Seq(ConnStream)
  PROVE  /\ Chosen(s, AppPositions(s)) \in Seq({App(n) : n \in Nat})
         /\ Numbers(s) \in Seq(Nat)
         /\ Len(Numbers(s)) = Len(Chosen(s, AppPositions(s)))
         /\ \A i \in 1 .. Len(Numbers(s)) : Numbers(s)[i] = Chosen(s, AppPositions(s))[i].body
<1> DEFINE c == Chosen(s, AppPositions(s))
<1>1. c \in Seq({s[i] : i \in AppPositions(s) \cap (1 .. Len(s))})
  BY ChosenElements
<1>2. ASSUME NEW i \in AppPositions(s) PROVE s[i] \in {App(n) : n \in Nat}
  <2>1. i \in 1 .. Len(s) /\ s[i].type = "APP"
    BY DEF AppPositions
  <2>2. s[i] \in ConnStream
    BY <2>1, ElementOfSeq
  <2> QED
    BY <2>1, <2>2, RecordTypes
<1>3. {s[i] : i \in AppPositions(s) \cap (1 .. Len(s))} \subseteq {App(n) : n \in Nat}
  BY <1>2
<1>4. c \in Seq({App(n) : n \in Nat})
  BY <1>1, <1>3, SeqMonotonic
<1>5. Numbers(s) = [i \in 1 .. Len(c) |-> c[i].body]
  BY DEF Numbers, AppPositions
<1> HIDE DEF c
<1>6. Len(c) \in Nat
  BY <1>4, LenProperties
<1>7. \A i \in 1 .. Len(c) : c[i].body \in Nat
  <2> TAKE i \in 1 .. Len(c)
  <2>1. c[i] \in {App(n) : n \in Nat}
    BY <1>4, ElementOfSeq
  <2> QED
    BY <2>1, RecordTypes
<1>8. Numbers(s) \in Seq(Nat) /\ Len(Numbers(s)) = Len(c)
  BY <1>5, <1>6, <1>7
<1>9. \A i \in 1 .. Len(c) : Numbers(s)[i] = c[i].body
  BY <1>5
<1> QED
  BY <1>4, <1>8, <1>9 DEF c

(* Records that carry no data add no number.                                 *)
LEMMA NumbersOfQuiet ==
  ASSUME NEW s \in Seq(ConnStream), NEW t \in Seq(QuietRecords)
  PROVE  s \o t \in Seq(ConnStream) /\ Numbers(s \o t) = Numbers(s)
<1>1. t \in Seq(ConnStream)
  BY RecordTypes, SeqMonotonic
<1>2. /\ s \o t \in Seq(ConnStream) /\ Len(s \o t) = Len(s) + Len(t)
      /\ \A i \in 1 .. Len(s) + Len(t) : (s \o t)[i] = IF i <= Len(s) THEN s[i] ELSE t[i - Len(s)]
  BY <1>1, ConcatProperties
<1>3. Len(s) \in Nat /\ Len(t) \in Nat
  BY LenProperties
<1>4. PICK u \in Seq(ConnStream) : u = s \o t
  BY <1>2
<1>5. /\ Len(s) <= Len(u)
      /\ \A i \in 1 .. Len(s) : u[i] = s[i]
      /\ \A i \in Len(s) + 1 .. Len(u) : u[i].type # "APP"
  <2>1. ASSUME NEW i \in Len(s) + 1 .. Len(u) PROVE u[i].type # "APP"
    <3>1. i - Len(s) \in 1 .. Len(t) /\ i \in 1 .. Len(s) + Len(t) /\ ~(i <= Len(s))
      BY <1>2, <1>3, <1>4
    <3>2. t[i - Len(s)] \in QuietRecords
      BY <3>1, ElementOfSeq
    <3> QED
      BY <1>2, <1>4, <3>1, <3>2, RecordTypes
  <2>2. \A i \in 1 .. Len(s) : i \in 1 .. Len(s) + Len(t) /\ i <= Len(s)
    BY <1>3
  <2> QED
    BY <1>2, <1>3, <1>4, <2>1, <2>2
<1>6. Chosen(u, AppPositions(u)) = Chosen(s, AppPositions(s))
  <2>1. \A i \in 1 .. Len(s) : i \in AppPositions(u) <=> i \in AppPositions(s)
    BY <1>3, <1>4, <1>5 DEF AppPositions
  <2>2. \A i \in AppPositions(u) : i \notin Len(s) + 1 .. Len(u)
    BY <1>5 DEF AppPositions
  <2> QED
    BY <1>5, <2>1, <2>2, ChosenPrefix
<1>7. Numbers(u) = Numbers(s)
  BY <1>6 DEF Numbers, AppPositions
<1> QED
  BY <1>4, <1>7

(* An application record adds its own.                                       *)
LEMMA NumbersOfApp ==
  ASSUME NEW s \in Seq(ConnStream), NEW n \in Nat
  PROVE  /\ Append(s, App(n)) \in Seq(ConnStream)
         /\ Numbers(Append(s, App(n))) = Append(Numbers(s), n)
<1>1. PICK x \in ConnStream : x = App(n) /\ x.type = "APP" /\ x.body = n
  BY RecordTypes
<1>2. PICK u : u = Append(s, x)
  OBVIOUS
<1>3. /\ u \in Seq(ConnStream) /\ Len(u) = Len(s) + 1 /\ Len(s) \in Nat
      /\ u[Len(s) + 1] = x /\ \A i \in 1 .. Len(s) : u[i] = s[i]
  BY <1>2, AppendProperties, LenProperties
<1> DEFINE c == Chosen(s, AppPositions(s))
           d == Chosen(u, AppPositions(u))
<1>4. d = Append(c, x)
  <2>1. \A i \in 1 .. Len(s) : i \in AppPositions(u) <=> i \in AppPositions(s)
    BY <1>3 DEF AppPositions
  <2>2. Len(u) \in AppPositions(u) /\ u[Len(u)] = x /\ Len(s) <= Len(u)
    BY <1>1, <1>3 DEF AppPositions
  <2> QED
    BY <1>3, <2>1, <2>2, ChosenPrefix
<1>5. /\ c \in Seq({App(k) : k \in Nat}) /\ Len(Numbers(s)) = Len(c) /\ Numbers(s) \in Seq(Nat)
      /\ \A i \in 1 .. Len(c) : Numbers(s)[i] = c[i].body
  BY NumbersTyped
<1>6. /\ Len(Numbers(u)) = Len(d) /\ Numbers(u) \in Seq(Nat)
      /\ \A i \in 1 .. Len(d) : Numbers(u)[i] = d[i].body
  BY <1>3, NumbersTyped
<1> HIDE DEF c, d
<1>7. Len(d) = Len(c) + 1 /\ Len(c) \in Nat /\ d[Len(c) + 1] = x
      /\ \A i \in 1 .. Len(c) : d[i] = c[i]
  <2>1. x \in {App(k) : k \in Nat}
    BY <1>1
  <2> QED
    BY <1>4, <1>5, <2>1, AppendProperties, LenProperties
<1>8. /\ Append(Numbers(s), n) \in Seq(Nat) /\ Len(Append(Numbers(s), n)) = Len(c) + 1
      /\ Append(Numbers(s), n)[Len(c) + 1] = n
      /\ \A i \in 1 .. Len(c) : Append(Numbers(s), n)[i] = Numbers(s)[i]
  BY <1>5, AppendProperties
<1>9. Numbers(u) = Append(Numbers(s), n)
  <2>1. ASSUME NEW i \in 1 .. Len(Numbers(u)) PROVE Numbers(u)[i] = Append(Numbers(s), n)[i]
    <3>1. CASE i = Len(c) + 1
      BY <1>1, <1>6, <1>7, <1>8, <3>1
    <3>2. CASE i # Len(c) + 1
      <4>1. i \in 1 .. Len(c) /\ i \in 1 .. Len(d)
        BY <1>6, <1>7, <3>2
      <4> QED
        BY <1>5, <1>6, <1>7, <1>8, <4>1
    <3> QED
      BY <3>1, <3>2
  <2> QED
    BY <1>6, <1>7, <1>8, <2>1, SeqEqual
<1> QED
  BY <1>1, <1>2, <1>3, <1>9

-----------------------------------------------------------------------------
(* What the path carries.                                                    *)

(* What the socket took shows the records it was given, the closing ones     *)
(* among them.                                                               *)
LEMMA VisibleRecords ==
  ASSUME NEW U, NEW t \in Seq(U)
  PROVE  Visible(t) \in Seq(U) /\ (Closer(t) => Closer(Visible(t)))
<1> DEFINE P == {i \in 1 .. Len(t) : t[i].type = "APP" \/ ClosesWrite(t[i])}
<1>1. Visible(t) = Chosen(t, P)
  BY DEF Visible
<1>2. /\ Chosen(t, P) \in Seq({t[i] : i \in P \cap (1 .. Len(t))})
      /\ \A i \in P \cap (1 .. Len(t)) :
           \E j \in 1 .. Len(Chosen(t, P)) : Chosen(t, P)[j] = t[i]
  BY ChosenElements
<1>3. {t[i] : i \in P \cap (1 .. Len(t))} \subseteq U
  <2> SUFFICES ASSUME NEW i \in 1 .. Len(t) PROVE t[i] \in U
    OBVIOUS
  <2> QED
    BY ElementOfSeq
<1>4. Visible(t) \in Seq(U)
  BY <1>1, <1>2, <1>3, SeqMonotonic
<1>5. ASSUME Closer(t) PROVE Closer(Visible(t))
  <2>1. PICK i \in 1 .. Len(t) : ClosesWrite(t[i])
    BY <1>5 DEF Closer
  <2>2. i \in P \cap (1 .. Len(t))
    BY <2>1
  <2>3. PICK j \in 1 .. Len(Chosen(t, P)) : Chosen(t, P)[j] = t[i]
    BY <1>2, <2>2
  <2> HIDE DEF P
  <2> QED
    BY <1>1, <2>1, <2>3 DEF Closer
<1> QED
  BY <1>4, <1>5

(* What the socket took shows an application record as it is.                *)
LEMMA VisibleApp ==
  ASSUME NEW n \in Nat
  PROVE  Visible(<<App(n)>>) = <<App(n)>>
<1>1. PICK x \in ConnStream : x = App(n) /\ x.type = "APP"
  BY RecordTypes
<1>2. PICK t \in Seq(ConnStream) : t = <<x>> /\ Len(t) = 1 /\ t[1] = x
  <2>1. <<x>> \in Seq(ConnStream) /\ Len(<<x>>) = 1 /\ <<x>>[1] = x
    OBVIOUS
  <2> QED
    BY <2>1
<1>3. PICK e \in Seq(ConnStream) : e = <<>> /\ Len(e) = 0
  BY EmptySeq
<1> DEFINE P == {i \in 1 .. Len(t) : t[i].type = "APP" \/ ClosesWrite(t[i])}
<1>4. Len(t) \in P
  BY <1>1, <1>2
<1> HIDE DEF P
<1>5. Chosen(t, P) = Append(Chosen(e, {}), t[Len(t)])
  <2>1. Len(e) <= Len(t) /\ Len(t) = Len(e) + 1
    BY <1>2, <1>3
  <2>2. \A i \in 1 .. Len(e) : t[i] = e[i] /\ (i \in P <=> i \in {})
    BY <1>3
  <2> QED
    BY <1>4, <2>1, <2>2, ChosenPrefix
<1>6. Chosen(t, P) = Append(<<>>, x)
  BY <1>2, <1>3, <1>5, ChosenNothing
<1>7. Visible(t) = Append(<<>>, x)
  BY <1>6 DEF Visible, P
<1> QED
  BY <1>1, <1>2, <1>7

(* Where a closing record is, when sequences are joined and cut.             *)
LEMMA CloserProperties ==
  /\ ~Closer(<<>>)
  /\ \A U : \A s, t \in Seq(U) : Closer(s \o t) <=> Closer(s) \/ Closer(t)
  /\ \A U : \A s \in Seq(U), r \in U : Closer(Append(s, r)) <=> Closer(s) \/ ClosesWrite(r)
  /\ \A U : \A s \in Seq(U), n \in Nat : n <= Len(s) =>
       /\ SubSeq(s, 1, n) \in Seq(U) /\ SubSeq(s, n + 1, Len(s)) \in Seq(U)
       /\ Closer(s) => Closer(SubSeq(s, 1, n)) \/ Closer(SubSeq(s, n + 1, Len(s)))
<1>1. ~Closer(<<>>)
  BY DEF Closer
<1>2. ASSUME NEW U, NEW s \in Seq(U), NEW t \in Seq(U)
      PROVE  Closer(s \o t) <=> Closer(s) \/ Closer(t)
  <2>1. PICK u : /\ u = s \o t /\ Len(u) = Len(s) + Len(t)
                 /\ \A i \in 1 .. Len(s) + Len(t) :
                      u[i] = IF i <= Len(s) THEN s[i] ELSE t[i - Len(s)]
    <3>1. /\ Len(s \o t) = Len(s) + Len(t)
          /\ \A i \in 1 .. Len(s) + Len(t) :
               (s \o t)[i] = IF i <= Len(s) THEN s[i] ELSE t[i - Len(s)]
      BY ConcatProperties
    <3> QED
      BY <3>1, Zenon
  <2>2. Len(s) \in Nat /\ Len(t) \in Nat
    BY LenProperties
  <2>3. ASSUME Closer(u) PROVE Closer(s) \/ Closer(t)
    <3>1. PICK i \in 1 .. Len(u) : ClosesWrite(u[i])
      BY <2>3 DEF Closer
    <3>2. CASE i <= Len(s)
      <4>1. i \in 1 .. Len(s) /\ u[i] = s[i]
        BY <2>1, <2>2, <3>2
      <4> QED
        BY <3>1, <4>1 DEF Closer
    <3>3. CASE ~(i <= Len(s))
      <4>1. i - Len(s) \in 1 .. Len(t) /\ u[i] = t[i - Len(s)]
        BY <2>1, <2>2, <3>3
      <4> QED
        BY <3>1, <4>1 DEF Closer
    <3> QED
      BY <3>2, <3>3
  <2>4. ASSUME Closer(s) PROVE Closer(u)
    <3>1. PICK i \in 1 .. Len(s) : ClosesWrite(s[i])
      BY <2>4 DEF Closer
    <3>2. i \in 1 .. Len(u) /\ u[i] = s[i]
      BY <2>1, <2>2
    <3> QED
      BY <3>1, <3>2 DEF Closer
  <2>5. ASSUME Closer(t) PROVE Closer(u)
    <3>1. PICK i \in 1 .. Len(t) : ClosesWrite(t[i])
      BY <2>5 DEF Closer
    <3>2. Len(s) + i \in 1 .. Len(u) /\ ~(Len(s) + i <= Len(s)) /\ (Len(s) + i) - Len(s) = i
      BY <2>1, <2>2
    <3>3. u[Len(s) + i] = t[i]
      BY <2>1, <3>2
    <3> QED
      BY <3>1, <3>2, <3>3 DEF Closer
  <2> QED
    BY <2>1, <2>3, <2>4, <2>5
<1>3. ASSUME NEW U, NEW s \in Seq(U), NEW r \in U
      PROVE  Closer(Append(s, r)) <=> Closer(s) \/ ClosesWrite(r)
  <2>1. PICK u : /\ u = Append(s, r) /\ Len(u) = Len(s) + 1 /\ u[Len(s) + 1] = r
                 /\ \A i \in 1 .. Len(s) : u[i] = s[i]
    <3>1. /\ Len(Append(s, r)) = Len(s) + 1 /\ Append(s, r)[Len(s) + 1] = r
          /\ \A i \in 1 .. Len(s) : Append(s, r)[i] = s[i]
      BY AppendProperties
    <3> QED
      BY <3>1, Zenon
  <2>2. Len(s) \in Nat
    BY LenProperties
  <2>3. Closer(u) => Closer(s) \/ ClosesWrite(r)
    <3> SUFFICES ASSUME NEW i \in 1 .. Len(u), ClosesWrite(u[i]) PROVE Closer(s) \/ ClosesWrite(r)
      BY DEF Closer
    <3>1. CASE i = Len(s) + 1
      BY <2>1, <3>1
    <3>2. CASE i # Len(s) + 1
      <4>1. i \in 1 .. Len(s)
        BY <2>1, <2>2, <3>2
      <4> QED
        BY <2>1, <4>1 DEF Closer
    <3> QED
      BY <3>1, <3>2
  <2>4. Closer(s) => Closer(u)
    <3> SUFFICES ASSUME NEW i \in 1 .. Len(s), ClosesWrite(s[i]) PROVE Closer(u)
      BY DEF Closer
    <3>1. i \in 1 .. Len(u) /\ u[i] = s[i]
      BY <2>1, <2>2
    <3> QED
      BY <3>1 DEF Closer
  <2>5. ClosesWrite(r) => Closer(u)
    <3>1. Len(s) + 1 \in 1 .. Len(u)
      BY <2>1, <2>2
    <3> QED
      BY <2>1, <3>1 DEF Closer
  <2> QED
    BY <2>1, <2>3, <2>4, <2>5
<1>4. ASSUME NEW U, NEW s \in Seq(U), NEW n \in Nat, n <= Len(s)
      PROVE  /\ SubSeq(s, 1, n) \in Seq(U) /\ SubSeq(s, n + 1, Len(s)) \in Seq(U)
             /\ Closer(s) => Closer(SubSeq(s, 1, n)) \/ Closer(SubSeq(s, n + 1, Len(s)))
  <2>1. Len(s) \in Nat /\ n \in Int /\ n + 1 \in Int /\ Len(s) \in Int
    BY LenProperties
  <2>2. \A i \in 1 .. Len(s) : s[i] \in U
    BY ElementOfSeq
  <2>3. /\ \A i \in 1 .. n : s[i] \in U
        /\ \A i \in n + 1 .. Len(s) : s[i] \in U
    BY <1>4, <2>1, <2>2
  <2>4. PICK u : /\ u = SubSeq(s, 1, n) /\ u \in Seq(U)
                 /\ Len(u) = IF 1 <= n THEN n - 1 + 1 ELSE 0
                 /\ \A i \in 1 .. n - 1 + 1 : u[i] = s[1 + i - 1]
    <3>1. /\ SubSeq(s, 1, n) \in Seq(U)
          /\ Len(SubSeq(s, 1, n)) = IF 1 <= n THEN n - 1 + 1 ELSE 0
          /\ \A i \in 1 .. n - 1 + 1 : SubSeq(s, 1, n)[i] = s[1 + i - 1]
      BY <2>1, <2>3, SubSeqProperties
    <3> QED
      BY <3>1, Zenon
  <2>5. PICK v : /\ v = SubSeq(s, n + 1, Len(s)) /\ v \in Seq(U)
                 /\ Len(v) = IF n + 1 <= Len(s) THEN Len(s) - (n + 1) + 1 ELSE 0
                 /\ \A i \in 1 .. Len(s) - (n + 1) + 1 : v[i] = s[(n + 1) + i - 1]
    <3>1. /\ SubSeq(s, n + 1, Len(s)) \in Seq(U)
          /\ Len(SubSeq(s, n + 1, Len(s))) = IF n + 1 <= Len(s) THEN Len(s) - (n + 1) + 1 ELSE 0
          /\ \A i \in 1 .. Len(s) - (n + 1) + 1 :
               SubSeq(s, n + 1, Len(s))[i] = s[(n + 1) + i - 1]
      BY <2>1, <2>3, SubSeqProperties
    <3> QED
      BY <3>1, Zenon
  <2>6. Closer(s) => Closer(u) \/ Closer(v)
    <3> SUFFICES ASSUME NEW i \in 1 .. Len(s), ClosesWrite(s[i]) PROVE Closer(u) \/ Closer(v)
      BY DEF Closer
    <3>1. CASE i <= n
      <4>1. i \in 1 .. Len(u) /\ i \in 1 .. n - 1 + 1 /\ 1 + i - 1 = i
        BY <2>1, <2>4, <3>1
      <4>2. u[i] = s[i]
        BY <2>4, <4>1
      <4> QED
        BY <4>1, <4>2 DEF Closer
    <3>2. CASE ~(i <= n)
      <4>1. i - n \in 1 .. Len(v) /\ i - n \in 1 .. Len(s) - (n + 1) + 1 /\ (n + 1) + (i - n) - 1 = i
        BY <1>4, <2>1, <2>5, <3>2
      <4>2. v[i - n] = s[i]
        BY <2>5, <4>1
      <4> QED
        BY <4>1, <4>2 DEF Closer
    <3> QED
      BY <3>1, <3>2
  <2> QED
    BY <2>4, <2>5, <2>6
<1> QED
  BY <1>1, <1>2, <1>3, <1>4

-----------------------------------------------------------------------------
(* What the operations on the path make of what it carries.  U is the kind   *)
(* of records in the buffering UIO.                                          *)

Carries(p, U) == IsPath(p) /\ p.wire \in Seq(ConnStream) /\ p.uio \in Seq(U)
Told(p) == Closer(p.wire) \/ Closer(p.uio)

(* The path q comes after the path p, and no data was added. *)
Follows(p, q, U) ==
  /\ Carries(q, U)
  /\ Closer(p.wire) => Closer(q.wire)
  /\ Told(p) => Told(q)
  /\ U = QuietRecords => Numbers(q.wire) = Numbers(p.wire)

(* A path follows itself, and what follows a later one follows the first.    *)
LEMMA FollowsOn ==
  ASSUME NEW p, NEW q, NEW r, NEW U
  PROVE  /\ Carries(p, U) => Follows(p, p, U)
         /\ Follows(p, q, U) /\ Follows(q, r, U) => Follows(p, r, U)
BY DEF Follows

(* What the socket took of records of the kind U. *)
LEMMA Taken ==
  ASSUME NEW U \in SUBSET ConnStream, NEW w \in Seq(ConnStream), NEW v \in Seq(U)
  PROVE  /\ w \o v \in Seq(ConnStream)
         /\ Closer(w \o v) <=> Closer(w) \/ Closer(v)
         /\ U = QuietRecords => Numbers(w \o v) = Numbers(w)
<1>1. v \in Seq(ConnStream)
  BY SeqMonotonic
<1>2. w \o v \in Seq(ConnStream)
  BY <1>1, ConcatProperties
<1>3. Closer(w \o v) <=> Closer(w) \/ Closer(v)
  BY <1>1, CloserProperties
<1>4. U = QuietRecords => Numbers(w \o v) = Numbers(w)
  BY NumbersOfQuiet
<1> QED
  BY <1>2, <1>3, <1>4

(* The buffering UIO gives the socket its first n records.                   *)
LEMMA DrainCarries ==
  ASSUME NEW U \in SUBSET ConnStream, NEW p, Carries(p, U), NEW n \in Nat, n <= Len(p.uio)
  PROVE  /\ Follows(p, Drained(p, n), U)
         /\ n = Len(p.uio) => ~Closer(Drained(p, n).uio)
<1>1. PICK b, u, w, l : p = [buf |-> b, uio |-> u, wire |-> w, lost |-> l]
  BY DEF Carries, IsPath
<1>2. u \in Seq(U) /\ w \in Seq(ConnStream) /\ p.uio = u /\ p.wire = w
  BY <1>1 DEF Carries
<1> DEFINE t == SubSeq(u, 1, n)
           v == SubSeq(u, n + 1, Len(u))
           x == w \o Visible(t)
<1>3. Drained(p, n) = [buf |-> b, uio |-> v, wire |-> x, lost |-> l]
  <2>1. Drained(p, n) = [p EXCEPT !.uio = v, !.wire = x]
    BY <1>2 DEF Drained
  <2> HIDE DEF v, x
  <2> QED
    BY <1>1, <2>1
<1>4. /\ t \in Seq(U) /\ v \in Seq(U)
      /\ Closer(u) => Closer(t) \/ Closer(v)
  BY <1>2, CloserProperties
<1>5. n = Len(u) => v = <<>>
  <2>1. Len(u) \in Int /\ n + 1 \in Int /\ (n = Len(u) => Len(u) < n + 1)
    BY <1>2, LenProperties
  <2> QED
    BY <2>1, SubSeqEmpty
<1>6. Visible(t) \in Seq(U) /\ (Closer(t) => Closer(Visible(t)))
  BY <1>4, VisibleRecords
<1>7. /\ x \in Seq(ConnStream)
      /\ Closer(x) <=> Closer(w) \/ Closer(Visible(t))
      /\ U = QuietRecords => Numbers(x) = Numbers(w)
  BY <1>2, <1>6, Taken
<1> HIDE DEF t, v, x
<1>8. IsPath(Drained(p, n)) /\ Drained(p, n).uio = v /\ Drained(p, n).wire = x
  BY <1>3 DEF IsPath
<1>9. n = Len(p.uio) => ~Closer(v)
  BY <1>2, <1>5, CloserProperties
<1> QED
  BY <1>2, <1>4, <1>6, <1>7, <1>8, <1>9 DEF Follows, Carries, Told

(* A buffering UIO that is freed takes nothing from what the socket has.     *)
LEMMA DeinitCarries ==
  ASSUME NEW U, NEW p, Carries(p, U)
  PROVE  Carries(UIO_Deinit(p), U) /\ UIO_Deinit(p).wire = p.wire
<1>1. PICK b, u, w, l : p = [buf |-> b, uio |-> u, wire |-> w, lost |-> l]
  BY DEF Carries, IsPath
<1>2. UIO_Deinit(p) = [buf |-> b, uio |-> <<>>, wire |-> w, lost |-> l]
  BY <1>1 DEF UIO_Deinit
<1>3. PICK e \in Seq(U) : e = <<>>
  BY EmptySeq
<1>4. UIO_Deinit(p) = [buf |-> b, uio |-> e, wire |-> w, lost |-> l]
  BY <1>2, <1>3
<1>5. IsPath(UIO_Deinit(p)) /\ UIO_Deinit(p).uio = e /\ UIO_Deinit(p).wire = w
  BY <1>4 DEF IsPath
<1>6. w \in Seq(ConnStream) /\ p.wire = w
  BY <1>1 DEF Carries
<1> QED
  BY <1>3, <1>5, <1>6 DEF Carries

(* A flush that succeeds leaves nothing in the buffering UIO.                *)
LEMMA FlushCarries ==
  ASSUME NEW U \in SUBSET ConnStream, NEW p, Carries(p, U), NEW h \in BOOLEAN,
         NEW f \in UioFlush(h, p)
  PROVE  /\ Follows(p, f.path, U)
         /\ Buffering(h) /\ f.ret = "SUCCESS" => ~Closer(f.path.uio)
         /\ ~Buffering(h) => f.path = p /\ f.ret = "SUCCESS"
<1>1. p.uio \in Seq(U)
  BY DEF Carries
<1>2. Len(p.uio) \in Nat
  BY <1>1, LenProperties
<1>3. ASSUME NEW q \in PartlyDrained(p) PROVE Follows(p, q, U)
  <2>1. PICK n \in 0 .. Len(p.uio) - 1 : q = Drained(p, n)
    BY DEF PartlyDrained
  <2>2. n \in Nat /\ n <= Len(p.uio)
    BY <1>2
  <2> QED
    BY <2>1, <2>2, DrainCarries
<1>4. CASE Buffering(h)
  <2>1. \/ f = Result(Drained(p, Len(p.uio)), "SUCCESS")
        \/ \E q \in PartlyDrained(p) : f = Result(q, "IO_BUSY") \/ f = Result(q, "IO_EXCEPTION")
    BY <1>4 DEF UioFlush, Buffering
  <2>2. CASE f = Result(Drained(p, Len(p.uio)), "SUCCESS")
    <3>1. f.path = Drained(p, Len(p.uio))
      BY <2>2 DEF Result
    <3>2. PICK n \in Nat : n = Len(p.uio) /\ n <= Len(p.uio)
      BY <1>2
    <3> QED
      BY <1>4, <3>1, <3>2, DrainCarries
  <2>3. CASE \E q \in PartlyDrained(p) : f = Result(q, "IO_BUSY") \/ f = Result(q, "IO_EXCEPTION")
    <3>1. f.path \in PartlyDrained(p) /\ f.ret # "SUCCESS"
      BY <2>3 DEF Result
    <3> QED
      BY <1>3, <1>4, <3>1
  <2> QED
    BY <2>1, <2>2, <2>3
<1>5. CASE ~Buffering(h)
  <2>1. f = Result(p, "SUCCESS")
    BY <1>5 DEF UioFlush, Buffering
  <2>2. f.path = p /\ f.ret = "SUCCESS"
    BY <2>1 DEF Result
  <2> QED
    BY <1>5, <2>2, FollowsOn
<1> QED
  BY <1>4, <1>5

(* What is asked of the record layer, with no other record in the way. *)
LEMMA WriteCarries ==
  ASSUME NEW U \in SUBSET ConnStream, NEW p, Carries(p, U), NEW rec \in U,
         p.buf \in {NoRecord, rec}, NEW h \in BOOLEAN, NEW w \in REC_Write(h, p, rec)
  PROVE  /\ Carries(w.path, U)
         /\ Closer(p.wire) => Closer(w.path.wire)
         /\ Told(p) => Told(w.path)
         /\ U = QuietRecords => Numbers(w.path.wire) = Numbers(p.wire)
         /\ ClosesWrite(rec) /\ w.ret = "SUCCESS" =>
              Told(w.path) /\ (Closer(w.path.wire) \/ Buffering(h))
<1>0. ToSend(p, rec) = rec
  BY DEF ToSend
<1>1. ASSUME NEW q, Carries(q, U), q.buf = p.buf
      PROVE  Follows(q, Refused(q, rec), U)
  <2>1. PICK b, u, x, l : q = [buf |-> b, uio |-> u, wire |-> x, lost |-> l]
    BY <1>1 DEF Carries, IsPath
  <2>2. Refused(q, rec) = [buf |-> IF config.datagram THEN NoRecord ELSE ToSend(q, rec),
                           uio |-> u, wire |-> x, lost |-> l]
    BY <2>1 DEF Refused
  <2> QED
    BY <1>1, <2>1, <2>2 DEF Carries, IsPath, Follows, Told
<1>2. CASE ~Buffering(h)
  <2>1. w \in SocketWrite(p, rec)
    BY <1>2 DEF REC_Write
  <2>2. CASE w \in {Result(Refused(p, rec), "IO_BUSY"), Result(Refused(p, rec), "IO_EXCEPTION")}
    <3>1. w.path = Refused(p, rec) /\ w.ret # "SUCCESS"
      BY <2>2 DEF Result
    <3> QED
      BY <1>1, <3>1 DEF Follows
  <2>3. CASE w = Result([p EXCEPT !.buf = NoRecord, !.lost = Lost(p, rec),
                                  !.wire = @ \o Visible(<<ToSend(p, rec)>>)], "SUCCESS")
    <3>1. PICK b, u, x, l : p = [buf |-> b, uio |-> u, wire |-> x, lost |-> l]
      BY DEF Carries, IsPath
    <3> DEFINE m == Lost(p, rec)
               v == Visible(<<rec>>)
               y == x \o v
    <3>2. w.path = [p EXCEPT !.buf = NoRecord, !.lost = m, !.wire = y]
      BY <1>0, <2>3, <3>1 DEF Result
    <3>3. <<rec>> \in Seq(U) /\ (ClosesWrite(rec) => Closer(<<rec>>))
      <4>1. PICK e \in Seq(U) : e = <<>>
        BY EmptySeq
      <4>2. <<rec>> = Append(e, rec) /\ Append(e, rec) \in Seq(U)
        BY <4>1
      <4>3. Closer(Append(e, rec)) <=> Closer(e) \/ ClosesWrite(rec)
        <5>1. \A s \in Seq(U), r \in U : Closer(Append(s, r)) <=> Closer(s) \/ ClosesWrite(r)
          BY CloserProperties
        <5> QED
          BY <5>1, Zenon
      <4> QED
        BY <4>2, <4>3, Zenon
    <3>4. v \in Seq(U) /\ (ClosesWrite(rec) => Closer(v))
      BY <3>3, VisibleRecords
    <3>5. x \in Seq(ConnStream) /\ u \in Seq(U) /\ p.wire = x /\ p.uio = u
      BY <3>1 DEF Carries
    <3>6. /\ y \in Seq(ConnStream)
          /\ Closer(y) <=> Closer(x) \/ Closer(v)
          /\ U = QuietRecords => Numbers(y) = Numbers(x)
      BY <3>4, <3>5, Taken
    <3> HIDE DEF m, v, y
    <3>7. w.path = [buf |-> NoRecord, uio |-> u, wire |-> y, lost |-> m]
      BY <3>1, <3>2
    <3>8. IsPath(w.path) /\ w.path.uio = u /\ w.path.wire = y
      BY <3>7 DEF IsPath
    <3> QED
      BY <3>4, <3>5, <3>6, <3>8 DEF Carries, Told
  <2> QED
    BY <2>1, <2>2, <2>3 DEF SocketWrite
<1>3. CASE Buffering(h)
  <2> DEFINE Buffered(q) ==
        Result([q EXCEPT !.buf = NoRecord, !.lost = Lost(p, rec),
                         !.uio = Append(@, ToSend(p, rec))], "SUCCESS")
  <2>1. ASSUME NEW q, Follows(p, q, U), w = Buffered(q)
        PROVE  Follows(p, w.path, U) /\ (ClosesWrite(rec) => Told(w.path))
    <3>0. Carries(q, U)
      BY <2>1 DEF Follows
    <3>1. PICK b, u, x, l : q = [buf |-> b, uio |-> u, wire |-> x, lost |-> l]
      BY <3>0 DEF Carries, IsPath
    <3> DEFINE m == Lost(p, rec)
               v == Append(u, rec)
    <3>2. w.path = [q EXCEPT !.buf = NoRecord, !.lost = m, !.uio = v]
      BY <1>0, <2>1, <3>1 DEF Result
    <3>3. x \in Seq(ConnStream) /\ u \in Seq(U) /\ q.wire = x /\ q.uio = u
      BY <3>0, <3>1 DEF Carries
    <3>4. v \in Seq(U) /\ (Closer(v) <=> Closer(u) \/ ClosesWrite(rec))
      BY <3>3, CloserProperties, AppendProperties
    <3> HIDE DEF m, v
    <3>5. w.path = [buf |-> NoRecord, uio |-> v, wire |-> x, lost |-> m]
      BY <3>1, <3>2
    <3>6. IsPath(w.path) /\ w.path.uio = v /\ w.path.wire = x
      BY <3>5 DEF IsPath
    <3> QED
      BY <2>1, <3>3, <3>4, <3>6 DEF Carries, Told, Follows
  <2>2. \/ w = Buffered(p) \/ w = Buffered(Drained(p, Len(p.uio)))
        \/ w \in {Result(Refused(q, rec), "IO_EXCEPTION") : q \in PartlyDrained(p)}
    BY <1>3 DEF REC_Write, BufferWrite
  <2> HIDE DEF Buffered
  <2>3. Len(p.uio) \in Nat
    BY LenProperties DEF Carries
  <2>4. Follows(p, p, U) /\ Follows(p, Drained(p, Len(p.uio)), U)
    BY <2>3, FollowsOn, DrainCarries
  <2>5. ASSUME NEW q \in PartlyDrained(p), w = Result(Refused(q, rec), "IO_EXCEPTION")
        PROVE  Follows(p, w.path, U) /\ w.ret # "SUCCESS"
    <3>1. PICK n \in 0 .. Len(p.uio) - 1 : q = Drained(p, n)
      BY DEF PartlyDrained
    <3>2. n \in Nat /\ n <= Len(p.uio)
      BY <2>3
    <3>3. Follows(p, q, U) /\ q.buf = p.buf
      BY <3>1, <3>2, DrainCarries, DrainKeeps DEF Carries
    <3>4. Follows(q, Refused(q, rec), U)
      BY <1>1, <3>3 DEF Follows
    <3>5. w.path = Refused(q, rec) /\ w.ret # "SUCCESS"
      BY <2>5 DEF Result
    <3> QED
      BY <3>3, <3>4, <3>5, FollowsOn
  <2> QED
    BY <1>3, <2>1, <2>2, <2>4, <2>5 DEF Follows
<1> QED
  BY <1>2, <1>3

(* Data that goes straight to the socket. *)
LEMMA DataToSocket ==
  ASSUME NEW U, NEW p, Carries(p, U), NEW n \in Nat,
         p.buf \in {NoRecord, App(n)}, NEW h \in BOOLEAN, ~Buffering(h),
         NEW w \in REC_Write(h, p, App(n))
  PROVE  /\ Carries(w.path, U)
         /\ \/ w.ret = "SUCCESS" /\ w.path.wire = Append(p.wire, App(n))
            \/ w.ret \in Refusals /\ w.path.wire = p.wire
<1>0. ToSend(p, App(n)) = App(n)
  BY DEF ToSend
<1>1. w \in SocketWrite(p, App(n))
  BY DEF REC_Write
<1>2. PICK b, u, x, l : p = [buf |-> b, uio |-> u, wire |-> x, lost |-> l]
  BY DEF Carries, IsPath
<1>3. x \in Seq(ConnStream) /\ u \in Seq(U) /\ p.wire = x /\ p.uio = u
  BY <1>2 DEF Carries
<1>4. CASE w \in {Result(Refused(p, App(n)), "IO_BUSY"), Result(Refused(p, App(n)), "IO_EXCEPTION")}
  <2>1. w.path = Refused(p, App(n)) /\ w.ret \in Refusals
    BY <1>4 DEF Result, Refusals
  <2>2. Refused(p, App(n)) = [buf |-> IF config.datagram THEN NoRecord ELSE ToSend(p, App(n)),
                              uio |-> u, wire |-> x, lost |-> l]
    BY <1>2 DEF Refused
  <2> QED
    BY <1>3, <2>1, <2>2 DEF Carries, IsPath
<1>5. CASE w = Result([p EXCEPT !.buf = NoRecord, !.lost = Lost(p, App(n)),
                                !.wire = @ \o Visible(<<ToSend(p, App(n))>>)], "SUCCESS")
  <2> DEFINE m == Lost(p, App(n))
             y == Append(x, App(n))
  <2>1. x \o Visible(<<App(n)>>) = y
    <3>1. Visible(<<App(n)>>) = <<App(n)>>
      BY VisibleApp
    <3>2. PICK r \in ConnStream : r = App(n)
      BY RecordTypes
    <3>3. x \o <<r>> = Append(x, r)
      BY <1>3
    <3> QED
      BY <3>1, <3>2, <3>3
  <2>2. w.path = [p EXCEPT !.buf = NoRecord, !.lost = m, !.wire = y]
    BY <1>0, <1>2, <1>5, <2>1 DEF Result
  <2>3. y \in Seq(ConnStream)
    BY <1>3, NumbersOfApp
  <2> HIDE DEF m, y
  <2>4. w.path = [buf |-> NoRecord, uio |-> u, wire |-> y, lost |-> m]
    BY <1>2, <2>2
  <2>5. IsPath(w.path) /\ w.path.uio = u /\ w.path.wire = y
    BY <2>4 DEF IsPath
  <2>6. w.ret = "SUCCESS"
    BY <1>5 DEF Result
  <2> QED
    BY <1>3, <2>3, <2>5, <2>6 DEF Carries, y
<1> QED
  BY <1>1, <1>4, <1>5 DEF SocketWrite

-----------------------------------------------------------------------------
(* The two directions of the connection.                                     *)

(* What an alert that is sent makes of them. *)
LEMMA SentShuts ==
  ASSUME shutdown \subseteq {"SENT", "RECEIVED"}, NEW c \in ConnRecords, NEW a,
         NEW o \in CommonEventInAlertingState(c, a)
  PROVE  /\ shutdown \subseteq o.shutdown
         /\ \/ o.shutdown = shutdown
            \/ o.conn.state \in {"ALERTED", "CLOSED"}
<1> DEFINE Closing == ChangeConnState(c, IF userShutDown THEN "CLOSED" ELSE "ALERTED")
           told == shutdown \cup {"SENT"}
                     \cup (IF Closing.preState # "TRANSPORTING" THEN {"RECEIVED"} ELSE {})
<1>1. Closing.state \in {"ALERTED", "CLOSED"}
  BY ChangeState DEF States
<1>2. shutdown \subseteq told
  OBVIOUS
<1>3. \/ \E d, f, r : o = Outcome(d, shutdown, f, r)
      \/ \E f : o = Outcome(Closing, told, f, "SUCCESS")
  <2>1. PICK f \in ALERT_Flush(a) :
          \/ \E d, g, r : o = Outcome(d, shutdown, g, r)
          \/ o = Outcome(Closing, told, f, "SUCCESS")
    BY DEF CommonEventInAlertingState
  <2> QED
    BY <2>1
<1> HIDE DEF Closing, told
<1>4. CASE \E d, f, r : o = Outcome(d, shutdown, f, r)
  BY <1>4 DEF Outcome
<1>5. CASE \E f : o = Outcome(Closing, told, f, "SUCCESS")
  BY <1>1, <1>2, <1>5 DEF Outcome
<1> QED
  BY <1>3, <1>4, <1>5

(* The alert a of a loop: only the close_notify of the peer closes one       *)
(* direction alone.                                                          *)
LEMMA AlertShuts ==
  ASSUME shutdown \subseteq {"SENT", "RECEIVED"}, conn \in ConnRecords, conn.state # "ALERTING",
         NEW a \in AlertContexts, a.flag # "NO", NEW o \in AlertEventProcess(a)
  PROVE  /\ shutdown \subseteq o.shutdown
         /\ \/ o.shutdown = shutdown
            \/ o.conn.state \in {"ALERTED", "CLOSED", "ALERTING"}
         /\ o.conn.state = "CLOSED" /\ "SENT" \notin o.shutdown =>
              conn.state \in {"TRANSPORTING", "CLOSED"}
         /\ o.conn.state = "ALERTING" /\ ~Final(a) => o.shutdown = shutdown
<1> DEFINE received == shutdown \cup {"RECEIVED"}
           both == {"SENT", "RECEIVED"}
           alerting == ChangeConnState(conn, "ALERTING")
<1>0. Resolved(a, o)
  BY AlertProcessed
<1>1. CASE a.flag # "RECV"
  <2>1. alerting \in ConnRecords /\ alerting.state = "ALERTING" /\ alerting.preState = conn.state
    BY ChangeState DEF States
  <2>2. o \in CommonEventInAlertingState(alerting, a)
    BY <1>1 DEF AlertEventProcess
  <2> HIDE DEF alerting
  <2>3. /\ shutdown \subseteq o.shutdown
        /\ \/ o.shutdown = shutdown
           \/ o.conn.state \in {"ALERTED", "CLOSED"}
    BY <2>1, <2>2, SentShuts
  <2>4. o.conn.state = "CLOSED" => "SENT" \in o.shutdown \/ conn.state = "CLOSED"
    BY <2>1, <2>2, SentAlert
  <2> QED
    BY <2>3, <2>4
<1>2. CASE a.flag = "RECV"
  <2>1. o \in AlertRecvProcess(a)
    BY <1>2 DEF AlertEventProcess
  <2>2. CASE ~Final(a)
    <3>1. \E f : o = Outcome(conn, shutdown, f, "SUCCESS")
      BY <2>1, <2>2 DEF AlertRecvProcess, Final
    <3>2. o.conn = conn /\ o.shutdown = shutdown
      BY <3>1 DEF Outcome
    <3> QED
      BY <3>2
  <2>3. CASE Final(a)
    <3> DEFINE Ends(d) ==
                 \E s \in {both, received} : \E f, r : o = Outcome(d, s, f, r)
    <3>1. /\ ChangeConnState(conn, "ALERTED").state = "ALERTED"
          /\ ChangeConnState(conn, "CLOSED").state = "CLOSED"
          /\ alerting \in ConnRecords /\ alerting.state = "ALERTING"
      BY ChangeState DEF States
    <3>2. ChangeConnState(alerting, "ALERTED").state = "ALERTED"
      BY <3>1, ChangeState DEF States
    <3>3. \/ Ends(ChangeConnState(conn, "ALERTED"))
          \/ Ends(ChangeConnState(alerting, "ALERTED"))
          \/ Ends(alerting)
          \/ /\ \E f, r : o = Outcome(ChangeConnState(conn, "CLOSED"), received, f, r)
             /\ "SENT" \in shutdown \/ conn.state = "TRANSPORTING"
      BY <2>1, <2>3 DEF AlertRecvProcess, AnswerCloseNotify, Final
    <3>4. shutdown \subseteq both /\ shutdown \subseteq received
      OBVIOUS
    <3>5. ASSUME NEW d, d.state \in {"ALERTED", "ALERTING"}, Ends(d)
          PROVE  shutdown \subseteq o.shutdown /\ o.conn.state \in {"ALERTED", "ALERTING"}
      <4>1. PICK s \in {both, received} : \E f, r : o = Outcome(d, s, f, r)
        BY <3>5
      <4>2. o.conn = d /\ o.shutdown = s
        BY <4>1 DEF Outcome
      <4> QED
        BY <3>4, <3>5, <4>1, <4>2
    <3>6. CASE Ends(ChangeConnState(conn, "ALERTED"))
      BY <2>3, <3>1, <3>5, <3>6
    <3>7. CASE Ends(ChangeConnState(alerting, "ALERTED"))
      BY <2>3, <3>2, <3>5, <3>7
    <3>8. CASE Ends(alerting)
      BY <2>3, <3>1, <3>5, <3>8
    <3>9. CASE /\ \E f, r : o = Outcome(ChangeConnState(conn, "CLOSED"), received, f, r)
               /\ "SENT" \in shutdown \/ conn.state = "TRANSPORTING"
      <4>1. o.conn = ChangeConnState(conn, "CLOSED") /\ o.shutdown = received
        BY <3>9 DEF Outcome
      <4> HIDE DEF received
      <4> QED
        BY <2>3, <3>1, <3>4, <3>9, <4>1 DEF received
    <3> QED
      BY <3>3, <3>6, <3>7, <3>8, <3>9
  <2> QED
    BY <2>2, <2>3
<1> QED
  BY <1>1, <1>2

(* What a step makes of the directions: a flag stays, ALERTED is left only   *)
(* for a connection both of whose directions are closed, and a connection    *)
(* that is open afterwards was open before.                                  *)
DirectionStep ==
  /\ shutdown \subseteq shutdown'
  /\ conn.state = "ALERTED" => conn'.state = "ALERTED" \/ shutdown' = {"SENT", "RECEIVED"}
  /\ \/ Restored' \notin OpenStates
     \/ UNCHANGED shutdown /\ (Restored' = Restored \/ Restored \in OpenStates)

(* The steps that leave the state and the flags alone.                       *)
LEMMA QuietDirections ==
  ASSUME UNCHANGED <<conn, shutdown>>, UNCHANGED alertCtx \/ conn.state # "ALERTING"
  PROVE  DirectionStep /\ Restored' = Restored
<1>1. Restored' = Restored
  BY DEF Restored, Final
<1> QED
  BY <1>1 DEF DirectionStep

(* The turns of the loops, all but those that change the state.              *)
LEMMA TurnDirections ==
  ASSUME ConnInv,
         \/ HsSend \/ HsFlushFails \/ HsRecv \/ HsRefuse \/ HsRecvFails \/ HsWriteMeanwhile
         \/ HsUnexpectedApp \/ HsAllowedApp \/ HsNullContext
         \/ ReadData \/ ReadFails \/ ReadHandshakeClosed
         \/ ReadRefusedHandshake \/ TwoMslTimeout
         \/ WriteBadRetry \/ WriteData
  PROVE  /\ at = "run" /\ UNCHANGED <<conn, shutdown, config>>
         /\ DirectionStep /\ Restored' = Restored /\ Restored = conn.state
<1>1. at = "run" /\ UNCHANGED <<conn, shutdown, config>>
  BY DEF HsSend, HsFlushFails, HsRecv, HsRefuse, HsRecvFails, HsWriteMeanwhile, HsUnexpectedApp,
         HsAllowedApp, HsNullContext, ReadData, ReadFails, ReadHandshakeClosed,
         ReadRefusedHandshake, TwoMslTimeout, WriteBadRetry, WriteData,
         HsFlushed, InHandshake, Reading
<1>2. conn.state # "ALERTING"
  BY <1>1 DEF ConnInv, AlertInv
<1>3. Restored = conn.state
  BY <1>2 DEF Restored
<1> QED
  BY <1>1, <1>2, <1>3, QuietDirections

(* The steps from one open state to another. *)
LEMMA OpenDirections ==
  ASSUME ConnInv, HsDone \/ ConnectIdle \/ ReadRenegotiationRequest \/ ReadRefusedRequest
                  \/ ReadPostHandshake \/ HITLS_Renegotiate \/ HITLS_KeyUpdate
  PROVE  /\ DirectionStep /\ conn.state \in OpenStates /\ Restored = conn.state
         /\ conn'.state \in OpenStates /\ Restored' = conn'.state
         /\ UNCHANGED <<shutdown, accepted, writing, config>>
<1>0. conn \in ConnRecords
  BY DEF ConnInv, ControlOK
<1>1. /\ UNCHANGED <<shutdown, accepted, writing, config>>
      /\ conn.state \in OpenStates
      /\ \E s \in OpenStates : conn' = ChangeConnState(conn, s)
  <2>1. CASE HsDone
    BY <2>1 DEF HsDone, HsFlushed, InHandshake, ConnInv, LoopInv, HandshakeLoops, OpenStates, appVars
  <2>2. CASE ConnectIdle
    BY <2>2 DEF ConnectIdle, Entering, OpenStates, appVars
  <2>3. CASE HITLS_Renegotiate \/ HITLS_KeyUpdate
    BY <2>3 DEF HITLS_Renegotiate, HITLS_KeyUpdate, OpenStates, appVars
  <2>4. CASE ReadRenegotiationRequest \/ ReadRefusedRequest \/ ReadPostHandshake
    <3>1. PICK c \in OpenStates : \E s : TakeHandshake(c, s)
      BY <2>4 DEF ReadRenegotiationRequest, ReadRefusedRequest, ReadPostHandshake, OpenStates
    <3> QED
      BY <3>1 DEF TakeHandshake, Reading, ConnInv, LoopInv, OpenStates, appVars
  <2> QED
    BY <2>1, <2>2, <2>3, <2>4
<1>2. conn'.state \in OpenStates
  BY <1>0, <1>1, ChangeState DEF OpenStates, States
<1>3. conn.state # "ALERTING" /\ conn'.state # "ALERTING" /\ conn.state # "ALERTED"
  BY <1>1, <1>2 DEF OpenStates
<1>4. Restored = conn.state /\ Restored' = conn'.state
  BY <1>3 DEF Restored
<1> QED
  BY <1>1, <1>2, <1>3, <1>4 DEF DirectionStep
(* What a close leaves behind. *)
LEMMA CloseOutcome ==
  ASSUME ConnInv, CloseAtOnce \/ CloseOpen
  PROVE  /\ conn' \in ConnRecords /\ shutdown' \subseteq {"SENT", "RECEIVED"}
         /\ shutdown \subseteq shutdown'
         /\ alertCtx' \in AlertContexts /\ alertCtx'.warnCount = alertCtx.warnCount
         /\ \/ conn'.state = "CLOSED" /\ "SENT" \in shutdown'
            \/ conn'.state = "ALERTED"
            \/ conn'.state = "ALERTING" /\ alertCtx'.flag = "SEND" /\ Final(alertCtx')
         /\ conn.state = "ALERTED" => shutdown' = {"SENT", "RECEIVED"}
<1>2. /\ at = "entry" /\ conn \in ConnRecords /\ alertCtx \in AlertContexts
      /\ shutdown \subseteq {"SENT", "RECEIVED"}
  BY DEF ConnInv, ControlOK, DataOK, CloseAtOnce, CloseOpen, Entering
<1>3. CASE CloseAtOnce
  BY <1>2, <1>3, ChangeState DEF CloseAtOnce, States
<1>4. CASE CloseOpen
  <2> DEFINE s == IF "SENT" \in shutdown THEN {Flushed(path, alertCtx, "SUCCESS")}
                  ELSE ALERT_Flush(ALERT_Send(alertCtx, "WARNING", "CLOSE_NOTIFY"))
             both == IF conn.state \in {"HANDSHAKING", "RENEGOTIATION"} THEN {"RECEIVED"} ELSE {}
  <2>1. PICK f \in s :
          /\ alertCtx' = f.alert
          /\ IF f.ret = "SUCCESS"
             THEN /\ shutdown' = shutdown \cup {"SENT"} \cup both
                  /\ conn' = ChangeConnState(conn, "CLOSED")
             ELSE /\ conn' = ChangeConnState(conn, UnsentCloseState(conn.state))
                  /\ UNCHANGED shutdown
    BY <1>4 DEF CloseOpen
  <2>2. both \subseteq {"RECEIVED"}
    OBVIOUS
  <2> HIDE DEF both
  <2>3. /\ shutdown' \subseteq {"SENT", "RECEIVED"} /\ shutdown \subseteq shutdown'
        /\ f.ret = "SUCCESS" => "SENT" \in shutdown'
    BY <1>2, <2>1, <2>2
  <2>4. UnsentCloseState(conn.state) \in {"ALERTED", "ALERTING"}
    BY DEF UnsentCloseState
  <2>5. /\ conn' \in ConnRecords
        /\ f.ret = "SUCCESS" => conn'.state = "CLOSED"
        /\ f.ret # "SUCCESS" => conn'.state \in {"ALERTED", "ALERTING"}
    <3>1. CASE f.ret = "SUCCESS"
      BY <1>2, <2>1, <3>1, ChangeState DEF States
    <3>2. CASE f.ret # "SUCCESS"
      BY <1>2, <2>1, <2>4, <3>2, ChangeState DEF States
    <3> QED
      BY <3>1, <3>2
  <2>6. conn.state \in {"HANDSHAKING", "TRANSPORTING", "RENEGOTIATION", "CLOSED"}
    BY <1>4 DEF CloseOpen, Entering
  <2>7. CASE "SENT" \in shutdown
    <3>1. f.alert = alertCtx /\ f.ret = "SUCCESS"
      BY <2>1, <2>7 DEF Flushed
    <3> QED
      BY <1>2, <2>1, <2>3, <2>5, <2>6, <3>1
  <2>8. CASE "SENT" \notin shutdown
    <3> DEFINE b == ALERT_Send(alertCtx, "WARNING", "CLOSE_NOTIFY")
    <3>1. alertCtx.flag = "NO"
      BY <1>2, <2>6, <2>8 DEF ConnInv, AlertInv, OpenStates
    <3>2. /\ b \in AlertContexts /\ b.warnCount = alertCtx.warnCount
          /\ b.flag = "SEND" /\ b.description = "CLOSE_NOTIFY"
      BY <1>2, <3>1, SendAlert DEF Descriptions
    <3>3. f \in ALERT_Flush(b)
      BY <2>1, <2>8
    <3> HIDE DEF b
    <3>4. /\ f.alert \in AlertContexts /\ f.alert.warnCount = alertCtx.warnCount
          /\ f.alert.flag = "SEND" /\ Final(f.alert)
      BY <3>2, <3>3, FlushAlert DEF SameAlert, Final
    <3> QED
      BY <2>1, <2>3, <2>5, <2>6, <3>4
  <2> QED
    BY <2>7, <2>8
<1> QED
  BY <1>3, <1>4

(* The alerts that are processed, and the calls that close. *)
LEMMA EndDirections ==
  ASSUME ConnInv, ProcessAlert \/ UnsentAlert \/ CloseAlerting \/ CloseAtOnce \/ CloseOpen
  PROVE  /\ DirectionStep
         /\ Restored' = Restored \/ Restored' \notin OpenStates
         /\ conn'.state = "CLOSED" /\ "SENT" \notin shutdown' =>
              conn.state \in {"TRANSPORTING", "CLOSED"}
         /\ UNCHANGED <<hsState, accepted, writing, config>>
<1>0. /\ conn \in ConnRecords /\ alertCtx \in AlertContexts
      /\ shutdown \subseteq {"SENT", "RECEIVED"}
      /\ UNCHANGED <<hsState, accepted, writing, config>>
  BY DEF ConnInv, ControlOK, DataOK, ProcessAlert, UnsentAlert, CloseAlerting, CloseAtOnce,
         CloseOpen, appVars
<1>1. CASE CloseAtOnce \/ CloseOpen
  <2>1. Restored' \in {"CLOSED", "ALERTED", "ALERTING"}
    BY <1>1, CloseOutcome DEF Restored
  <2> QED
    BY <1>0, <1>1, <2>1, CloseOutcome DEF DirectionStep, OpenStates
<1>2. CASE UnsentAlert \/ CloseAlerting
  <2>1. /\ at = "entry" /\ conn.state = "ALERTING" /\ alertCtx.flag = "SEND"
        /\ ~Final(alertCtx) => conn.preState \in {"HANDSHAKING", "TRANSPORTING"}
    BY <1>2 DEF UnsentAlert, CloseAlerting, Entering, ConnInv, AlertInv
  <2>2. PICK b \in AlertContexts :
          /\ SameAlert(alertCtx, b) \/ Final(b)
          /\ \E o \in CommonEventInAlertingState(conn, b) : Apply(o)
    <3>1. CASE UnsentAlert
      BY <1>0, <3>1 DEF UnsentAlert, SameAlert
    <3>2. CASE CloseAlerting
      <4> DEFINE b == ALERT_Send(alertCtx, "WARNING", "CLOSE_NOTIFY")
      <4>1. b \in AlertContexts /\ Final(b)
        BY <1>0, SendAlert DEF Descriptions, Final
      <4>2. \E o \in CommonEventInAlertingState(conn, b) : Apply(o)
        BY <3>2 DEF CloseAlerting
      <4> HIDE DEF b
      <4> QED
        BY <4>1, <4>2
    <3> QED
      BY <1>2, <3>1, <3>2
  <2>3. PICK o \in CommonEventInAlertingState(conn, b) : Apply(o)
    BY <2>2
  <2>4. conn' = o.conn /\ shutdown' = o.shutdown /\ alertCtx' = o.alert
    BY <2>3 DEF Apply
  <2>5. /\ shutdown \subseteq o.shutdown
        /\ o.shutdown = shutdown \/ o.conn.state \in {"ALERTED", "CLOSED"}
    BY <1>0, <2>3, SentShuts
  <2>6. \/ o.conn = conn /\ SameAlert(b, o.alert)
        \/ /\ o.conn.state \in {"ALERTED", "CLOSED"}
           /\ o.conn.state = "CLOSED" => "SENT" \in o.shutdown
        \/ ~Final(b) /\ o.conn.state = conn.preState
    BY <1>0, <2>1, <2>3, SentAlert
  <2>7. CASE o.conn = conn /\ SameAlert(b, o.alert)
    <3>1. Final(alertCtx') <=> Final(b)
      BY <2>4, <2>7 DEF SameAlert, Final
    <3>2. conn' = conn /\ UNCHANGED shutdown
      BY <2>1, <2>4, <2>5, <2>7
    <3>3. Restored' = Restored \/ Restored' \notin OpenStates
      BY <2>1, <2>2, <3>1, <3>2 DEF Restored, SameAlert, Final, OpenStates
    <3> QED
      BY <1>0, <2>1, <3>2, <3>3 DEF DirectionStep
  <2>8. CASE /\ o.conn.state \in {"ALERTED", "CLOSED"}
             /\ o.conn.state = "CLOSED" => "SENT" \in o.shutdown
    <3>1. Restored' \notin OpenStates
      BY <2>4, <2>8 DEF Restored, OpenStates
    <3> QED
      BY <1>0, <2>1, <2>4, <2>5, <2>8, <3>1 DEF DirectionStep
  <2>9. CASE ~Final(b) /\ o.conn.state = conn.preState
    <3>1. ~Final(alertCtx)
      BY <2>2, <2>9 DEF SameAlert, Final
    <3>2. conn'.state = conn.preState /\ conn.preState \in {"HANDSHAKING", "TRANSPORTING"}
      BY <2>1, <2>4, <2>9, <3>1
    <3>3. Restored' = Restored
      BY <2>1, <3>1, <3>2 DEF Restored
    <3> QED
      BY <1>0, <2>1, <2>4, <2>5, <3>2, <3>3 DEF DirectionStep
  <2> QED
    BY <2>6, <2>7, <2>8, <2>9
<1>3. CASE ProcessAlert
  <2>1. PICK p : p = AlertToProcess
    OBVIOUS
  <2>2. PICK o \in AlertEventProcess(p) : Apply(o)
    BY <1>3, <2>1 DEF ProcessAlert
  <2>3. at = "alert" /\ conn.state \notin {"ALERTING", "ALERTED"} /\ Restored = conn.state
    BY <1>3 DEF ProcessAlert, ConnInv, AlertInv, LoopInv, ControlOK, Loops, HandshakeLoops, Restored
  <2>4. /\ p \in AlertContexts /\ p.flag # "NO"
        /\ p.flag = "SEND" /\ ~Final(p) => conn.state \in {"HANDSHAKING", "TRANSPORTING"}
    BY <2>1, <2>3, AlertIsCounted
  <2>5. Resolved(p, o)
    BY <1>0, <2>2, <2>3, <2>4, AlertProcessed
  <2>6. /\ shutdown \subseteq o.shutdown
        /\ o.shutdown = shutdown \/ o.conn.state \in {"ALERTED", "CLOSED", "ALERTING"}
        /\ o.conn.state = "CLOSED" /\ "SENT" \notin o.shutdown =>
             conn.state \in {"TRANSPORTING", "CLOSED"}
        /\ o.conn.state = "ALERTING" /\ ~Final(p) => o.shutdown = shutdown
    BY <1>0, <2>2, <2>3, <2>4, AlertShuts
  <2>7. conn' = o.conn /\ shutdown' = o.shutdown /\ alertCtx' = o.alert
    BY <2>2 DEF Apply
  <2>8. \/ conn'.state = conn.state
        \/ conn'.state = "ALERTING" /\ conn'.preState = conn.state /\ ~Final(p) /\ SameAlert(p, alertCtx')
        \/ conn'.state = "ALERTING" /\ Final(alertCtx')
        \/ conn'.state \in {"ALERTED", "CLOSED"}
    BY <2>5, <2>7 DEF Resolved, Final
  <2>9. Restored' = Restored \/ Restored' \notin OpenStates
    BY <2>3, <2>8 DEF Restored, OpenStates, SameAlert, Final
  <2>10. Restored' \notin OpenStates \/ UNCHANGED shutdown
    BY <2>3, <2>6, <2>7, <2>8 DEF Restored, OpenStates, Final
  <2> QED
    BY <1>0, <2>3, <2>6, <2>7, <2>9, <2>10 DEF DirectionStep
<1> QED
  BY <1>1, <1>2, <1>3

(* The calls that begin, enter a loop or have nothing to do. *)
LEMMA CallDirections ==
  ASSUME ConnInv,
         \/ \E c \in Calls : Call(c)
         \/ EnterLoop \/ EnterClosed \/ NothingToDo \/ CloseAgain
  PROVE  /\ DirectionStep /\ Restored' = Restored
         /\ UNCHANGED <<conn, shutdown, hsState, path, accepted, config>>
<1>1. /\ UNCHANGED <<conn, shutdown, hsState, path, accepted, config>>
      /\ UNCHANGED alertCtx \/ conn.state # "ALERTING"
  BY DEF Call, EnterLoop, EnterClosed, NothingToDo, CloseAgain, Entering, appVars
<1> QED
  BY <1>1, QuietDirections

(* A connection whose end was announced is not open, whatever alert is still *)
(* to be sent.                                                               *)
SentInv == "SENT" \in shutdown => Restored \notin OpenStates

(* What every step makes of the directions, and of the announcement.         *)
LEMMA NextDirections ==
  ASSUME ConnInv, [Next]_vars
  PROVE  DirectionStep /\ config' = config /\ (SentInv => SentInv')
<1>1. DirectionStep /\ config' = config
  <2>1. CASE Application
    BY <2>1, CallDirections, OpenDirections DEF Application
  <2>2. CASE Dispatch
    BY <2>2, CallDirections, OpenDirections, EndDirections DEF Dispatch
  <2>3. CASE Turn
    BY <2>3, TurnDirections, OpenDirections, EndDirections DEF Turn
  <2>4. CASE UNCHANGED vars
    BY <2>4, QuietDirections DEF vars, progress
  <2> QED
    BY <2>1, <2>2, <2>3, <2>4 DEF Next
<1> QED
  BY <1>1 DEF DirectionStep, SentInv

-----------------------------------------------------------------------------
(* Flights that are buffered.  With a context that is kept for retransmission *)
(* or for a renegotiation the data of the application would go through the   *)
(* buffering UIO.                                                            *)
PlainFlights == config.flightTransmit => ~config.datagram /\ ~config.renegotiable

(* Data is then written only when no context is left. *)
FlightInv ==
  config.flightTransmit =>
    /\ conn.state # "RENEGOTIATION"
    /\ Restored = "TRANSPORTING" => hsState = "NONE"
    /\ conn.state = "CLOSED" /\ "SENT" \notin shutdown => hsState = "NONE"

(* A connection with plain flights stays one that writes its data past them. *)
LEMMA NextFlight ==
  ASSUME ConnInv, PlainFlights, FlightInv, [Next]_vars
  PROVE  FlightInv'
<1> SUFFICES ASSUME config.flightTransmit
             PROVE  /\ conn'.state # "RENEGOTIATION"
                    /\ Restored' = "TRANSPORTING" => hsState' = "NONE"
                    /\ conn'.state = "CLOSED" /\ "SENT" \notin shutdown' => hsState' = "NONE"
  BY NextDirections DEF FlightInv
<1>1. /\ ~config.datagram /\ ~config.renegotiable
      /\ conn.state # "RENEGOTIATION"
      /\ Restored = "TRANSPORTING" => hsState = "NONE"
      /\ conn.state = "CLOSED" /\ "SENT" \notin shutdown => hsState = "NONE"
  BY DEF PlainFlights, FlightInv
<1>2. CASE (\E c \in Calls : Call(c)) \/ EnterLoop \/ EnterClosed \/ NothingToDo \/ CloseAgain
  BY <1>1, <1>2, CallDirections
<1>3. CASE \/ HsSend \/ HsFlushFails \/ HsRecv \/ HsRefuse \/ HsRecvFails \/ HsWriteMeanwhile
           \/ HsUnexpectedApp \/ HsAllowedApp \/ HsNullContext
           \/ ReadData \/ ReadFails \/ ReadHandshakeClosed
           \/ ReadRefusedHandshake \/ TwoMslTimeout
           \/ WriteBadRetry \/ WriteData
  <2>1. UNCHANGED <<conn, shutdown>> /\ Restored' = conn.state /\ Restored = conn.state
    BY <1>3, TurnDirections
  <2>2. loop \in HandshakeLoops \/ hsState' \in {hsState, "NONE"}
    BY <1>3 DEF HsSend, HsFlushFails, HsRecv, HsRefuse, HsRecvFails, HsWriteMeanwhile, HsUnexpectedApp,
         HsAllowedApp, HsNullContext, ReadData, ReadFails, ReadHandshakeClosed,
         ReadRefusedHandshake, TwoMslTimeout, WriteBadRetry, WriteData,
         HsFlushed, InHandshake, HS_DeInit
  <2>3. CASE loop \in HandshakeLoops
    <3>1. conn.state = "HANDSHAKING"
      BY <1>1, <2>3 DEF ConnInv, LoopInv, HandshakeLoops
    <3> QED
      BY <2>1, <3>1
  <2>4. CASE hsState' \in {hsState, "NONE"}
    BY <1>1, <2>1, <2>4
  <2> QED
    BY <2>2, <2>3, <2>4
<1>4. CASE HsDone \/ ConnectIdle \/ ReadRenegotiationRequest \/ ReadRefusedRequest
           \/ ReadPostHandshake \/ HITLS_Renegotiate \/ HITLS_KeyUpdate
  <2>1. conn'.state \in OpenStates /\ Restored' = conn'.state
    BY <1>4, OpenDirections
  <2>2. CASE HsDone
    <3>1. conn'.state = "TRANSPORTING" /\ hsState' = "NONE"
      BY <1>1, <2>2, ChangeState DEF HsDone, ConnInv, ControlOK, States
    <3> QED
      BY <2>1, <3>1
  <2>3. CASE ConnectIdle \/ ReadRefusedRequest \/ ReadPostHandshake \/ HITLS_KeyUpdate
    <3>1. conn' = ChangeConnState(conn, "HANDSHAKING")
      BY <2>3 DEF ConnectIdle, ReadRefusedRequest, ReadPostHandshake, HITLS_KeyUpdate, TakeHandshake
    <3>2. conn'.state = "HANDSHAKING"
      BY <3>1, ChangeState DEF ConnInv, ControlOK, States
    <3> QED
      BY <2>1, <3>2
  <2>4. ~ReadRenegotiationRequest /\ ~HITLS_Renegotiate
    BY <1>1 DEF ReadRenegotiationRequest, HITLS_Renegotiate
  <2> QED
    BY <1>4, <2>2, <2>3, <2>4
<1>5. CASE ProcessAlert \/ UnsentAlert \/ CloseAlerting \/ CloseAtOnce \/ CloseOpen
  <2>1. /\ Restored' = Restored \/ Restored' \notin OpenStates
        /\ conn'.state = "CLOSED" /\ "SENT" \notin shutdown' =>
             conn.state \in {"TRANSPORTING", "CLOSED"}
        /\ hsState' = hsState /\ shutdown \subseteq shutdown'
    BY <1>5, EndDirections DEF DirectionStep
  <2>2. conn'.state = "RENEGOTIATION" => Restored' = "RENEGOTIATION"
    BY DEF Restored
  <2>3. Restored # "RENEGOTIATION"
    BY <1>1 DEF Restored, ConnInv, AlertInv
  <2>4. conn.state = "TRANSPORTING" => Restored = "TRANSPORTING"
    BY DEF Restored
  <2> QED
    BY <1>1, <2>1, <2>2, <2>3, <2>4 DEF OpenStates
<1>6. CASE UNCHANGED vars
  <2>1. UNCHANGED <<conn, shutdown, alertCtx, hsState>>
    BY <1>6 DEF vars, progress
  <2>2. Restored' = Restored
    BY <2>1, QuietDirections
  <2> QED
    BY <1>1, <2>1, <2>2
<1> QED
  BY <1>2, <1>3, <1>4, <1>5, <1>6 DEF Next, Application, Dispatch, Turn

-----------------------------------------------------------------------------
(* The path, step by step.                                                   *)

(* A later path: what the socket took is not lost, and no data was added. *)
Later(p, q, U) ==
  /\ Carries(q, U)
  /\ Closer(p.wire) => Closer(q.wire)
  /\ U = QuietRecords => Numbers(q.wire) = Numbers(p.wire)

(* What follows is later; a path from which the buffering UIO is freed is later. *)
LEMMA FollowsLater ==
  ASSUME NEW p, NEW q, NEW U
  PROVE  /\ Follows(p, q, U) => Later(p, q, U)
         /\ Carries(p, U) => Later(p, p, U) /\ Later(p, UIO_Deinit(p), U)
<1>1. Follows(p, q, U) => Later(p, q, U)
  BY DEF Follows, Later
<1>2. Carries(p, U) => Later(p, p, U) /\ Later(p, UIO_Deinit(p), U)
  BY DeinitCarries DEF Later
<1> QED
  BY <1>1, <1>2

(* A closing alert is on its way: the socket took it, or the buffering UIO   *)
(* holds it.                                                                 *)
Tells(p) == Closer(p.wire) \/ (Closer(p.uio) /\ Buffering(hsCtx))

(* The alerts that end the data.                                             *)
LEMMA AlertCloses ==
  ASSUME NEW l, NEW d
  PROVE  ClosesWrite(Alert(l, d)) <=> l = "FATAL" \/ d = "CLOSE_NOTIFY"
BY DEF ClosesWrite, Alert

(* Sending an alert: a final one that succeeded, the socket has, and one that *)
(* counts as flushed is at least in the buffering UIO.                       *)
LEMMA AlertCarries ==
  ASSUME NEW U \in SUBSET ConnStream, QuietRecords \subseteq U, Carries(path, U),
         NEW a \in AlertContexts, Unblocked(path, a), NEW f \in ALERT_Flush(a)
  PROVE  /\ Follows(path, f.path, U)
         /\ Final(a) /\ (a.isFlush => Tells(path)) =>
              /\ f.ret = "SUCCESS" => Closer(f.path.wire)
              /\ f.alert.isFlush => Tells(f.path)
<1> DEFINE sent == [a EXCEPT !.isFlush = TRUE]
           rec == Alert(a.level, a.description)
           Goal == /\ Follows(path, f.path, U)
                   /\ Final(a) /\ (a.isFlush => Tells(path)) =>
                        /\ f.ret = "SUCCESS" => Closer(f.path.wire)
                        /\ f.alert.isFlush => Tells(f.path)
<1>0. hsCtx \in BOOLEAN /\ a.isFlush \in BOOLEAN
  BY DEF hsCtx, AlertContexts
<1>1. Follows(path, path, U)
  BY FollowsOn
<1>2. ASSUME NEW p, Follows(path, p, U),
             NEW g \in UioFlush(hsCtx, p), f = Flushed(g.path, sent, g.ret)
      PROVE  /\ Follows(path, f.path, U)
             /\ Tells(p) => /\ f.ret = "SUCCESS" => Closer(f.path.wire)
                            /\ Tells(f.path)
  <2>1. f.path = g.path /\ f.ret = g.ret
    BY <1>2 DEF Flushed
  <2>2. Carries(p, U)
    BY <1>2 DEF Follows
  <2>3. /\ Follows(p, g.path, U)
        /\ Buffering(hsCtx) /\ g.ret = "SUCCESS" => ~Closer(g.path.uio)
        /\ ~Buffering(hsCtx) => g.path = p /\ g.ret = "SUCCESS"
    BY <1>0, <1>2, <2>2, FlushCarries
  <2>4. Follows(path, g.path, U)
    BY <1>2, <2>3, FollowsOn
  <2>5. Told(p) => Told(g.path)
    BY <2>3 DEF Follows
  <2> QED
    BY <2>1, <2>3, <2>4, <2>5 DEF Told, Tells
<1>3. CASE a.flag # "SEND" \/ f = Flushed(path, a, "IO_BUSY")
  <2>1. f.path = path /\ f.alert = a /\ f.ret # "SUCCESS"
    BY <1>3 DEF ALERT_Flush, Flushed
  <2> QED
    BY <1>0, <1>1, <2>1
<1>4. CASE a.flag = "SEND" /\ a.isFlush
  <2>1. PICK g \in UioFlush(hsCtx, path) : f = Flushed(g.path, sent, g.ret)
    BY <1>4 DEF ALERT_Flush
  <2> HIDE DEF sent
  <2> QED
    BY <1>1, <1>2, <1>4, <2>1
<1>5. CASE a.flag = "SEND" /\ ~a.isFlush /\ f # Flushed(path, a, "IO_BUSY")
  <2>1. PICK w \in REC_Write(hsCtx, path, rec) :
          f \in IF w.ret = "SUCCESS"
                THEN {Flushed(g.path, sent, g.ret) : g \in UioFlush(hsCtx, w.path)}
                ELSE {Flushed(w.path, a, w.ret)}
    BY <1>5 DEF ALERT_Flush
  <2>2. path.buf \in {NoRecord, rec}
    BY DEF Unblocked
  <2>3. rec \in U
    BY RecordTypes DEF AlertContexts
  <2>4. ClosesWrite(rec) <=> Final(a)
    BY AlertCloses DEF Final
  <2> HIDE DEF rec, sent
  <2>5. /\ Follows(path, w.path, U)
        /\ ClosesWrite(rec) /\ w.ret = "SUCCESS" =>
             Told(w.path) /\ (Closer(w.path.wire) \/ Buffering(hsCtx))
    BY <1>0, <2>1, <2>2, <2>3, WriteCarries DEF Follows
  <2>6. CASE w.ret = "SUCCESS"
    <3>1. PICK g \in UioFlush(hsCtx, w.path) : f = Flushed(g.path, sent, g.ret)
      BY <2>1, <2>6
    <3>2. Final(a) => Tells(w.path)
      BY <2>4, <2>5, <2>6 DEF Told, Tells
    <3> QED
      BY <1>2, <2>5, <3>1, <3>2
  <2>7. CASE w.ret # "SUCCESS"
    <3>1. f.path = w.path /\ f.alert = a /\ f.ret # "SUCCESS"
      BY <2>1, <2>7 DEF Flushed
    <3> QED
      BY <1>5, <2>5, <3>1
  <2> QED
    BY <2>6, <2>7
<1> QED
  BY <1>0, <1>3, <1>4, <1>5

(* An alert of this end, in a connection c that is ALERTING.                 *)
LEMMA SentCarries ==
  ASSUME NEW U \in SUBSET ConnStream, QuietRecords \subseteq U, Carries(path, U),
         NEW c, NEW a \in AlertContexts, Unblocked(path, a),
         NEW o \in CommonEventInAlertingState(c, a)
  PROVE  /\ Follows(path, o.path, U)
         /\ Final(a) /\ (a.isFlush => Tells(path)) =>
              /\ o.ret = "SUCCESS" => Closer(o.path.wire)
              /\ o.alert.isFlush => Tells(o.path)
<1>1. PICK f \in ALERT_Flush(a) :
        /\ o.path = f.path /\ o.ret = f.ret
        /\ Final(a) => o.alert = f.alert
  <2>1. PICK f \in ALERT_Flush(a) :
          \/ \E d, s : o = Outcome(d, s, f, f.ret)
          \/ ~Final(a) /\ f.ret = "SUCCESS"
             /\ o = Outcome(AfterWarning(c), shutdown,
                            [f EXCEPT !.alert = ALERT_CleanInfo(@)], "SUCCESS")
    BY DEF CommonEventInAlertingState, Final
  <2>2. f = Flushed(f.path, f.alert, f.ret)
    BY FlushAlert
  <2>3. PICK g : g = [f EXCEPT !.alert = ALERT_CleanInfo(@)]
    OBVIOUS
  <2>4. g.path = f.path
    BY <2>2, <2>3 DEF Flushed
  <2>5. CASE \E d, s : o = Outcome(d, s, f, f.ret)
    BY <2>5 DEF Outcome
  <2>6. CASE ~Final(a) /\ f.ret = "SUCCESS" /\ o = Outcome(AfterWarning(c), shutdown, g, "SUCCESS")
    BY <2>4, <2>6 DEF Outcome
  <2> QED
    BY <2>1, <2>3, <2>5, <2>6
<1> QED
  BY <1>1, AlertCarries

(* A loop runs in no connection that is about to end, or has ended, by an     *)
(* alert.                                                                    *)
LEMMA LoopIsAlive ==
  ASSUME ConnInv, at \in {"run", "alert"}
  PROVE  conn.state \notin {"ALERTING", "ALERTED"}
<1>1. loop \in Loops /\ loop # "none"
  BY DEF ConnInv, ControlOK, LoopInv
<1> QED
  BY <1>1 DEF ConnInv, LoopInv, Loops, HandshakeLoops

(* A fatal alert of its own has ended the connection.                        *)
Broke(c, a) == c.state = "ALERTED" /\ a.flag = "SEND" /\ a.level = "FATAL"

(* The alert a of a loop.                                                    *)
LEMMA ProcessedCarries ==
  ASSUME NEW U \in SUBSET ConnStream, QuietRecords \subseteq U, Carries(path, U),
         path.buf = NoRecord, conn \in ConnRecords, conn.state \notin {"ALERTING", "ALERTED"},
         shutdown \subseteq {"SENT", "RECEIVED"},
         NEW a \in AlertContexts, a.flag # "NO", a.flag = "SEND" => ~a.isFlush,
         a.flag = "SEND" /\ ~Final(a) => conn.state # "CLOSED",
         NEW o \in AlertEventProcess(a)
  PROVE  /\ Follows(path, o.path, U)
         /\ o.conn.state = "ALERTING" /\ Final(o.alert) /\ o.alert.isFlush => Tells(o.path)
         /\ o.conn.state = "CLOSED" /\ "SENT" \in o.shutdown =>
              \/ Closer(o.path.wire)
              \/ "SENT" \in shutdown /\ o.conn = conn
         /\ Broke(o.conn, o.alert) => Closer(o.path.wire)
<1>0. Follows(path, path, U)
  BY FollowsOn
<1>1. CASE a.flag # "RECV"
  <2>0. a.flag = "SEND" /\ ~a.isFlush
    BY <1>1 DEF AlertContexts
  <2>1. PICK c \in ConnRecords : c = ChangeConnState(conn, "ALERTING")
    BY ChangeState DEF States
  <2>2. c.state = "ALERTING" /\ c.preState = conn.state
    BY <2>1, ChangeState DEF States
  <2>3. o \in CommonEventInAlertingState(c, a)
    BY <1>1, <2>1 DEF AlertEventProcess
  <2>4. /\ Follows(path, o.path, U)
        /\ Final(a) => /\ o.ret = "SUCCESS" => Closer(o.path.wire)
                       /\ o.alert.isFlush => Tells(o.path)
    BY <2>0, <2>3, SentCarries DEF Unblocked
  <2>5. \/ o.ret # "SUCCESS" /\ o.conn = c /\ SameAlert(a, o.alert)
        \/ o.ret = "SUCCESS" /\ Final(a) /\ o.conn.state \in {"CLOSED", "ALERTED"}
        \/ ~Final(a) /\ o.conn.state = conn.state
    BY <2>2, <2>3, SentAlert
  <2>6. CASE o.ret # "SUCCESS" /\ o.conn = c /\ SameAlert(a, o.alert)
    <3>1. Final(o.alert) => Final(a)
      BY <2>6 DEF SameAlert, Final
    <3> QED
      BY <2>2, <2>4, <2>6, <3>1 DEF Broke
  <2>7. CASE o.ret = "SUCCESS" /\ Final(a) /\ o.conn.state \in {"CLOSED", "ALERTED"}
    BY <2>4, <2>7
  <2>8. CASE ~Final(a) /\ o.conn.state = conn.state
    BY <2>0, <2>4, <2>8 DEF Broke
  <2> QED
    BY <2>5, <2>6, <2>7, <2>8
<1>2. CASE a.flag = "RECV"
  <2> DEFINE clean == Flushed(path, ALERT_CleanInfo(a), "SUCCESS")
             received == shutdown \cup {"RECEIVED"}
             alerting == ChangeConnState(conn, "ALERTING")
  <2>0. /\ clean.path = path /\ clean.alert = ALERT_CleanInfo(a)
        /\ Flushed(path, a, "SUCCESS").path = path /\ Flushed(path, a, "SUCCESS").alert = a
        /\ a.flag # "SEND" /\ clean.alert.flag # "SEND"
    BY <1>2, CleanAlert DEF Flushed
  <2>1. /\ ChangeConnState(conn, "ALERTED").state = "ALERTED"
        /\ ChangeConnState(conn, "CLOSED").state = "CLOSED"
        /\ conn.state = "CLOSED" => ChangeConnState(conn, "CLOSED") = conn
        /\ alerting \in ConnRecords /\ alerting.state = "ALERTING"
    BY ChangeState DEF States
  <2>2. \/ o \in AnswerCloseNotify(clean.alert)
        \/ \E d, s, f, r :
             /\ o = Outcome(d, s, f, r) /\ f.path = path /\ f.alert.flag # "SEND"
             /\ \/ d = conn /\ s = shutdown
                \/ d = ChangeConnState(conn, "ALERTED")
                \/ /\ d = ChangeConnState(conn, "CLOSED") /\ s = received
                   /\ "SENT" \notin shutdown \/ conn.state = "CLOSED"
    <3>1. o \in AlertRecvProcess(a)
      BY <1>2 DEF AlertEventProcess
    <3> HIDE DEF received
    <3> QED
      BY <2>0, <3>1 DEF AlertRecvProcess, received
  <2>3. CASE o \in AnswerCloseNotify(clean.alert)
    <3> DEFINE b == ALERT_Send(ALERT_CleanInfo(a), "WARNING", "CLOSE_NOTIFY")
    <3>1. ALERT_CleanInfo(a) \in AlertContexts /\ ALERT_CleanInfo(a).flag = "NO"
      BY CleanAlert
    <3>2. b \in AlertContexts /\ Final(b) /\ ~b.isFlush /\ b.level = "WARNING"
      <4>1. b \in AlertContexts /\ b.description = "CLOSE_NOTIFY" /\ b.level = "WARNING"
        BY <3>1, SendAlert DEF Descriptions
      <4>2. b = [ALERT_CleanInfo(a) EXCEPT !.flag = "SEND", !.level = "WARNING",
                                           !.description = "CLOSE_NOTIFY", !.isFlush = FALSE]
        BY <3>1 DEF ALERT_Send, AlertIsAbnormalInput
      <4>3. ~b.isFlush
        BY <3>1, <4>2 DEF AlertContexts
      <4> QED
        BY <4>1, <4>3 DEF Final
    <3>3. PICK f \in ALERT_Flush(b) :
            /\ o.path = f.path /\ o.alert = f.alert
            /\ o.conn = IF f.ret = "SUCCESS" THEN ChangeConnState(alerting, "ALERTED") ELSE alerting
      BY <2>0, <2>3 DEF AnswerCloseNotify, Outcome
    <3> HIDE DEF b
    <3>4. /\ Follows(path, f.path, U)
          /\ f.alert.isFlush => Tells(f.path)
      BY <3>2, AlertCarries DEF Unblocked
    <3>5. o.conn.state # "CLOSED"
      BY <2>1, <3>3, ChangeState DEF States
    <3>6. o.alert.level = "WARNING"
      BY <3>2, <3>3, FlushAlert DEF SameAlert
    <3> QED
      BY <3>3, <3>4, <3>5, <3>6 DEF Broke
  <2>4. ASSUME NEW d, NEW s, NEW f, NEW r,
               o = Outcome(d, s, f, r), f.path = path, f.alert.flag # "SEND",
               \/ d = conn /\ s = shutdown
               \/ d = ChangeConnState(conn, "ALERTED")
               \/ /\ d = ChangeConnState(conn, "CLOSED") /\ s = received
                  /\ "SENT" \notin shutdown \/ conn.state = "CLOSED"
        PROVE  /\ Follows(path, o.path, U) /\ o.conn.state # "ALERTING"
               /\ o.conn.state = "CLOSED" /\ "SENT" \in o.shutdown =>
                    "SENT" \in shutdown /\ o.conn = conn
               /\ ~Broke(o.conn, o.alert)
    <3>1. o.conn = d /\ o.shutdown = s /\ o.path = path /\ o.alert.flag # "SEND"
      BY <2>4 DEF Outcome
    <3>2. d.state # "ALERTING"
      BY <2>1, <2>4
    <3> QED
      BY <1>0, <2>1, <2>4, <3>1, <3>2 DEF Broke
  <2> HIDE DEF clean, received
  <2> QED
    BY <2>2, <2>3, <2>4
<1> QED
  BY <1>1, <1>2

(* The turns that write nothing: the buffering UIO stays, leaves or is       *)
(* freed.                                                                    *)
LEMMA TurnCarries ==
  ASSUME NEW U \in SUBSET ConnStream, Carries(path, U),
         \/ HsFlushFails \/ HsRecv \/ HsRefuse \/ HsRecvFails \/ HsWriteMeanwhile
         \/ HsUnexpectedApp \/ HsAllowedApp \/ HsDone \/ HsNullContext
         \/ ReadData \/ ReadFails \/ ReadHandshakeClosed \/ ReadRenegotiationRequest
         \/ ReadRefusedRequest \/ ReadPostHandshake \/ ReadRefusedHandshake \/ TwoMslTimeout
         \/ WriteBadRetry
  PROVE  Later(path, path', U)
<1>1. CASE HsFlushFails
  <2>1. PICK f \in UioFlush(hsCtx, path) : path' = f.path
    BY <1>1 DEF HsFlushFails
  <2>2. hsCtx \in BOOLEAN
    BY DEF hsCtx
  <2> QED
    BY <2>1, <2>2, FlushCarries, FollowsLater
<1>2. CASE ~HsFlushFails
  <2>1. path' \in {path, Drained(path, Len(path.uio)), UIO_Deinit(path)}
    BY <1>2 DEF HsRecv, HsRefuse, HsRecvFails, HsWriteMeanwhile, HsUnexpectedApp,
         HsAllowedApp, HsDone, HsNullContext, ReadData, ReadFails, ReadHandshakeClosed,
         ReadRenegotiationRequest, ReadRefusedRequest, ReadPostHandshake, ReadRefusedHandshake,
         TwoMslTimeout, WriteBadRetry, HsFlushed, HS_DeInit, TakeHandshake
  <2>2. PICK n \in Nat : n = Len(path.uio) /\ n <= Len(path.uio)
    BY LenProperties DEF Carries
  <2>3. Follows(path, Drained(path, n), U)
    BY <2>2, DrainCarries
  <2> QED
    BY <2>1, <2>2, <2>3, FollowsLater
<1> QED
  BY <1>1, <1>2

(* The message that is sent, and the data.                                   *)
LEMMA HsSendCarries ==
  ASSUME ConnInv, BufInv, HsSend,
         NEW U \in SUBSET ConnStream, QuietRecords \subseteq U, Carries(path, U)
  PROVE  Later(path, path', U)
<1>1. at = "run" /\ loop \in HandshakeLoops
  BY DEF HsSend, InHandshake
<1>2. path.buf \in {NoRecord, Handshake}
  BY <1>1, BufInLoop DEF HandshakeHeld, WriteHeld, HandshakeLoops
<1>3. PICK w \in REC_Write(hsCtx, path, Handshake) : path' = w.path
  BY DEF HsSend
<1>4. hsCtx \in BOOLEAN /\ Handshake \in U
  BY RecordTypes DEF hsCtx
<1> QED
  BY <1>2, <1>3, <1>4, WriteCarries DEF Later

(* The data adds nothing but the record of the application.                  *)
LEMMA WriteDataCarries ==
  ASSUME ConnInv, BufInv, WriteData,
         NEW U \in SUBSET ConnStream, Carries(path, U), App(writing) \in U
  PROVE  Later(path, path', U)
<1>1. at = "run" /\ loop \in {"transporting", "closed"}
  BY DEF WriteData
<1>2. path.buf \in {NoRecord, App(writing)}
  BY <1>1, BufInLoop DEF HandshakeLoops
<1>3. PICK v \in REC_Write(hsCtx, path, App(writing)) :
        \/ path' = v.path
        \/ \E w \in UioFlush(hsCtx, v.path) : path' = w.path
  BY DEF WriteData, AppWrite
<1>4. hsCtx \in BOOLEAN
  BY DEF hsCtx
<1>5. Later(path, v.path, U)
  BY <1>2, <1>3, <1>4, WriteCarries DEF Later
<1>6. ASSUME NEW w \in UioFlush(hsCtx, v.path), path' = w.path
      PROVE  Later(path, path', U)
  <2>1. Carries(v.path, U)
    BY <1>5 DEF Later
  <2>2. Follows(v.path, w.path, U)
    BY <1>4, <2>1, FlushCarries
  <2> QED
    BY <1>5, <1>6, <2>2 DEF Later, Follows
<1> QED
  BY <1>3, <1>5, <1>6

-----------------------------------------------------------------------------
(* The alerts that are to be sent.                                           *)

(* An alert that is taken over is not in the buffering UIO yet.              *)
LEMMA FreshAlert ==
  ASSUME NEW a \in AlertContexts, NEW l \in {"WARNING", "FATAL"}, NEW d
  PROVE  \/ ALERT_Send(a, l, d) = a /\ a.flag # "NO"
         \/ ~ALERT_Send(a, l, d).isFlush
<1>1. CASE AlertIsAbnormalInput(a, l)
  BY <1>1 DEF ALERT_Send, AlertIsAbnormalInput
<1>2. CASE ~AlertIsAbnormalInput(a, l)
  <2>1. ALERT_Send(a, l, d) =
          [a EXCEPT !.flag = "SEND", !.level = l, !.description = d, !.isFlush = FALSE]
    BY <1>2 DEF ALERT_Send
  <2> QED
    BY <2>1 DEF AlertContexts
<1> QED
  BY <1>1, <1>2

(* The alert a turn leaves behind is not in the buffering UIO yet.           *)
Fresh == at = "alert" /\ alertCtx.flag = "SEND" => ~alertCtx.isFlush

(* A turn that fails with an alert that is not in the buffering UIO.         *)
LEMMA FreshFails ==
  ASSUME ConnInv, at = "run", NEW a, NEW r, Fails(a, r),
         \/ a.flag = "NO" \/ a.flag = "RECV" \/ ~a.isFlush
  PROVE  Fresh'
BY DEF Fails, Return, Fresh

(* Every step keeps the alert of a turn out of the buffering UIO.            *)
LEMMA NextFresh ==
  ASSUME ConnInv, Fresh, [Next]_vars
  PROVE  Fresh'
<1>1. CASE Application \/ Dispatch \/ ProcessAlert
  <2>1. at' # "alert"
    BY <1>1 DEF Application, Dispatch, ProcessAlert, Call, HITLS_Renegotiate, HITLS_KeyUpdate,
         MayCall, UnsentAlert, ConnectIdle, EnterLoop, EnterClosed, NothingToDo,
         CloseAtOnce, CloseOpen, CloseAlerting, CloseAgain, Entering, Return, GoOn
  <2> QED
    BY <2>1 DEF Fresh
<1>2. CASE Turn /\ ~ProcessAlert
  <2>0. at = "run"
    BY <1>2 DEF Turn, HsSend, HsFlushFails, HsRecv, HsRefuse, HsRecvFails, HsWriteMeanwhile,
         HsUnexpectedApp, HsAllowedApp, HsDone, HsNullContext, ReadData, ReadFails,
         ReadHandshakeClosed, ReadRenegotiationRequest, ReadRefusedRequest, ReadPostHandshake,
         ReadRefusedHandshake, TakeHandshake, TwoMslTimeout, WriteBadRetry, WriteData,
         HsFlushed, InHandshake, Reading
  <2>1. /\ alertCtx \in AlertContexts /\ alertCtx.flag = "NO"
        /\ OtherRecord \in AlertContexts /\ OtherRecord.flag = "NO"
    BY <2>0, AlertOfTurn
  <2>2. \A l \in {"WARNING", "FATAL"} : \A d :
          ~ALERT_Send(OtherRecord, l, d).isFlush /\ ~ALERT_Send(alertCtx, l, d).isFlush
    BY <2>1, FreshAlert
  <2>3. \A pa \in PeerAlerts : ProcessDecryptedAlert(alertCtx, pa[1], pa[2]).flag = "RECV"
    BY <2>0, AlertOfTurn
  <2>4. CASE ReceiveNothing \/ ReceiveBadRecord \/ ReceiveAlert
    BY <2>0, <2>1, <2>2, <2>3, <2>4, FreshFails DEF ReceiveNothing, ReceiveBadRecord, ReceiveAlert
  <2>5. CASE at' # "alert"
    BY <2>5 DEF Fresh
  <2>6. CASE alertCtx' = alertCtx \/ alertCtx' = OtherRecord
    BY <2>1, <2>6 DEF Fresh
  <2>7. CASE HsRefuse \/ HsUnexpectedApp \/ ReadHandshakeClosed \/ WriteBadRetry
    BY <2>0, <2>1, <2>2, <2>7, FreshFails
    DEF HsRefuse, HsUnexpectedApp, ReadHandshakeClosed, WriteBadRetry
  <2>8. CASE ReadRefusedHandshake
    <3>1. PICK a \in {ALERT_Send(OtherRecord, "FATAL", "UNEXPECTED_MESSAGE"),
                      ALERT_Send(OtherRecord, "WARNING", "NO_RENEGOTIATION"), OtherRecord} :
            alertCtx' = a
      BY <2>8 DEF ReadRefusedHandshake
    <3> QED
      BY <2>1, <2>2, <3>1 DEF Fresh
  <2>9. CASE HsSend \/ HsFlushFails \/ HsRecv \/ HsAllowedApp \/ HsDone \/ HsNullContext \/ HsWriteMeanwhile
             \/ TwoMslTimeout \/ ReadData \/ ReadRenegotiationRequest \/ ReadRefusedRequest
             \/ ReadPostHandshake \/ WriteData
    <3>1. alertCtx' \in {alertCtx, OtherRecord}
      BY <2>9 DEF HsSend, HsFlushFails, HsRecv, HsAllowedApp, HsDone, HsNullContext,
           HsWriteMeanwhile, TwoMslTimeout, ReadData, ReadRenegotiationRequest,
           ReadRefusedRequest, ReadPostHandshake, TakeHandshake, Delivered, WriteData, Fails
    <3> QED
      BY <2>6, <3>1
  <2>10. CASE HsRecvFails \/ ReadFails
    BY <2>4, <2>10 DEF HsRecvFails, ReadFails
  <2> QED
    BY <1>2, <2>7, <2>8, <2>9, <2>10 DEF Turn
<1>3. CASE UNCHANGED vars
  BY <1>3 DEF vars, progress, Fresh
<1> QED
  BY <1>1, <1>2, <1>3 DEF Next

(* Nor is it after the loop counted it.                                      *)
LEMMA CountedFresh ==
  ASSUME ConnInv, Fresh, at = "alert"
  PROVE  AlertToProcess.flag = "SEND" => ~AlertToProcess.isFlush
<1> DEFINE Good(a) == a.flag = "SEND" => ~a.isFlush
           inner == InnerRenegotiationProcess(alertCtx)
<1>1. alertCtx \in AlertContexts /\ Good(alertCtx)
  BY DEF ConnInv, ControlOK, Fresh
<1>2. inner \in AlertContexts /\ Good(inner)
  <2>1. LET b == ALERT_Send(alertCtx, "FATAL", "HANDSHAKE_FAILURE") IN
        b \in AlertContexts /\ (b = alertCtx \/ ~b.isFlush)
    BY <1>1, SendAlert, FreshAlert DEF Descriptions
  <2> QED
    BY <1>1, <2>1 DEF InnerRenegotiationProcess
<1>3. ASSUME NEW a \in AlertContexts, Good(a) PROVE Good(Counted(a))
  <2> DEFINE b == [a EXCEPT !.warnCount = @ + 1]
  <2>1. b \in AlertContexts /\ b.flag = a.flag /\ b.isFlush = a.isFlush
    BY DEF AlertContexts
  <2> HIDE DEF b
  <2>2. \/ ALERT_Send(b, "FATAL", "UNEXPECTED_MESSAGE") = b
        \/ ~ALERT_Send(b, "FATAL", "UNEXPECTED_MESSAGE").isFlush
    BY <2>1, FreshAlert
  <2>3. Counted(a) \in {b, ALERT_Send(b, "FATAL", "UNEXPECTED_MESSAGE")}
    BY DEF Counted, b
  <2> QED
    BY <1>3, <2>1, <2>2, <2>3
<1> HIDE DEF inner
<1>4. AlertToProcess \in {alertCtx, Counted(inner), Counted(alertCtx)}
  BY DEF AlertToProcess, inner
<1> QED
  BY <1>1, <1>2, <1>3, <1>4

(* The alert that is sent in ALERTING: the one that waits, or a close_notify *)
(* in its place.                                                             *)
LEMMA AlertingSends ==
  ASSUME ConnInv, BufInv, UnsentAlert \/ CloseAlerting
  PROVE  \E a \in AlertContexts :
           /\ Unblocked(path, a)
           /\ a = alertCtx \/ (Final(a) /\ ~a.isFlush)
           /\ \E o \in CommonEventInAlertingState(conn, a) : Apply(o)
<1>1. at = "entry" /\ conn.state = "ALERTING"
  BY DEF UnsentAlert, CloseAlerting, Entering
<1>2. CASE UnsentAlert
  BY <1>1, <1>2, AlertingPath DEF UnsentAlert
<1>3. CASE CloseAlerting
  <2> DEFINE b == ALERT_Send(alertCtx, "WARNING", "CLOSE_NOTIFY")
  <2>1. alertCtx \in AlertContexts /\ alertCtx.flag = "SEND"
    BY <1>1 DEF ConnInv, ControlOK, AlertInv
  <2>2. b \in AlertContexts /\ Final(b) /\ (b = alertCtx \/ ~b.isFlush)
    BY <2>1, SendAlert, FreshAlert DEF Descriptions, Final
  <2>3. Unblocked(path, b)
    <3>1. CASE path.buf = NoRecord
      BY <3>1 DEF Unblocked
    <3>2. CASE AlertHeld
      <4>1. Final(alertCtx)
        BY <1>3, <3>2 DEF CloseAlerting, Entering, AlertHeld
      <4>2. alertCtx.level \in {"WARNING", "FATAL"}
        BY <2>1 DEF AlertContexts, Levels
      <4>3. b = alertCtx
        BY <2>1, <4>1, <4>2 DEF ALERT_Send, AlertIsAbnormalInput, Final
      <4> HIDE DEF b
      <4> QED
        BY <1>1, <4>3, AlertingPath
    <3> QED
      BY <1>1, <3>1, <3>2, AlertingPath
  <2>4. \E o \in CommonEventInAlertingState(conn, b) : Apply(o)
    BY <1>3 DEF CloseAlerting
  <2> HIDE DEF b
  <2> QED
    BY <2>2, <2>3, <2>4
<1> QED
  BY <1>2, <1>3

(* The close_notify of HITLS_Close.                                          *)
LEMMA CloseSends ==
  ASSUME ConnInv, BufInv, CloseOpen, "SENT" \notin shutdown
  PROVE  \E a \in AlertContexts :
           /\ Unblocked(path, a) /\ Final(a) /\ ~a.isFlush /\ a.level = "WARNING"
           /\ \E f \in ALERT_Flush(a) :
                /\ path' = f.path /\ alertCtx' = f.alert
                /\ f.ret # "SUCCESS" => conn'.state \in {"ALERTED", "ALERTING"}
                /\ f.ret = "SUCCESS" => conn'.state = "CLOSED"
<1> DEFINE a == ALERT_Send(alertCtx, "WARNING", "CLOSE_NOTIFY")
<1>1. /\ at = "entry" /\ call = "Close"
      /\ conn.state \in {"HANDSHAKING", "TRANSPORTING", "RENEGOTIATION", "CLOSED"}
  BY DEF CloseOpen, Entering
<1>2. conn \in ConnRecords /\ alertCtx \in AlertContexts /\ alertCtx.flag = "NO"
  BY <1>1 DEF ConnInv, ControlOK, AlertInv, OpenStates
<1>3. path.buf = NoRecord
  BY <1>1 DEF BufInv, WriteHeld, HandshakeHeld, AlertHeld, Over
<1>4. a \in AlertContexts /\ Final(a) /\ ~a.isFlush /\ a.level = "WARNING"
  BY <1>2, SendAlert, FreshAlert DEF Descriptions, Final
<1>5. PICK f \in ALERT_Flush(a) :
        /\ path' = f.path /\ alertCtx' = f.alert
        /\ f.ret # "SUCCESS" => conn' = ChangeConnState(conn, UnsentCloseState(conn.state))
        /\ f.ret = "SUCCESS" => conn' = ChangeConnState(conn, "CLOSED")
  BY DEF CloseOpen
<1> HIDE DEF a
<1>6. /\ f.ret # "SUCCESS" => conn'.state \in {"ALERTED", "ALERTING"}
      /\ f.ret = "SUCCESS" => conn'.state = "CLOSED"
  BY <1>2, <1>5, ChangeState DEF UnsentCloseState, States
<1> QED
  BY <1>3, <1>4, <1>5, <1>6 DEF Unblocked

-----------------------------------------------------------------------------
(* A close that came through has told the peer.                              *)

TellInv ==
  /\ Carries(path, ConnStream)
  /\ Fresh
  /\ conn.state = "ALERTING" /\ Final(alertCtx) /\ alertCtx.isFlush => Tells(path)
  /\ conn.state = "CLOSED" /\ "SENT" \in shutdown /\ conn.preState \notin {"IDLE", "ALERTED"}
     /\ ~config.quietShutdown => Closer(path.wire)
  /\ Broke(conn, alertCtx) => Closer(path.wire)

(* The steps that leave the connection and its flags alone.                  *)
LEMMA QuietTells ==
  ASSUME TellInv, Fresh', Later(path, path', ConnStream), UNCHANGED <<conn, shutdown, config>>,
         conn.state \notin {"ALERTING", "ALERTED"} \/ UNCHANGED <<path, alertCtx, hsState>>
  PROVE  TellInv'
<1>1. Carries(path', ConnStream) /\ (Closer(path.wire) => Closer(path'.wire))
  BY DEF Later
<1>2. conn.state = "ALERTING" => (Final(alertCtx)' <=> Final(alertCtx)) /\ (Tells(path)' <=> Tells(path))
  BY DEF Final, Tells, Buffering, hsCtx
<1> QED
  BY <1>1, <1>2 DEF TellInv, Broke

(* The steps to an open state.                                               *)
LEMMA OpenTells ==
  ASSUME Fresh', Carries(path', ConnStream), conn'.state \in OpenStates
  PROVE  TellInv'
BY DEF TellInv, OpenStates, Broke

(* The alerts that are processed.                                            *)
LEMMA ProcessTells ==
  ASSUME ConnInv, BufInv, TellInv, Fresh', ProcessAlert
  PROVE  TellInv'
<1>1. PICK p : p = AlertToProcess
  OBVIOUS
<1>2. PICK o \in AlertEventProcess(p) : Apply(o)
  BY <1>1 DEF ProcessAlert
<1>3. /\ at = "alert" /\ UNCHANGED <<hsState, config>>
      /\ conn \in ConnRecords /\ shutdown \subseteq {"SENT", "RECEIVED"}
      /\ conn.state \notin {"ALERTING", "ALERTED"}
  BY LoopIsAlive DEF ProcessAlert, ConnInv, ControlOK, DataOK
<1>4. path.buf = NoRecord /\ Carries(path, ConnStream)
  BY <1>3, BufInLoop DEF TellInv
<1>5. /\ p \in AlertContexts /\ p.flag # "NO"
      /\ p.flag = "SEND" /\ ~Final(p) => conn.state \in {"HANDSHAKING", "TRANSPORTING"}
      /\ p.flag = "SEND" => ~p.isFlush
  BY <1>1, <1>3, AlertIsCounted, CountedFresh DEF TellInv
<1>6. QuietRecords \subseteq ConnStream
  BY RecordTypes
<1>7. /\ Follows(path, o.path, ConnStream)
      /\ o.conn.state = "ALERTING" /\ Final(o.alert) /\ o.alert.isFlush => Tells(o.path)
      /\ o.conn.state = "CLOSED" /\ "SENT" \in o.shutdown =>
           \/ Closer(o.path.wire)
           \/ "SENT" \in shutdown /\ o.conn = conn
      /\ Broke(o.conn, o.alert) => Closer(o.path.wire)
  BY <1>2, <1>3, <1>4, <1>5, <1>6, ProcessedCarries
<1>8. conn' = o.conn /\ shutdown' = o.shutdown /\ alertCtx' = o.alert /\ path' = o.path
  BY <1>2 DEF Apply
<1>9. Carries(path', ConnStream) /\ (Closer(path.wire) => Closer(path'.wire))
  BY <1>7, <1>8 DEF Follows
<1>10. conn'.state = "ALERTING" /\ Final(alertCtx') /\ alertCtx'.isFlush => Tells(path)'
  BY <1>3, <1>7, <1>8 DEF Tells, Buffering, hsCtx
<1>11. conn'.state = "CLOSED" /\ "SENT" \in shutdown' /\ conn'.preState \notin {"IDLE", "ALERTED"}
       /\ ~config'.quietShutdown => Closer(path'.wire)
  BY <1>3, <1>7, <1>8, <1>9 DEF TellInv
<1> QED
  BY <1>7, <1>8, <1>9, <1>10, <1>11 DEF TellInv, Final

(* The calls of a connection that is ALERTING.                               *)
LEMMA AlertingTells ==
  ASSUME ConnInv, BufInv, TellInv, Fresh', UnsentAlert \/ CloseAlerting
  PROVE  TellInv'
<1>1. PICK a \in AlertContexts :
        /\ Unblocked(path, a)
        /\ a = alertCtx \/ (Final(a) /\ ~a.isFlush)
        /\ \E o \in CommonEventInAlertingState(conn, a) : Apply(o)
  BY AlertingSends
<1>2. PICK o \in CommonEventInAlertingState(conn, a) : Apply(o)
  BY <1>1
<1>3. /\ conn.state = "ALERTING" /\ at = "entry" /\ UNCHANGED <<hsState, config>>
      /\ conn \in ConnRecords /\ shutdown \subseteq {"SENT", "RECEIVED"}
      /\ ~Final(alertCtx) => conn.preState \in {"HANDSHAKING", "TRANSPORTING"}
  BY DEF UnsentAlert, CloseAlerting, Entering, ConnInv, ControlOK, DataOK, AlertInv
<1>4. Final(a) => (a.isFlush => Tells(path))
  BY <1>1, <1>3 DEF TellInv
<1>5. QuietRecords \subseteq ConnStream /\ Carries(path, ConnStream)
  BY RecordTypes DEF TellInv
<1>6. /\ Follows(path, o.path, ConnStream)
      /\ Final(a) => /\ o.ret = "SUCCESS" => Closer(o.path.wire)
                     /\ o.alert.isFlush => Tells(o.path)
  BY <1>1, <1>2, <1>4, <1>5, SentCarries
<1>7. \/ o.ret # "SUCCESS" /\ o.conn = conn /\ SameAlert(a, o.alert)
      \/ o.ret = "SUCCESS" /\ Final(a) /\ o.conn.state \in {"CLOSED", "ALERTED"}
      \/ ~Final(a) /\ o.conn.state = conn.preState
  BY <1>2, <1>3, SentAlert
<1>8. conn' = o.conn /\ shutdown' = o.shutdown /\ alertCtx' = o.alert /\ path' = o.path
  BY <1>2 DEF Apply
<1>9. Carries(path', ConnStream)
  BY <1>6, <1>8 DEF Follows
<1>10. CASE o.ret # "SUCCESS" /\ o.conn = conn /\ SameAlert(a, o.alert)
  <2>1. Final(alertCtx') => Final(a)
    BY <1>8, <1>10 DEF SameAlert, Final
  <2>2. Final(alertCtx') /\ alertCtx'.isFlush => Tells(path)'
    BY <1>3, <1>6, <1>8, <2>1 DEF Tells, Buffering, hsCtx
  <2> QED
    BY <1>3, <1>8, <1>9, <1>10, <2>2 DEF TellInv, Final, Broke
<1>11. CASE o.ret = "SUCCESS" /\ Final(a) /\ o.conn.state \in {"CLOSED", "ALERTED"}
  BY <1>6, <1>8, <1>9, <1>11 DEF TellInv
<1>12. CASE ~Final(a) /\ o.conn.state = conn.preState
  <2>1. conn'.state \in {"HANDSHAKING", "TRANSPORTING"}
    BY <1>1, <1>3, <1>8, <1>12
  <2> QED
    BY <1>9, <2>1, OpenTells DEF OpenStates
<1> QED
  BY <1>7, <1>10, <1>11, <1>12

(* HITLS_Close, at once or with a close_notify.                              *)
LEMMA CloseTells ==
  ASSUME ConnInv, BufInv, SentInv, TellInv, Fresh', CloseAtOnce \/ CloseOpen
  PROVE  TellInv'
<1>1. conn \in ConnRecords /\ Carries(path, ConnStream) /\ UNCHANGED <<hsState, config>>
  BY DEF ConnInv, ControlOK, TellInv, CloseAtOnce, CloseOpen
<1>2. CASE CloseAtOnce
  <2>1. /\ conn' = ChangeConnState(conn, "CLOSED") /\ path' = path
        /\ config.quietShutdown \/ conn.state \in {"IDLE", "ALERTED"}
    BY <1>2 DEF CloseAtOnce
  <2>2. /\ conn'.state = "CLOSED"
        /\ conn.state \in {"IDLE", "ALERTED"} => conn'.preState \in {"IDLE", "ALERTED"}
    BY <1>1, <2>1, ChangeState DEF States
  <2> QED
    BY <1>1, <2>1, <2>2 DEF TellInv, Broke
<1>3. CASE CloseOpen /\ "SENT" \in shutdown
  <2>1. conn.state \in {"HANDSHAKING", "TRANSPORTING", "RENEGOTIATION", "CLOSED"}
    BY <1>3 DEF CloseOpen, Entering
  <2>2. conn.state = "CLOSED"
    BY <1>3, <2>1 DEF SentInv, Restored, OpenStates
  <2>3. PICK f \in {Flushed(path, alertCtx, "SUCCESS")} :
          path' = f.path /\ (f.ret = "SUCCESS" => conn' = ChangeConnState(conn, "CLOSED"))
    BY <1>3 DEF CloseOpen
  <2>4. path' = path /\ conn' = conn
    BY <1>1, <2>2, <2>3, ChangeState DEF Flushed, States
  <2> QED
    BY <1>1, <1>3, <2>2, <2>4 DEF TellInv, Broke
<1>4. CASE CloseOpen /\ "SENT" \notin shutdown
  <2>1. PICK a \in AlertContexts :
          /\ Unblocked(path, a) /\ Final(a) /\ ~a.isFlush /\ a.level = "WARNING"
          /\ \E f \in ALERT_Flush(a) :
               /\ path' = f.path /\ alertCtx' = f.alert
               /\ f.ret # "SUCCESS" => conn'.state \in {"ALERTED", "ALERTING"}
               /\ f.ret = "SUCCESS" => conn'.state = "CLOSED"
    BY <1>4, CloseSends
  <2>2. PICK f \in ALERT_Flush(a) :
          /\ path' = f.path /\ alertCtx' = f.alert
          /\ f.ret # "SUCCESS" => conn'.state \in {"ALERTED", "ALERTING"}
          /\ f.ret = "SUCCESS" => conn'.state = "CLOSED"
    BY <2>1
  <2>3. QuietRecords \subseteq ConnStream
    BY RecordTypes
  <2>4. /\ Follows(path, f.path, ConnStream)
        /\ f.ret = "SUCCESS" => Closer(f.path.wire)
        /\ f.alert.isFlush => Tells(f.path)
    BY <1>1, <2>1, <2>2, <2>3, AlertCarries
  <2>5. Carries(path', ConnStream)
    BY <2>2, <2>4 DEF Follows
  <2>6. alertCtx'.isFlush => Tells(path)'
    BY <1>1, <2>2, <2>4 DEF Tells, Buffering, hsCtx
  <2>7. alertCtx'.level = "WARNING"
    BY <2>1, <2>2, FlushAlert DEF SameAlert
  <2> QED
    BY <2>2, <2>4, <2>5, <2>6, <2>7 DEF TellInv, Broke
<1> QED
  BY <1>2, <1>3, <1>4

(* Every step keeps what tells the peer.                                     *)
LEMMA NextTells ==
  ASSUME ConnInv, BufInv, SentInv, TellInv, [Next]_vars
  PROVE  TellInv'
<1>1. Fresh'
  BY NextFresh DEF TellInv
<1>2. Carries(path, ConnStream) /\ ConnStream \in SUBSET ConnStream
  BY DEF TellInv
<1>3. /\ Later(path, path, ConnStream) /\ Later(path, UIO_Deinit(path), ConnStream)
      /\ Carries(UIO_Deinit(path), ConnStream)
  BY <1>2, FollowsLater, DeinitCarries
<1>4. CASE (\E c \in Calls : Call(c)) \/ EnterLoop \/ EnterClosed \/ NothingToDo \/ CloseAgain
  <2>1. UNCHANGED <<conn, shutdown, hsState, path, config>>
    BY <1>4, CallDirections
  <2>2. conn.state \notin {"ALERTING", "ALERTED"} \/ UNCHANGED alertCtx
    BY <1>4 DEF Call, EnterLoop, EnterClosed, NothingToDo, CloseAgain, Entering
  <2> QED
    BY <1>1, <1>3, <2>1, <2>2, QuietTells
<1>5. CASE \/ HsSend \/ HsFlushFails \/ HsRecv \/ HsRefuse \/ HsRecvFails \/ HsWriteMeanwhile
           \/ HsUnexpectedApp \/ HsAllowedApp \/ HsNullContext
           \/ ReadData \/ ReadFails \/ ReadHandshakeClosed
           \/ ReadRefusedHandshake \/ TwoMslTimeout
           \/ WriteBadRetry \/ WriteData
  <2>1. at = "run" /\ UNCHANGED <<conn, shutdown, config>>
    BY <1>5, TurnDirections
  <2>2. conn.state \notin {"ALERTING", "ALERTED"}
    BY <2>1, LoopIsAlive
  <2>3. Later(path, path', ConnStream)
    <3>1. CASE HsSend
      BY <1>2, <3>1, HsSendCarries, RecordTypes
    <3>2. CASE WriteData
      <4>1. App(writing) \in ConnStream
        BY RecordTypes DEF ConnInv, DataOK
      <4> QED
        BY <1>2, <3>2, <4>1, WriteDataCarries
    <3>3. CASE ~HsSend /\ ~WriteData
      BY <1>2, <1>5, <3>3, TurnCarries
    <3> QED
      BY <3>1, <3>2, <3>3
  <2> QED
    BY <1>1, <2>1, <2>2, <2>3, QuietTells
<1>6. CASE HsDone \/ ConnectIdle \/ ReadRenegotiationRequest \/ ReadRefusedRequest
           \/ ReadPostHandshake \/ HITLS_Renegotiate \/ HITLS_KeyUpdate
  <2>1. conn'.state \in OpenStates
    BY <1>6, OpenDirections
  <2>2. Carries(path', ConnStream)
    <3>1. CASE HsDone \/ ReadRenegotiationRequest \/ ReadRefusedRequest \/ ReadPostHandshake
      BY <1>2, <3>1, TurnCarries DEF Later
    <3>2. CASE ConnectIdle \/ HITLS_Renegotiate \/ HITLS_KeyUpdate
      <4>1. path' \in {path, UIO_Deinit(path)}
        BY <3>2 DEF ConnectIdle, HITLS_Renegotiate, HITLS_KeyUpdate
      <4> QED
        BY <1>2, <1>3, <4>1
    <3> QED
      BY <1>6, <3>1, <3>2
  <2> QED
    BY <1>1, <2>1, <2>2, OpenTells
<1>7. CASE ProcessAlert \/ UnsentAlert \/ CloseAlerting \/ CloseAtOnce \/ CloseOpen
  BY <1>1, <1>7, ProcessTells, AlertingTells, CloseTells
<1>8. CASE UNCHANGED vars
  <2>1. UNCHANGED <<conn, shutdown, hsState, path, alertCtx, config>>
    BY <1>8 DEF vars, progress
  <2> QED
    BY <1>1, <1>3, <2>1, QuietTells
<1> QED
  BY <1>4, <1>5, <1>6, <1>7, <1>8 DEF Next, Application, Dispatch, Turn

(* A path that carries nothing.                                              *)
LEMMA EmptyCarries == \A U : Carries(EmptyPath, U)
<1> SUFFICES ASSUME NEW U PROVE Carries(EmptyPath, U)
  OBVIOUS
<1>1. PICK e \in Seq(U) : e = <<>>
  BY EmptySeq
<1>2. PICK d \in Seq(ConnStream) : d = <<>>
  BY EmptySeq
<1>3. IsPath(EmptyPath) /\ EmptyPath.uio = e /\ EmptyPath.wire = d
  BY <1>1, <1>2 DEF IsPath, EmptyPath
<1> QED
  BY <1>3 DEF Carries

(* What the socket took or the UIO holds tells the peer.                     *)
LEMMA TellsAnnounced == TellInv => (~LeavesRecordBehind => CloseAnnounced)
<1> SUFFICES ASSUME TellInv, Closer(path.wire) PROVE Announced
  BY DEF TellInv, CloseAnnounced, Broke
<1>1. PICK w \in Seq(ConnStream), u \in Seq(ConnStream) : w = path.wire /\ u = path.uio
  BY DEF TellInv, Carries
<1>2. Closer(w \o u)
  BY <1>1, CloserProperties
<1> QED
  BY <1>1, <1>2 DEF Announced, Closer

(* A close that came through from an open connection has told the peer, and  *)
(* so has the fatal alert of its own that ended a connection.  By            *)
(* induction with what waits to be sent: a close_notify or a fatal alert is  *)
(* in the buffering UIO before it counts as flushed, a buffering UIO is      *)
(* emptied before the call that flushes it succeeds, and a closing flag that *)
(* is set leaves no open state behind.                                       *)
THEOREM CloseIsAnnounced == Spec => []CloseAnnounced
<1> DEFINE Inv == SentInv /\ (~LeavesRecordBehind => TellInv)
<1>1. Init => Inv
  <2> SUFFICES ASSUME Init PROVE Inv
    OBVIOUS
  <2>1. Carries(path, ConnStream)
    BY EmptyCarries DEF Init
  <2>2. at = "rest" /\ conn.state = "IDLE" /\ shutdown = {}
    BY DEF Init
  <2>3. "SENT" \notin shutdown
    BY <2>2
  <2>4. TellInv
    BY <2>1, <2>2 DEF TellInv, Fresh, Broke
  <2> QED
    BY <2>3, <2>4 DEF SentInv
<1>2. ConnInv /\ PathInv /\ Inv /\ [Next]_vars => Inv'
  <2> SUFFICES ASSUME ConnInv, PathInv, Inv, [Next]_vars PROVE Inv'
    OBVIOUS
  <2>1. SentInv' /\ config' = config
    BY NextDirections
  <2>2. ASSUME ~LeavesRecordBehind' PROVE TellInv'
    <3>1. ~LeavesRecordBehind
      BY <2>1, <2>2 DEF LeavesRecordBehind
    <3> QED
      BY <3>1, NextTells DEF PathInv
  <2> QED
    BY <2>1, <2>2
<1>3. Inv => CloseAnnounced
  <2>1. LeavesRecordBehind => CloseAnnounced
    BY DEF CloseAnnounced
  <2> QED
    BY <2>1, TellsAnnounced
<1>4. Init => PathInv
  BY InitPath
<1>5. ConnInv /\ PathInv /\ [Next]_vars => PathInv'
  BY NextPath
<1> HIDE DEF Inv
<1> QED
  BY <1>1, <1>2, <1>3, <1>4, <1>5, ConnAlways, PTL DEF Spec

-----------------------------------------------------------------------------
(* The data of the application.                                              *)

(* Only the write of the application adds data to what the path carries, and *)
(* no step takes any away.                                                   *)
LEMMA NextLater ==
  ASSUME ConnInv, BufInv, Fresh, [Next]_vars, ~WriteData,
         NEW U \in SUBSET ConnStream, QuietRecords \subseteq U, Carries(path, U)
  PROVE  Later(path, path', U)
<1>1. /\ Later(path, path, U) /\ Later(path, UIO_Deinit(path), U)
  BY FollowsLater
<1>2. CASE \/ (\E c \in Calls : Call(c)) \/ EnterLoop \/ EnterClosed \/ NothingToDo \/ CloseAgain
           \/ ConnectIdle \/ CloseAtOnce \/ HITLS_Renegotiate \/ HITLS_KeyUpdate
  <2>1. path' \in {path, UIO_Deinit(path)}
    BY <1>2 DEF Call, EnterLoop, EnterClosed, NothingToDo, CloseAgain, ConnectIdle, CloseAtOnce,
         HITLS_Renegotiate, HITLS_KeyUpdate
  <2> QED
    BY <1>1, <2>1
<1>3. CASE Turn /\ ~ProcessAlert
  BY <1>3, TurnCarries, HsSendCarries DEF Turn
<1>4. CASE ProcessAlert
  <2>1. PICK p : p = AlertToProcess
    OBVIOUS
  <2>2. PICK o \in AlertEventProcess(p) : Apply(o)
    BY <1>4, <2>1 DEF ProcessAlert
  <2>3. /\ at = "alert" /\ conn \in ConnRecords /\ shutdown \subseteq {"SENT", "RECEIVED"}
        /\ conn.state \notin {"ALERTING", "ALERTED"}
    BY <1>4, LoopIsAlive DEF ProcessAlert, ConnInv, ControlOK, DataOK
  <2>4. /\ path.buf = NoRecord /\ p \in AlertContexts /\ p.flag # "NO"
        /\ p.flag = "SEND" /\ ~Final(p) => conn.state \in {"HANDSHAKING", "TRANSPORTING"}
        /\ p.flag = "SEND" => ~p.isFlush
    BY <2>1, <2>3, BufInLoop, AlertIsCounted, CountedFresh
  <2>5. Follows(path, o.path, U)
    BY <2>2, <2>3, <2>4, ProcessedCarries
  <2> QED
    BY <2>2, <2>5, FollowsLater DEF Apply
<1>5. CASE UnsentAlert \/ CloseAlerting
  <2>1. PICK a \in AlertContexts :
          /\ Unblocked(path, a)
          /\ \E o \in CommonEventInAlertingState(conn, a) : Apply(o)
    BY <1>5, AlertingSends
  <2>2. PICK o \in CommonEventInAlertingState(conn, a) : Apply(o)
    BY <2>1
  <2>3. Follows(path, o.path, U)
    BY <2>1, <2>2, SentCarries
  <2> QED
    BY <2>2, <2>3, FollowsLater DEF Apply
<1>6. CASE CloseOpen
  <2>1. CASE "SENT" \in shutdown
    <3>1. PICK f \in {Flushed(path, alertCtx, "SUCCESS")} : path' = f.path
      BY <1>6, <2>1 DEF CloseOpen
    <3> QED
      BY <1>1, <3>1 DEF Flushed
  <2>2. CASE "SENT" \notin shutdown
    <3>1. PICK a \in AlertContexts :
            Unblocked(path, a) /\ \E f \in ALERT_Flush(a) : path' = f.path
      BY <1>6, <2>2, CloseSends
    <3>2. PICK f \in ALERT_Flush(a) : path' = f.path
      BY <3>1
    <3>3. Follows(path, f.path, U)
      BY <3>1, <3>2, AlertCarries
    <3> QED
      BY <3>2, <3>3, FollowsLater
  <2> QED
    BY <2>1, <2>2
<1>7. CASE UNCHANGED vars
  BY <1>1, <1>7 DEF vars, progress
<1> QED
  BY <1>2, <1>3, <1>4, <1>5, <1>6, <1>7 DEF Next, Application, Dispatch

(* Data is written when no context is left that buffers it: it goes to the   *)
(* socket or waits in the output buffer.  The direction is open.             *)
LEMMA DataIsWritten ==
  ASSUME ConnInv, BufInv, FlightInv, SentInv, WriteData, NEW U, Carries(path, U)
  PROVE  /\ Carries(path', U) /\ "SENT" \notin shutdown /\ conn.state # "ALERTED"
         /\ UNCHANGED <<conn, shutdown, writing, config>>
         /\ \/ path'.wire = Append(path.wire, App(writing)) /\ accepted' = accepted \cup {writing}
            \/ path'.wire = path.wire /\ UNCHANGED accepted
<1>1. /\ at = "run" /\ loop \in {"transporting", "closed"} /\ call = "Write"
      /\ UNCHANGED <<conn, shutdown, writing, config>>
  BY DEF WriteData
<1>2. path.buf \in {NoRecord, App(writing)}
  BY <1>1, BufInLoop DEF HandshakeLoops
<1>3. \/ conn.state \in {"TRANSPORTING", "RENEGOTIATION"}
      \/ conn.state = "CLOSED" /\ "SENT" \notin shutdown
  BY <1>1 DEF ConnInv, LoopInv
<1>4. "SENT" \notin shutdown /\ conn.state # "ALERTED"
  BY <1>3 DEF SentInv, Restored, OpenStates
<1>5. ~Buffering(hsCtx) /\ hsCtx \in BOOLEAN
  <2>1. config.flightTransmit => hsState = "NONE"
    BY <1>3 DEF FlightInv, Restored
  <2> QED
    BY <2>1 DEF Buffering, hsCtx
<1>6. PICK w \in AppWrite :
        /\ path' = w.path
        /\ accepted' = IF w.ret = "SUCCESS" THEN accepted \cup {writing} ELSE accepted
  BY DEF WriteData
<1>7. PICK v \in REC_Write(hsCtx, path, App(writing)) :
        w \in IF v.ret = "SUCCESS" THEN UioFlush(hsCtx, v.path) ELSE {v}
  BY DEF AppWrite
<1>8. writing \in Nat
  BY DEF ConnInv, DataOK
<1>9. /\ Carries(v.path, U)
      /\ \/ v.ret = "SUCCESS" /\ v.path.wire = Append(path.wire, App(writing))
         \/ v.ret \in Refusals /\ v.path.wire = path.wire
  BY <1>2, <1>5, <1>7, <1>8, DataToSocket
<1>10. w.path = v.path /\ w.ret = v.ret
  <2>1. CASE v.ret = "SUCCESS"
    <3>1. w = Result(v.path, "SUCCESS")
      BY <1>5, <1>7, <2>1 DEF UioFlush, Buffering
    <3> QED
      BY <2>1, <3>1 DEF Result
  <2>2. CASE v.ret # "SUCCESS"
    BY <1>7, <2>2
  <2> QED
    BY <2>1, <2>2
<1> QED
  BY <1>1, <1>4, <1>6, <1>9, <1>10 DEF Refusals

(* Numbers that grow.                                                        *)
Growing(s) == \A i, j \in 1 .. Len(s) : i < j => s[i] < s[j]
Contents(s) == {s[i] : i \in 1 .. Len(s)}

(* A larger number at the end leaves them growing.                           *)
LEMMA GrowingAppend ==
  ASSUME NEW s \in Seq(Nat), Growing(s), NEW n \in Nat, \A k \in Contents(s) : k < n
  PROVE  /\ Growing(Append(s, n)) /\ Contents(Append(s, n)) = Contents(s) \cup {n}
<1>1. PICK u : /\ u = Append(s, n) /\ Len(u) = Len(s) + 1 /\ u[Len(s) + 1] = n
               /\ \A i \in 1 .. Len(s) : u[i] = s[i]
  <2>1. /\ Len(Append(s, n)) = Len(s) + 1 /\ Append(s, n)[Len(s) + 1] = n
        /\ \A i \in 1 .. Len(s) : Append(s, n)[i] = s[i]
    BY AppendProperties
  <2> QED
    BY <2>1, Zenon
<1>2. Len(s) \in Nat
  BY LenProperties
<1>3. \A i \in 1 .. Len(s) : s[i] < n
  BY DEF Contents
<1>4. ASSUME NEW i \in 1 .. Len(u), NEW j \in 1 .. Len(u), i < j PROVE u[i] < u[j]
  <2>1. i \in 1 .. Len(s) /\ u[i] = s[i]
    BY <1>1, <1>2, <1>4
  <2>2. CASE j = Len(s) + 1
    BY <1>1, <1>3, <2>1, <2>2
  <2>3. CASE j # Len(s) + 1
    <3>1. j \in 1 .. Len(s) /\ u[j] = s[j]
      BY <1>1, <1>2, <2>3
    <3> QED
      BY <1>4, <2>1, <3>1 DEF Growing
  <2> QED
    BY <2>2, <2>3
<1>5. Contents(u) = Contents(s) \cup {n}
  <2>1. ASSUME NEW i \in 1 .. Len(u) PROVE u[i] \in Contents(s) \cup {n}
    <3>1. CASE i = Len(s) + 1
      BY <1>1, <3>1
    <3>2. CASE i # Len(s) + 1
      <4>1. i \in 1 .. Len(s) /\ u[i] = s[i]
        BY <1>1, <1>2, <3>2
      <4> QED
        BY <4>1 DEF Contents
    <3> QED
      BY <3>1, <3>2
  <2>2. ASSUME NEW i \in 1 .. Len(s) PROVE s[i] \in Contents(u)
    <3>1. i \in 1 .. Len(u) /\ u[i] = s[i]
      BY <1>1, <1>2
    <3> QED
      BY <3>1 DEF Contents
  <2>3. n \in Contents(u)
    <3>1. Len(s) + 1 \in 1 .. Len(u)
      BY <1>1, <1>2
    <3> QED
      BY <1>1, <3>1 DEF Contents
  <2>4. Contents(u) \subseteq Contents(s) \cup {n}
    BY <2>1 DEF Contents
  <2>5. Contents(s) \subseteq Contents(u)
    BY <2>2 DEF Contents
  <2> QED
    BY <2>3, <2>4, <2>5
<1>6. Growing(u)
  BY <1>4 DEF Growing
<1> QED
  BY <1>1, <1>5, <1>6

(* The data that is out: what the application was told of success for, in    *)
(* the order it gave it.                                                     *)
StreamInv ==
  /\ Carries(path, QuietRecords)
  /\ Growing(Numbers(path.wire))
  /\ accepted = Contents(Numbers(path.wire))
  /\ \A k \in accepted : k <= writing

(* Every step keeps the stream, or adds the buffer of the write to its end.  *)
LEMMA NextStream ==
  ASSUME ConnInv, BufInv, Fresh, FlightInv, SentInv, config.patient, StreamInv, [Next]_vars
  PROVE  /\ StreamInv'
         /\ \/ Numbers(path.wire)' = Numbers(path.wire) /\ UNCHANGED accepted
            \/ /\ "SENT" \notin shutdown /\ conn.state # "ALERTED"
               /\ writing \in 1 .. MaxWrites
               /\ \A k \in accepted : k < writing
               /\ Numbers(path.wire)' = Append(Numbers(path.wire), writing)
               /\ accepted' = accepted \cup {writing}
               /\ UNCHANGED <<conn, shutdown>>
<1>1. /\ Carries(path, QuietRecords) /\ path.wire \in Seq(ConnStream)
      /\ accepted \subseteq Nat /\ writing \in Nat /\ MaxWrites \in Nat
  BY ConnAssumption DEF StreamInv, Carries, ConnInv, DataOK
<1>2. QuietRecords \subseteq ConnStream
  BY RecordTypes
<1>3. CASE WriteData
  <2>1. /\ Carries(path', QuietRecords) /\ "SENT" \notin shutdown /\ conn.state # "ALERTED"
        /\ UNCHANGED <<conn, shutdown, writing>>
        /\ \/ path'.wire = Append(path.wire, App(writing)) /\ accepted' = accepted \cup {writing}
           \/ path'.wire = path.wire /\ UNCHANGED accepted
    BY <1>1, <1>3, DataIsWritten
  <2>2. writing \notin accepted /\ writing # 0 /\ writing \in 0 .. MaxWrites
    BY <1>3 DEF WriteData, ConnInv, DataOK
  <2>3. \A k \in accepted : k < writing
    BY <1>1, <2>2 DEF StreamInv
  <2>4. CASE path'.wire = Append(path.wire, App(writing)) /\ accepted' = accepted \cup {writing}
    <3>1. Numbers(path'.wire) = Append(Numbers(path.wire), writing)
      BY <1>1, <2>4, NumbersOfApp
    <3>2. Numbers(path.wire) \in Seq(Nat)
      BY <1>1, NumbersTyped
    <3>3. \A k \in Contents(Numbers(path.wire)) : k < writing
      BY <2>3 DEF StreamInv
    <3>4. /\ Growing(Append(Numbers(path.wire), writing))
          /\ Contents(Append(Numbers(path.wire), writing)) = Contents(Numbers(path.wire)) \cup {writing}
      BY <1>1, <3>2, <3>3, GrowingAppend DEF StreamInv
    <3>5. \A k \in accepted' : k <= writing'
      BY <1>1, <2>1, <2>3, <2>4
    <3>6. StreamInv'
      BY <2>1, <2>4, <3>1, <3>4, <3>5 DEF StreamInv
    <3> QED
      BY <1>1, <2>1, <2>2, <2>3, <2>4, <3>1, <3>6
  <2>5. CASE path'.wire = path.wire /\ UNCHANGED accepted
    BY <2>1, <2>5 DEF StreamInv
  <2> QED
    BY <2>1, <2>4, <2>5
<1>4. CASE ~WriteData
  <2>1. Later(path, path', QuietRecords)
    BY <1>1, <1>2, <1>4, NextLater
  <2>2. UNCHANGED accepted
    BY <1>4 DEF Next, Application, Dispatch, Turn, Call, HITLS_Renegotiate, HITLS_KeyUpdate,
         UnsentAlert, ConnectIdle, EnterLoop, EnterClosed, NothingToDo,
         CloseAtOnce, CloseOpen, CloseAlerting, CloseAgain,
         HsSend, HsFlushFails, HsRecv, HsRefuse, HsRecvFails, HsWriteMeanwhile,
         HsUnexpectedApp, HsAllowedApp, HsDone, HsNullContext,
         ReadData, ReadFails, ReadHandshakeClosed, ReadRenegotiationRequest,
         ReadRefusedRequest, ReadPostHandshake, ReadRefusedHandshake, TakeHandshake, TwoMslTimeout,
         WriteBadRetry, ProcessAlert, vars, progress, appVars
  <2>3. writing' = writing \/ writing' = writing + 1
    <3>1. CASE \E c \in Calls : Call(c)
      BY <1>1, <3>1 DEF Call, Buffers
    <3>2. CASE ~\E c \in Calls : Call(c)
      BY <1>4, <3>2 DEF Next, Application, Dispatch, Turn, HITLS_Renegotiate, HITLS_KeyUpdate,
         UnsentAlert, ConnectIdle, EnterLoop, EnterClosed, NothingToDo,
         CloseAtOnce, CloseOpen, CloseAlerting, CloseAgain,
         HsSend, HsFlushFails, HsRecv, HsRefuse, HsRecvFails, HsWriteMeanwhile,
         HsUnexpectedApp, HsAllowedApp, HsDone, HsNullContext,
         ReadData, ReadFails, ReadHandshakeClosed, ReadRenegotiationRequest,
         ReadRefusedRequest, ReadPostHandshake, ReadRefusedHandshake, TakeHandshake, TwoMslTimeout,
         WriteBadRetry, ProcessAlert, vars, progress, appVars
    <3> QED
      BY <3>1, <3>2
  <2>4. Carries(path', QuietRecords) /\ Numbers(path'.wire) = Numbers(path.wire)
    BY <2>1 DEF Later
  <2>5. \A k \in accepted : k <= writing'
    BY <1>1, <2>3 DEF StreamInv
  <2> QED
    BY <2>2, <2>4, <2>5 DEF StreamInv
<1> QED
  BY <1>3, <1>4

(* What is still buffered carries no data.                                   *)
LEMMA StreamIsOut ==
  ASSUME NEW p, Carries(p, QuietRecords)
  PROVE  Numbers(p.wire \o p.uio) = Numbers(p.wire)
<1>1. p.wire \in Seq(ConnStream) /\ p.uio \in Seq(QuietRecords)
  BY DEF Carries
<1> QED
  BY <1>1, NumbersOfQuiet

(* The inductive invariant of the stream.                                    *)
OutInv ==
  /\ SentInv /\ Fresh
  /\ PlainFlights => FlightInv /\ (config.patient => StreamInv)

(* The inductive invariant holds at first,                                   *)
LEMMA InitOut == Init => OutInv
<1> SUFFICES ASSUME Init PROVE OutInv
  OBVIOUS
<1>1. /\ at = "rest" /\ conn.state = "IDLE" /\ shutdown = {} /\ path = EmptyPath
      /\ accepted = {} /\ hsState = "NONE"
  BY DEF Init
<1>2. "SENT" \notin shutdown
  BY <1>1
<1>3. SentInv /\ Fresh
  BY <1>1, <1>2 DEF SentInv, Fresh
<1>4. FlightInv
  BY <1>1 DEF FlightInv
<1>5. StreamInv
  <2>1. Numbers(path.wire) = <<>>
    BY <1>1, NumbersOfNone DEF EmptyPath
  <2>2. PICK e \in Seq(Nat) : e = <<>> /\ Len(e) = 0
    BY EmptySeq
  <2>3. Growing(e) /\ Contents(e) = {}
    BY <2>2 DEF Growing, Contents
  <2>4. Carries(path, QuietRecords)
    BY <1>1, EmptyCarries
  <2> QED
    BY <1>1, <2>1, <2>2, <2>3, <2>4 DEF StreamInv
<1> QED
  BY <1>3, <1>4, <1>5 DEF OutInv

(* and every step keeps it.                                                  *)
LEMMA NextOut == ConnInv /\ PathInv /\ OutInv /\ [Next]_vars => OutInv'
<1> SUFFICES ASSUME ConnInv, PathInv, OutInv, [Next]_vars PROVE OutInv'
  OBVIOUS
<1>1. SentInv' /\ Fresh' /\ config' = config
  BY NextDirections, NextFresh DEF OutInv
<1>2. ASSUME PlainFlights' PROVE FlightInv' /\ (config'.patient => StreamInv')
  <2>1. PlainFlights
    BY <1>1, <1>2 DEF PlainFlights
  <2>2. FlightInv'
    BY <2>1, NextFlight DEF OutInv
  <2>3. ASSUME config'.patient PROVE StreamInv'
    <3>1. config.patient /\ BufInv
      BY <1>1, <2>3 DEF PathInv, LeavesRecordBehind
    <3> QED
      BY <2>1, <3>1, NextStream DEF OutInv
  <2> QED
    BY <2>2, <2>3
<1> QED
  BY <1>1, <1>2 DEF OutInv

(* The buffers of an application that repeats what was refused leave once    *)
(* and in order, and a write that returned success has left, when no flight  *)
(* is buffered behind a context that outlives its handshake.                 *)
THEOREM StreamInOrder == Spec => [](PlainFlights => AppStream)
<1>1. OutInv => (PlainFlights => AppStream)
  <2> SUFFICES ASSUME OutInv, PlainFlights, config.patient
               PROVE  /\ \A i, j \in 1 .. Len(AppOut) : i < j => AppOut[i] < AppOut[j]
                      /\ accepted \subseteq {AppOut[i] : i \in 1 .. Len(AppOut)}
    BY DEF AppStream
  <2>1. StreamInv /\ AppOut = Numbers(path.wire)
    BY StreamIsOut DEF OutInv, StreamInv, AppOut
  <2> QED
    BY <2>1 DEF StreamInv, Growing, Contents
<1> QED
  BY <1>1, InitOut, NextOut, InitPath, NextPath, ConnAlways, PTL DEF Spec

-----------------------------------------------------------------------------
(* The connection implements ConnLife.                                       *)

(* Every step is one of ConnLife, or changes nothing of it.                  *)
LEMMA LifeStep ==
  ASSUME ConnInv, PathInv, OutInv, PlainFlights, [Next]_vars
  PROVE  [Life!LifeNext]_(Life!lifeVars)
<1> DEFINE out == IF config.patient THEN AppOut ELSE <<>>
           acc == IF config.patient THEN accepted ELSE {}
           outClosed == "SENT" \in shutdown \/ conn.state = "ALERTED"
           inClosed == "RECEIVED" \in shutdown \/ conn.state = "ALERTED"
<1>1. DirectionStep /\ config' = config
  BY NextDirections DEF OutInv
<1>2. (outClosed => outClosed') /\ (inClosed => inClosed')
  BY <1>1 DEF DirectionStep
<1>3. CASE UNCHANGED <<out, acc>>
  <2>1. Life!CloseDirection
    BY <1>2, <1>3 DEF Life!CloseDirection
  <2> QED
    BY <2>1 DEF Life!LifeNext
<1>4. CASE ~UNCHANGED <<out, acc>>
  <2>1. config.patient
    BY <1>1, <1>4
  <2>2. BufInv /\ StreamInv /\ FlightInv /\ Fresh /\ SentInv
    BY <2>1 DEF OutInv, PathInv, LeavesRecordBehind
  <2>3. /\ StreamInv'
        /\ \/ Numbers(path.wire)' = Numbers(path.wire) /\ UNCHANGED accepted
           \/ /\ "SENT" \notin shutdown /\ conn.state # "ALERTED"
              /\ writing \in 1 .. MaxWrites
              /\ \A k \in accepted : k < writing
              /\ Numbers(path.wire)' = Append(Numbers(path.wire), writing)
              /\ accepted' = accepted \cup {writing}
              /\ UNCHANGED <<conn, shutdown>>
    BY <2>1, <2>2, NextStream
  <2>4. AppOut = Numbers(path.wire) /\ AppOut' = Numbers(path.wire)'
    <3>1. Carries(path, QuietRecords) /\ Carries(path', QuietRecords)
      BY <2>2, <2>3 DEF StreamInv
    <3> QED
      BY <3>1, StreamIsOut DEF AppOut
  <2>5. /\ out = AppOut /\ out' = AppOut' /\ acc = accepted /\ acc' = accepted'
    BY <1>1, <2>1
  <2>6. /\ ~outClosed /\ writing \in 1 .. MaxWrites
        /\ \A k \in accepted : k < writing
        /\ out' = Append(out, writing) /\ acc' = acc \cup {writing}
        /\ outClosed' = outClosed /\ inClosed' = inClosed
    BY <1>4, <2>3, <2>4, <2>5
  <2>7. accepted = {out[i] : i \in 1 .. Len(out)}
    BY <2>2, <2>4, <2>5 DEF StreamInv, Contents
  <2>8. Life!Send(writing)
    BY <2>6, <2>7 DEF Life!Send, Life!Out
  <2> QED
    BY <2>6, <2>8 DEF Life!LifeNext
<1> QED
  BY <1>3, <1>4

(* The connection implements the stream of ConnLife: of an application that  *)
(* repeats what was refused the buffers that are out and the successes it    *)
(* was told of, of every other one the closing of its two directions.        *)
THEOREM LifeIsImplemented == Spec /\ PlainFlights => LifeSpec
<1>1. Init /\ PlainFlights => Life!LifeInit
  <2> SUFFICES ASSUME Init PROVE Life!LifeInit
    OBVIOUS
  <2>1. path.wire = <<>> /\ path.uio = <<>> /\ accepted = {} /\ shutdown = {} /\ conn.state = "IDLE"
    BY DEF Init, EmptyPath
  <2>2. PICK d \in Seq(ConnStream), e \in Seq(QuietRecords) : d = <<>> /\ e = <<>>
    <3>1. (\E d \in Seq(ConnStream) : d = <<>>) /\ (\E e \in Seq(QuietRecords) : e = <<>>)
      BY EmptySeq
    <3> QED
      BY <3>1
  <2>3. Numbers(d \o e) = Numbers(d)
    BY NumbersOfQuiet
  <2>4. AppOut = <<>>
    BY <2>1, <2>2, <2>3, NumbersOfNone DEF AppOut
  <2> QED
    BY <2>1, <2>4 DEF Life!LifeInit
<1>2. PlainFlights /\ ConnInv /\ [Next]_vars => PlainFlights'
  <2> SUFFICES ASSUME PlainFlights, ConnInv, [Next]_vars PROVE PlainFlights'
    OBVIOUS
  <2>1. config' = config
    BY NextDirections
  <2> QED
    BY <2>1 DEF PlainFlights
<1>3. ConnInv /\ PathInv /\ OutInv /\ PlainFlights /\ [Next]_vars => [Life!LifeNext]_(Life!lifeVars)
  BY LifeStep
<1> QED
  BY <1>1, <1>2, <1>3, InitOut, NextOut, InitPath, NextPath, ConnAlways, PTL
  DEF Spec, LifeSpec, Life!LifeSpec
=============================================================================
