--------------------------- MODULE BusyTimeProofs ---------------------------
(***************************************************************************)
(* Proofs about BusyTime for any set of cores, any word width and any      *)
(* length of time that fits in it.                                         *)
(***************************************************************************)
EXTENDS BusyTime, WellFoundedInduction, TLAPS

LEMMA WrapType == \A x \in Int : Wrap(x) \in 0 .. Mod - 1
  BY TimeAssumption DEF Wrap

LEMMA WrapSmall == \A x \in 0 .. Mod - 1 : Wrap(x) = x
  BY TimeAssumption DEF Wrap

\* The numbers the meter works with, its reports left out.
NumbersOK ==
    /\ clock \in Time \ {0} /\ lastRead \in Time /\ lastRead <= clock
    /\ rnow \in Time /\ rnow <= clock /\ (rpc = "book" => rnow # 0)
    /\ inFlight \in [Core -> BOOLEAN] /\ ipc \in [Core -> {"none", "book"}]
    /\ \A c \in Core : ipc[c] = "book" => ~inFlight[c]
    /\ start \in [Core -> Time] /\ busyNs \in [Core -> 0 .. Mod - 1]
    /\ inow \in [Core -> Time] /\ spent \in [Core -> Nat]
    /\ rpc \in {"none", "book"} /\ prompt \in BOOLEAN

\* What the books hold as long as every reading is fresh: the closed and the
\* open busy time of a core make up the time it had a job.
Open(c) == IF start[c] = 0 THEN 0 ELSE clock - start[c]
BooksInv ==
    prompt =>
        /\ \A c \in Core : /\ busyNs[c] + Open(c) = spent[c]
                           /\ start[c] <= clock /\ spent[c] <= clock
                           /\ ipc[c] = "book" => inow[c] = clock
        /\ rpc = "book" => rnow = clock
        /\ registered
        /\ status = truth

IInv == NumbersOK /\ NotBusyForever /\ BooksInv

LEMMA InvInit == Init => IInv
<1> SUFFICES ASSUME Init PROVE IInv
  OBVIOUS
<1> USE TimeAssumption DEF Init
<1>1. NumbersOK
  BY DEF NumbersOK, Time
<1>2. NotBusyForever
  BY DEF NotBusyForever
<1>3. BooksInv
  BY DEF BooksInv, Open
<1> QED BY <1>1, <1>2, <1>3 DEF IInv

LEMMA TimeNat == Time \subseteq Nat /\ \A t \in Time : t < Mod
  BY TimeAssumption DEF Time

LEMMA InvStep == IInv /\ [Next]_vars => IInv'
<1> SUFFICES ASSUME IInv, [Next]_vars PROVE IInv'
  OBVIOUS
<1> USE TimeAssumption, TimeNat DEF IInv, NumbersOK, jobVars, readVars
<1>1. CASE Tick
  <2> USE <1>1 DEF Tick
  <2>1. clock' \in Time \ {0}
    BY DEF Time
  <2>2. NumbersOK'
    BY <2>1
  <2>3. NotBusyForever'
    BY DEF NotBusyForever
  <2>4. BooksInv'
    <3> SUFFICES ASSUME prompt, NobodyWaits PROVE BooksInv'
      BY DEF BooksInv
    <3>1. ASSUME NEW c \in Core
          PROVE  /\ busyNs[c] + Open(c)' = spent'[c]
                 /\ start[c] <= clock' /\ spent'[c] <= clock'
                 /\ ipc[c] # "book"
      <4>1. ipc[c] = "none" /\ (inFlight[c] <=> start[c] # 0)
        BY DEF NobodyWaits, NotBusyForever
      <4>2. /\ busyNs[c] + Open(c) = spent[c] /\ start[c] <= clock
            /\ spent[c] <= clock
        BY DEF BooksInv
      <4>3. spent'[c] = IF start[c] # 0 THEN spent[c] + 1 ELSE spent[c]
        BY <4>1
      <4> QED BY <4>1, <4>2, <4>3 DEF Open, Time
    <3> QED BY <3>1 DEF BooksInv, NobodyWaits
  <2> QED BY <2>2, <2>3, <2>4
<1>2. ASSUME NEW c \in Core, Run(c) PROVE IInv'
  <2> USE <1>2 DEF Run
  <2>1. NumbersOK'
    OBVIOUS
  <2>2. NotBusyForever'
    BY DEF NotBusyForever
  <2>3. BooksInv'
    BY DEF BooksInv, Open
  <2> QED BY <2>1, <2>2, <2>3
<1>3. ASSUME NEW c \in Core, End(c) \/ Reset(c) PROVE IInv'
  <2> USE <1>3 DEF End, Reset
  <2>1. NumbersOK'
    OBVIOUS
  <2>2. NotBusyForever'
    BY DEF NotBusyForever
  <2>3. BooksInv'
    BY DEF BooksInv, Open
  <2> QED BY <2>1, <2>2, <2>3
<1>4. ASSUME NEW c \in Core, IdleBook(c) PROVE IInv'
  <2> USE <1>4 DEF IdleBook
  <2>1. Wrap(busyNs[c] + inow[c] - start[c]) \in 0 .. Mod - 1
    <3>1. busyNs[c] \in Int /\ inow[c] \in Int /\ start[c] \in Int
      BY DEF Time
    <3> QED BY <3>1, WrapType
  <2>2. NumbersOK'
    BY <2>1 DEF Time
  <2>3. NotBusyForever'
    BY DEF NotBusyForever
  <2>4. BooksInv'
    <3>1. prompt /\ start[c] # 0 =>
             Wrap(busyNs[c] + inow[c] - start[c]) = spent[c]
      <4> SUFFICES ASSUME prompt, start[c] # 0
                   PROVE Wrap(busyNs[c] + inow[c] - start[c]) = spent[c]
        OBVIOUS
      <4>1. busyNs[c] + inow[c] - start[c] = spent[c]
        BY DEF BooksInv, Open
      <4>2. spent[c] \in 0 .. Mod - 1
        BY DEF BooksInv
      <4> QED BY <4>1, <4>2, WrapSmall
    <3> QED BY <2>1, <3>1 DEF BooksInv, Open
  <2> QED BY <2>2, <2>3, <2>4
<1>5. CASE ReadNow
  BY <1>5 DEF ReadNow, NotBusyForever, BooksInv, Open
<1>6. CASE ReadBook
  <2> USE <1>6 DEF ReadBook
  <2>1. NumbersOK'
    <3>1. 0 \in Time /\ 0 \in 0 .. Mod - 1 /\ 0 \in Nat
      BY DEF Time
    <3>2. /\ start' \in [Core -> Time] /\ busyNs' \in [Core -> 0 .. Mod - 1]
          /\ spent' \in [Core -> Nat] /\ rnow' = 0 /\ 0 <= clock
      BY <3>1
    <3> QED BY <3>1, <3>2
  <2>2. NotBusyForever'
    BY DEF NotBusyForever
  <2>3. prompt => status' = truth'
    <3> SUFFICES ASSUME prompt PROVE status' = truth'
      OBVIOUS
    <3>1. ASSUME NEW c \in Core PROVE BusyOf(c) = spent[c]
      <4>1. spent[c] \in 0 .. Mod - 1
        BY DEF BooksInv
      <4>2. start[c] # 0 => busyNs[c] + rnow - start[c] = spent[c]
        BY DEF BooksInv, Open
      <4>3. start[c] = 0 => busyNs[c] = spent[c]
        BY DEF BooksInv, Open
      <4> QED BY <4>1, <4>2, <4>3, WrapSmall DEF BusyOf
    <3>2. Wrap(rnow - lastRead) = rnow - lastRead
      <4>1. rnow - lastRead \in 0 .. Mod - 1
        BY DEF BooksInv
      <4> QED BY <4>1, WrapSmall
    <3>3. {BusyOf(c) : c \in Core} = {spent[c] : c \in Core}
      BY <3>1
    <3> QED BY <3>2, <3>3
  <2>4. BooksInv'
    BY <2>3 DEF BooksInv, Open
  <2> QED BY <2>1, <2>2, <2>4
<1>7. CASE Unregister \/ Register
  <2>1. NumbersOK'
    <3>1. CASE Unregister
      BY <3>1 DEF Unregister
    <3>2. CASE Register
      <4>1. spent' \in [Core -> Nat] /\ lastRead' \in Time /\ lastRead' <= clock
        BY <3>2 DEF Register
      <4> QED BY <3>2, <4>1 DEF Register
    <3> QED BY <1>7, <3>1, <3>2
  <2>2. NotBusyForever'
    BY <1>7 DEF Unregister, Register, NotBusyForever
  <2>3. ~prompt'
    BY <1>7 DEF Unregister, Register, BooksInv
  <2> QED BY <2>1, <2>2, <2>3 DEF BooksInv
<1>8. CASE UNCHANGED vars
  BY <1>8 DEF vars, NotBusyForever, BooksInv, Open
<1> QED BY <1>1, <1>2, <1>3, <1>4, <1>5, <1>6, <1>7, <1>8 DEF Next

LEMMA InvAlways == Spec => []IInv
  BY InvInit, InvStep, PTL DEF Spec

\* As long as no time has passed between a reading of the clock and its lock,
\* the governor is told the busiest core's time with a job and the length of
\* the window, unsigned arithmetic included (rocket_devfreq.c:105-115).
THEOREM LoadExact == Spec => []ExactLoad
<1>1. IInv => ExactLoad
  BY DEF IInv, BooksInv, ExactLoad
<1> QED BY <1>1, InvAlways, PTL

\* Whatever the delays and rebinds, no core is left "busy for ever" and none
\* with a job goes uncounted (rocket_devfreq.c:113-118).
THEOREM NobodyBusyForever == Spec => []NotBusyForever
<1>1. IInv => NotBusyForever
  BY DEF IInv
<1> QED BY <1>1, InvAlways, PTL

----------------------------------------------------------------------------
(* The load itself.  Its largest busy time is the CHOOSE of Max, which is  *)
(* what it is meant to be only because a bounded set has a maximum.        *)

Less == {p \in Nat \X Nat : p[1] < p[2]}

LEMMA LessWellFounded == IsWellFoundedOn(Less, Nat)
  BY NatLessThanWellFounded DEF OpToRel, Less

LEMMA LessPair == \A x, y \in Nat : <<x, y>> \in Less <=> x < y
  BY DEF Less

\* The distances to the bound have a smallest one.
LEMMA MaxIsThere ==
    ASSUME NEW S, S # {}, NEW n \in Nat, S \subseteq 0 .. n
    PROVE  Max(S) \in S
<1> DEFINE T == {k \in 0 .. n : n - k \in S}
<1>1. T \subseteq Nat
  OBVIOUS
<1>2. ASSUME NEW y \in S PROVE n - y \in T
  <2>1. y \in 0 .. n
    OBVIOUS
  <2>2. n - (n - y) = y /\ n - y \in 0 .. n
    BY <2>1
  <2>3. n - (n - y) \in S
    BY <2>2
  <2> QED BY <2>2, <2>3, Zenon
<1>3. \A k \in T : k \in 0 .. n /\ n - k \in S
  OBVIOUS
<1> HIDE DEF T
<1>4. T # {}
  BY <1>2
<1>5. PICK k \in T : \A y \in T : ~(<<y, k>> \in Less)
  BY <1>1, <1>4, LessWellFounded, WFMin
<1>6. ASSUME NEW y \in T PROVE y >= k
  <2>1. y \in Nat /\ k \in Nat
    BY <1>1
  <2>2. ~(y < k)
    BY <1>5, <2>1, LessPair
  <2> QED BY <2>1, <2>2
<1>7. ASSUME NEW y \in S PROVE n - k >= y
  BY <1>2, <1>3, <1>6
<1>8. n - k \in S
  BY <1>3
<1> QED BY <1>7, <1>8, Zenon DEF Max

LEMMA ReportedType ==
    ASSUME NEW busy \in Nat, NEW window \in Nat
    PROVE  /\ Reported(busy, window) \in [total : Nat, busy : Nat]
           /\ 1 <= Reported(busy, window).total
           /\ Reported(busy, window).busy <= Reported(busy, window).total
  BY DEF Reported

\* What is reported, and the time a core can have been busy for.
LoadInv ==
    /\ {status, truth} \subseteq [total : Nat, busy : Nat]
    /\ registered \in BOOLEAN
    /\ LoadInRange
    /\ \A c \in Core : spent[c] <= clock
    /\ rpc = "book" => registered /\ lastRead <= rnow

LEMMA LoadInit == Init => LoadInv
  BY TimeAssumption DEF Init, LoadInv, LoadInRange

LEMMA LoadStep == IInv /\ LoadInv /\ [Next]_vars => LoadInv'
<1> SUFFICES ASSUME IInv, LoadInv, [Next]_vars PROVE LoadInv'
  OBVIOUS
<1> USE TimeAssumption, TimeNat DEF IInv, NumbersOK, LoadInv, LoadInRange, jobVars, readVars
<1>1. CASE Tick
  BY <1>1 DEF Tick
<1>2. CASE \E c \in Core : Run(c) \/ End(c) \/ Reset(c) \/ IdleBook(c)
  BY <1>2 DEF Run, End, Reset, IdleBook
<1>3. CASE ReadNow \/ Unregister \/ Register
  <2>1. UNCHANGED <<status, truth, clock>> /\ registered' \in BOOLEAN
    BY <1>3 DEF ReadNow, Unregister, Register
  <2>2. \A c \in Core : spent'[c] \in {0, spent[c]}
    BY <1>3 DEF ReadNow, Unregister, Register
  <2>3. rpc' = "book" => registered' /\ lastRead' <= rnow'
    BY <1>3 DEF ReadNow, Unregister, Register
  <2> QED BY <2>1, <2>2, <2>3
<1>4. CASE ReadBook
  <2>1. ASSUME NEW c \in Core PROVE BusyOf(c) \in 0 .. Mod - 1
    <3>1. start[c] \in Int /\ busyNs[c] \in 0 .. Mod - 1 /\ rnow \in Int
      BY DEF Time
    <3>2. busyNs[c] + rnow - start[c] \in Int
      BY <3>1
    <3> QED BY <3>1, <3>2, WrapType DEF BusyOf
  <2>2. Max({BusyOf(c) : c \in Core}) \in Nat
    <3>1. {BusyOf(c) : c \in Core} # {} /\ {BusyOf(c) : c \in Core} \subseteq 0 .. Mod - 1
      BY <2>1, CoreAssumption
    <3>2. Mod - 1 \in Nat
      OBVIOUS
    <3> QED BY <3>1, <3>2, MaxIsThere
  <2>3. Max({spent[c] : c \in Core}) \in Nat
    <3>1. {spent[c] : c \in Core} # {} /\ {spent[c] : c \in Core} \subseteq 0 .. clock
      BY CoreAssumption
    <3>2. clock \in Nat
      OBVIOUS
    <3> QED BY <3>1, <3>2, MaxIsThere
  <2>4. lastRead <= rnow
    BY <1>4 DEF ReadBook
  <2>5. Wrap(rnow - lastRead) \in Nat /\ rnow - lastRead \in Nat
    <3>1. rnow - lastRead \in Nat
      BY <2>4 DEF Time
    <3> QED BY <3>1, WrapType
  <2>6. /\ status' = Reported(Max({BusyOf(c) : c \in Core}), Wrap(rnow - lastRead))
        /\ truth'  = Reported(Max({spent[c] : c \in Core}), rnow - lastRead)
        /\ spent' = [c \in Core |-> 0] /\ clock' = clock /\ registered' = registered
        /\ rpc' = "none"
    BY <1>4 DEF ReadBook
  <2>7. /\ status' \in [total : Nat, busy : Nat]
        /\ 1 <= status'.total /\ status'.busy <= status'.total
    BY <2>2, <2>5, <2>6, ReportedType
  <2>8. truth' \in [total : Nat, busy : Nat]
    BY <2>3, <2>5, <2>6, ReportedType
  <2>9. {status', truth'} \subseteq [total : Nat, busy : Nat]
    BY <2>7, <2>8, Zenon
  <2>10. /\ registered' \in BOOLEAN
         /\ \A c \in Core : spent'[c] <= clock'
         /\ rpc' # "book"
    BY <2>6 DEF Time
  <2>11. LoadInRange'
    BY <2>7
  <2> QED BY <2>9, <2>10, <2>11, Zenon DEF LoadInv
<1>5. CASE UNCHANGED vars
  BY <1>5 DEF vars
<1> QED BY <1>1, <1>2, <1>3, <1>4, <1>5 DEF Next

LEMMA LoadAlways == Spec => [](IInv /\ LoadInv)
<1>1. IInv /\ LoadInv /\ [Next]_vars => IInv' /\ LoadInv'
  BY InvStep, LoadStep
<1> QED BY <1>1, InvInit, LoadInit, PTL DEF Spec

\* The governor never sees a total of zero or a load above 100 %, whatever the
\* delays and rebinds and however the unsigned sums wrap
\* (rocket_devfreq.c:209-213).
THEOREM LoadAlwaysInRange == Spec => []LoadInRange
<1>1. LoadInv => LoadInRange
  BY DEF LoadInv
<1> QED BY <1>1, LoadAlways, PTL

\* Types of the meter: times stay times and sums stay words.
THEOREM MeterTypes == Spec => []TypeOK
<1>1. IInv /\ LoadInv => TypeOK
  BY DEF IInv, NumbersOK, LoadInv, TypeOK
<1> QED BY <1>1, LoadAlways, PTL
=============================================================================
