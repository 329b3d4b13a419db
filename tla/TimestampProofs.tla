-------------------------- MODULE TimestampProofs ---------------------------
(***************************************************************************)
(* Timestamps, for every number of those who take them: the oracle's, and  *)
(* the embedded database's, whose commits and snapshots rest on their order. *)
(*                                                                         *)
(* The oracle hands a timestamp out once, for every number of clients,     *)
(* replicas and commands, and every size of a run.  Behind the proof is a  *)
(* view of the log that no variable holds: the counter after each command, *)
(* e[i], and the client that proposed it, o[i].  Command i is the run      *)
(* e[i-1]+1 .. e[i], the runs are disjoint, and all a client has or may hand *)
(* out lies in the runs it owns, but for the zero it takes for an answer   *)
(* that was lost.                                                          *)
(***************************************************************************)
EXTENDS TimestampOracle, LocalDatabase, TLAPS

\* A leaf that names no prover is tried with these, in this order.
USE SMTT(30), Z3T(30), ZenonT(40)

Index == 1 .. Len(log)

\* e is the counter after each command, and it never goes down.
Counts(e) ==
    /\ e \in [0 .. Len(log) -> Nat]
    /\ e[0] = 0
    /\ \A i \in Index : e[i] = e[i - 1] + log[i]
    /\ \A i, j \in 0 .. Len(log) : i <= j => e[i] <= e[j]

\* Every replica, and every snapshot, has the counter of its place in the log.
InStep(e) ==
    \A r \in Replica :
        /\ rep[r].applied \in 0 .. Len(log) /\ rep[r].ts = e[rep[r].applied]
        /\ saved[r].applied \in 0 .. Len(log) /\ saved[r].ts = e[saved[r].applied]

\* t is in a run that c proposed.
Owns(e, o, c, t) == \E k \in Index : o[k] = c /\ e[k - 1] < t /\ t <= e[k]

Given(e, o) == \A c \in Client : \A t \in given[c] : t = 0 \/ Owns(e, o, c, t)

Kept(e, o) ==
    \A c \in Client : \A u \in Nat \ {0} :
        run[c].start <= u /\ u < run[c].end =>
            Owns(e, o, c, u) /\ \A t \in given[c] : t < u

Spent(c) == run[c].end <= run[c].start

\* A client that waits has nothing left, and what it was handed is older than what comes.
Waiting(e, o) ==
    \A c \in Client :
        /\ c \in Direct => Spent(c)
        /\ call[c].at \in 0 .. Len(log)
        /\ call[c].at # 0 =>
              /\ o[call[c].at] = c
              /\ call[c].single <=> c \in Direct
              /\ Spent(c)
              /\ \A t \in given[c] : t <= e[call[c].at - 1]

Sound(e, o) ==
    /\ o \in [Index -> Client]
    /\ Counts(e) /\ InStep(e) /\ Given(e, o) /\ Kept(e, o) /\ Waiting(e, o)

IInv == TypeOK /\ \E e, o : Sound(e, o)

-----------------------------------------------------------------------------
\* Types: every record the oracle and its clients keep is of its type.
LEMMA NoneType == None \in [at : Nat, on : Replica, single : BOOLEAN]
BY SizeAssumption DEF None

\* Initially nothing has been proposed (TSOStateMachine.__init__ and the clients').
LEMMA InitSound == Init => IInv
<1> SUFFICES ASSUME Init PROVE IInv
  OBVIOUS
<1>1. TypeOK
  BY NoneType DEF Init, TypeOK, Position
<1>2. Sound([i \in {0} |-> 0], [i \in {} |-> 0])
  BY SizeAssumption DEF Init, Sound, Counts, InStep, Given, Kept, Waiting, Spent, Index, None
<1> QED
  BY <1>1, <1>2 DEF IInv

\* The type of what a step leaves.
LEMMA TypeStep == TypeOK /\ [Next]_vars => TypeOK'
<1> SUFFICES ASSUME TypeOK, [Next]_vars PROVE TypeOK'
  OBVIOUS
<1> USE DEF TypeOK, Position
<1>1. ASSUME NEW c \in Client, NEW got \in [start : Nat, end : Nat], Answer(c, got)
      PROVE  /\ call' \in [Client -> [at : Nat, on : Replica, single : BOOLEAN]]
             /\ run' \in [Client -> [start : Nat, end : Nat]]
             /\ given' \in [Client -> SUBSET Nat]
  <2>1. call' \in [Client -> [at : Nat, on : Replica, single : BOOLEAN]]
    BY <1>1, NoneType DEF Answer
  <2>2. CASE call[c].single
    <3>1. run' = run /\ given' = [given EXCEPT ![c] = @ \cup {got.start}]
      BY <1>1, <2>2 DEF Answer
    <3>2. given[c] \cup {got.start} \in SUBSET Nat
      OBVIOUS
    <3>3. given' \in [Client -> SUBSET Nat]
      BY <3>1, <3>2, Zenon
    <3> QED
      BY <2>1, <3>1, <3>3, Zenon
  <2>3. CASE ~call[c].single
    <3>1. /\ given' = given
          /\ run' = [run EXCEPT ![c] = [start |-> got.start, end |-> got.end + 1]]
      BY <1>1, <2>3 DEF Answer
    <3>2. [start |-> got.start, end |-> got.end + 1] \in [start : Nat, end : Nat]
      OBVIOUS
    <3>3. run' \in [Client -> [start : Nat, end : Nat]]
      BY <3>1, <3>2, Zenon
    <3> QED
      BY <2>1, <3>1, <3>3, Zenon
  <2> QED
    BY <2>2, <2>3, Zenon
<1>2. ASSUME NEW c \in Client, NEW r \in Replica, NEW n \in Nat, NEW b \in BOOLEAN,
             Propose(c, r, n, b)
      PROVE  TypeOK'
  <2>1. n \in Nat \ {0} /\ log' = Append(log, n) /\ UNCHANGED <<rep, saved, crashes, run, given>>
    BY <1>2 DEF Propose
  <2>2. log' \in Seq(Nat \ {0})
    BY <2>1
  <2>3. call' \in [Client -> [at : Nat, on : Replica, single : BOOLEAN]]
    BY <1>2 DEF Propose
  <2> QED
    BY <2>1, <2>2, <2>3, Zenon
<1>3. ASSUME NEW c \in Client, GetTimestamp(c) PROVE TypeOK'
  BY <1>3 DEF GetTimestamp, groupVars
<1>4. ASSUME NEW c \in Client, GiveUp(c) PROVE TypeOK'
  <2>1. call' \in [Client -> [at : Nat, on : Replica, single : BOOLEAN]]
    BY <1>4, NoneType, Zenon DEF GiveUp
  <2> QED
    BY <1>4, <2>1, Zenon DEF GiveUp, groupVars
<1>5. ASSUME NEW c \in Client, Overtaken(c) PROVE TypeOK'
  BY <1>5, <1>1, Zenon DEF Overtaken, groupVars
<1>6. ASSUME NEW c \in Client, NEW r \in Replica, FetchBatch(c, r) PROVE TypeOK'
  BY <1>6, <1>2, SizeAssumption, Zenon DEF FetchBatch
<1>7. ASSUME NEW c \in Client, NEW r \in Replica, FetchOne(c, r) PROVE TypeOK'
  BY <1>7, <1>2, Zenon DEF FetchOne
<1>8. ASSUME NEW r \in Replica, Apply(r) PROVE TypeOK'
  <2> DEFINE i == rep[r].applied + 1
             got == Allocated(rep[r].ts, log[i])
  <2>1. i \in 1 .. Len(log) /\ got \in [start : Nat, end : Nat]
    BY <1>8 DEF Apply, Allocated
  <2>2. rep' \in [Replica -> Position] /\ UNCHANGED <<log, saved, crashes>>
    BY <1>8, <2>1 DEF Apply
  <2>3. CASE UNCHANGED clientVars
    BY <2>2, <2>3, Zenon DEF clientVars
  <2>4. CASE \E c \in Client : Answer(c, got)
    BY <2>1, <2>2, <2>4, <1>1, Zenon
  <2> QED
    BY <1>8, <2>3, <2>4, Zenon DEF Apply
<1>9. ASSUME NEW r \in Replica, Snapshot(r) PROVE TypeOK'
  BY <1>9 DEF Snapshot, clientVars
<1>10. ASSUME NEW r \in Replica, Restart(r) PROVE TypeOK'
  BY <1>10, NoneType DEF Restart
<1>11. ASSUME NEW r \in Replica, NEW q \in Replica, Install(r, q) PROVE TypeOK'
  BY <1>11 DEF Install, clientVars
<1>12. CASE UNCHANGED vars
  BY <1>12 DEF vars, groupVars, clientVars
<1> QED
  BY <1>3, <1>4, <1>5, <1>6, <1>7, <1>8, <1>9, <1>10, <1>11, <1>12, Zenon DEF Next

-----------------------------------------------------------------------------
\* A new command is a new run, behind all that was handed out (_fetch_batch,
\* GetTimestamp): the view of the log grows by one place.
LEMMA ProposeSound ==
    ASSUME TypeOK, NEW e, NEW o, Sound(e, o),
           NEW c \in Client, NEW r \in Replica, NEW n \in Nat, Propose(c, r, n, c \in Direct),
           Spent(c)
    PROVE  \E f, p : Sound(f, p)'
<1>a. PICK L \in Nat : L = Len(log)
  BY DEF TypeOK
<1>b. PICK f : f = [i \in 0 .. L + 1 |-> IF i <= L THEN e[i] ELSE e[L] + n]
  BY Zenon
<1>c. PICK p : p = [i \in 1 .. L + 1 |-> IF i <= L THEN o[i] ELSE c]
  BY Zenon
<1>1. /\ n >= 1 /\ log' = Append(log, n) /\ call[c].at = 0
      /\ call' = [call EXCEPT ![c] = [at |-> L + 1, on |-> r, single |-> c \in Direct]]
      /\ UNCHANGED <<rep, saved, run, given>>
  BY <1>a DEF Propose, TypeOK
<1>2. /\ L \in Nat /\ Len(log)' = L + 1 /\ log'[L + 1] = n
      /\ \A i \in 1 .. L : log'[i] = log[i] /\ log[i] \in Nat
  BY <1>1, <1>a DEF TypeOK
<1>3. /\ e \in [0 .. L -> Nat] /\ o \in [1 .. L -> Client] /\ e[0] = 0
      /\ \A i \in 1 .. L : e[i] = e[i - 1] + log[i]
      /\ \A i, j \in 0 .. L : i <= j => e[i] <= e[j]
  BY <1>a DEF Sound, Counts, Index
<1>4. /\ \A i \in 0 .. L : f[i] = e[i]
      /\ \A i \in 1 .. L : p[i] = o[i]
      /\ f[L + 1] = e[L] + n /\ p[L + 1] = c
  BY <1>b, <1>c
<1>5. Counts(f)'
  <2>1. f \in [0 .. L + 1 -> Nat] /\ f[0] = 0
    <3>1. f = [i \in 0 .. L + 1 |-> f[i]]
      BY <1>b
    <3>2. \A i \in 0 .. L + 1 : f[i] \in Nat
      <4>1. \A i \in 0 .. L : f[i] \in Nat
        BY <1>3, <1>4
      <4>2. f[L + 1] \in Nat
        BY <1>3, <1>4, <1>a
      <4> QED
        BY <4>1, <4>2, <1>a
    <3>3. f[0] = 0
      BY <1>2, <1>3, <1>4
    <3> QED
      BY <3>1, <3>2, <3>3
  <2>2. \A i \in 1 .. L + 1 : f[i] = f[i - 1] + log'[i]
    <3> SUFFICES ASSUME NEW i \in 1 .. L + 1 PROVE f[i] = f[i - 1] + log'[i]
      OBVIOUS
    <3>1. CASE i \in 1 .. L
      <4>1. i - 1 \in 0 .. L /\ i \in 0 .. L
        BY <3>1, <1>2
      <4> QED
        BY <3>1, <4>1, <1>2, <1>3, <1>4
    <3>2. CASE i = L + 1
      <4>1. i - 1 = L /\ L \in 0 .. L
        BY <3>2, <1>2
      <4> QED
        BY <3>2, <4>1, <1>2, <1>4
    <3> QED
      BY <3>1, <3>2, <1>2
  <2>3. \A i, j \in 0 .. L + 1 : i <= j => f[i] <= f[j]
    <3> SUFFICES ASSUME NEW i \in 0 .. L + 1, NEW j \in 0 .. L + 1, i <= j PROVE f[i] <= f[j]
      OBVIOUS
    <3>1. CASE j <= L
      BY <3>1, <1>2, <1>3, <1>4
    <3>2. CASE j = L + 1 /\ i <= L
      <4>1. e[i] <= e[L] /\ e[L] \in Nat /\ e[i] \in Nat
        BY <3>2, <1>2, <1>3
      <4> QED
        BY <3>2, <4>1, <1>2, <1>4
    <3>3. CASE j = L + 1 /\ i = L + 1
      BY <3>3, <2>1, <1>2
    <3> QED
      BY <3>1, <3>2, <3>3, <1>2
  <2> QED
    BY <1>2, <2>1, <2>2, <2>3 DEF Counts, Index
<1>6. InStep(f)'
  <2> SUFFICES ASSUME NEW q \in Replica
               PROVE  /\ rep[q].applied \in 0 .. L + 1 /\ rep[q].ts = f[rep[q].applied]
                      /\ saved[q].applied \in 0 .. L + 1 /\ saved[q].ts = f[saved[q].applied]
    BY <1>1, <1>2 DEF InStep
  <2>1. /\ rep[q].applied \in 0 .. L /\ rep[q].ts = e[rep[q].applied]
        /\ saved[q].applied \in 0 .. L /\ saved[q].ts = e[saved[q].applied]
    BY <1>a DEF Sound, InStep
  <2> QED
    BY <2>1, <1>2, <1>4
<1>7. \A d \in Client, t \in Nat : Owns(e, o, d, t) => Owns(f, p, d, t)'
  <2> SUFFICES ASSUME NEW d \in Client, NEW t \in Nat,
                      NEW k \in 1 .. L, o[k] = d, e[k - 1] < t, t <= e[k]
               PROVE  Owns(f, p, d, t)'
    BY <1>a, Zenon DEF Owns, Index
  <2>1. k \in 1 .. L + 1 /\ p[k] = d /\ f[k - 1] < t /\ t <= f[k]
    BY <1>2, <1>4
  <2> QED
    BY <2>1, <1>2 DEF Owns, Index
<1>8. Given(f, p)' /\ Kept(f, p)'
  BY <1>1, <1>7, Zenon DEF Sound, Given, Kept, TypeOK
<1>9. \A t \in given[c] : t <= e[L]
  <2> SUFFICES ASSUME NEW t \in given[c] PROVE t <= e[L]
    OBVIOUS
  <2>1. t \in Nat /\ e[L] \in Nat
    BY <1>2, <1>3 DEF TypeOK
  <2>2. CASE t = 0
    BY <2>1, <2>2
  <2>3. CASE t # 0
    <3>1. PICK k \in 1 .. L : t <= e[k]
      BY <1>a, <2>3 DEF Sound, Given, Owns, Index
    <3>2. e[k] <= e[L] /\ e[k] \in Nat
      BY <1>2, <1>3
    <3> QED
      BY <2>1, <3>1, <3>2
  <2> QED
    BY <2>2, <2>3
<1>10. Waiting(f, p)'
  <2> SUFFICES ASSUME NEW d \in Client
               PROVE  /\ d \in Direct => Spent(d)
                      /\ call'[d].at \in 0 .. L + 1
                      /\ call'[d].at # 0 =>
                            /\ p[call'[d].at] = d
                            /\ call'[d].single <=> d \in Direct
                            /\ Spent(d)
                            /\ \A t \in given[d] : t <= f[call'[d].at - 1]
    BY <1>1, <1>2 DEF Waiting, Spent
  <2>1. CASE d = c
    <3>1. call'[d] = [at |-> L + 1, on |-> r, single |-> c \in Direct]
      BY <1>1, <2>1 DEF TypeOK
    <3>2. f[L + 1 - 1] = e[L]
      BY <1>2, <1>4
    <3>3. call'[d].at = L + 1 /\ p[L + 1] = d
      BY <2>1, <3>1, <1>4
    <3>4. call'[d].single <=> d \in Direct
      <4>1. call'[d].single = (c \in Direct)
        BY <3>1
      <4> QED
        BY <2>1, <4>1, Zenon
    <3> QED
      BY <2>1, <3>2, <3>3, <3>4, <1>2, <1>9
  <2>2. CASE d # c
    <3>1. call'[d] = call[d]
      BY <1>1, <2>2 DEF TypeOK
    <3>2. /\ d \in Direct => Spent(d)
          /\ call[d].at \in 0 .. L
          /\ call[d].at # 0 =>
              /\ o[call[d].at] = d
              /\ call[d].single <=> d \in Direct
              /\ Spent(d)
              /\ \A t \in given[d] : t <= e[call[d].at - 1]
      BY <1>a DEF Sound, Waiting
    <3>3. call[d].at # 0 => call[d].at \in 1 .. L /\ call[d].at - 1 \in 0 .. L
      BY <3>2, <1>2
    <3>4. call[d].at # 0 => p[call[d].at] = d /\ f[call[d].at - 1] = e[call[d].at - 1]
      BY <3>2, <3>3, <1>4
    <3>5. call'[d].at \in 0 .. L + 1
      BY <3>1, <3>2, <1>2
    <3> QED
      BY <3>1, <3>2, <3>4, <3>5, Zenon
  <2> QED
    BY <2>1, <2>2
<1>11. p \in [Index' -> Client]
  BY <1>2, <1>3, <1>c DEF Index
<1>12. Sound(f, p)'
  BY <1>5, <1>6, <1>8, <1>10, <1>11 DEF Sound
<1> QED
  BY <1>12

\* The end of a call that is still open takes nothing from anybody (the calls' timeouts,
\* a restart of the node that was asked).
LEMMA GiveUpSound ==
    ASSUME TypeOK, NEW e, NEW o, Sound(e, o),
           UNCHANGED <<log, run, given>>, InStep(e)',
           \A c \in Client : call'[c] = call[c] \/ call'[c].at = 0
    PROVE  Sound(e, o)'
<1>1. Counts(e)' /\ o \in [Index' -> Client]
  BY DEF Sound, Counts, Index
<1>2. Given(e, o)' /\ Kept(e, o)'
  BY DEF Sound, Given, Kept, Owns, Index
<1>3. Waiting(e, o)'
  <2> SUFFICES ASSUME NEW c \in Client
               PROVE  /\ c \in Direct => Spent(c)
                      /\ call'[c].at \in 0 .. Len(log)
                      /\ call'[c].at # 0 =>
                            /\ o[call'[c].at] = c
                            /\ call'[c].single <=> c \in Direct
                            /\ Spent(c)
                            /\ \A t \in given[c] : t <= e[call'[c].at - 1]
    BY DEF Waiting, Spent
  <2>1. CASE call'[c] = call[c]
    BY <2>1 DEF Sound, Waiting
  <2>2. CASE call'[c].at = 0
    <3>1. 0 \in 0 .. Len(log)
      BY DEF TypeOK
    <3> QED
      BY <2>2, <3>1 DEF Sound, Waiting
  <2> QED
    BY <2>1, <2>2
<1> QED
  BY <1>1, <1>2, <1>3 DEF Sound

\* A number that a client hands out moves from what it may hand out to what it has
\* (get_timestamp).
LEMMA GetTimestampSound ==
    ASSUME TypeOK, NEW e, NEW o, Sound(e, o), NEW c \in Client, GetTimestamp(c)
    PROVE  Sound(e, o)'
<1> DEFINE s == run[c].start
<1>1. /\ call[c].at = 0 /\ s < run[c].end /\ s \in Nat /\ run[c].end \in Nat
      /\ given' = [given EXCEPT ![c] = @ \cup {s}]
      /\ run' = [run EXCEPT ![c].start = s + 1]
      /\ UNCHANGED <<log, rep, saved, call>>
  BY DEF GetTimestamp, TypeOK, groupVars
<1>2. /\ given'[c] = given[c] \cup {s} /\ run'[c].start = s + 1 /\ run'[c].end = run[c].end
      /\ \A d \in Client : d # c => given'[d] = given[d] /\ run'[d] = run[d]
  BY <1>1 DEF TypeOK
<1> HIDE DEF s
<1>3. Counts(e)' /\ InStep(e)' /\ o \in [Index' -> Client]
  BY <1>1 DEF Sound, Counts, InStep, Index
<1>4. \A d, t : Owns(e, o, d, t)' <=> Owns(e, o, d, t)
  BY <1>1 DEF Owns, Index
<1>5. s = 0 \/ Owns(e, o, c, s)
  BY <1>1 DEF Sound, Kept, s
<1>6. Given(e, o)'
  <2> SUFFICES ASSUME NEW d \in Client, NEW t \in given'[d] PROVE t = 0 \/ Owns(e, o, d, t)
    BY <1>4 DEF Given
  <2>1. t \in given[d] \/ (d = c /\ t = s)
    BY <1>2
  <2> QED
    BY <2>1, <1>5 DEF Sound, Given
<1>7. Kept(e, o)'
  <2> SUFFICES ASSUME NEW d \in Client, NEW u \in Nat \ {0},
                      run'[d].start <= u, u < run'[d].end
               PROVE  Owns(e, o, d, u) /\ \A t \in given'[d] : t < u
    BY <1>4 DEF Kept
  <2>1. CASE d # c
    BY <2>1, <1>2 DEF Sound, Kept
  <2>2. CASE d = c
    <3>1. s < u /\ u < run[c].end
      BY <2>2, <1>1, <1>2
    <3>2. Owns(e, o, c, u) /\ \A t \in given[c] : t < u
      BY <3>1, <1>1 DEF Sound, Kept, s
    <3> QED
      BY <2>2, <3>1, <3>2, <1>2
  <2> QED
    BY <2>1, <2>2
<1>8. Waiting(e, o)'
  <2> SUFFICES ASSUME NEW d \in Client
               PROVE  /\ d \in Direct => Spent(d)'
                      /\ call[d].at \in 0 .. Len(log)
                      /\ call[d].at # 0 =>
                            /\ o[call[d].at] = d
                            /\ call[d].single <=> d \in Direct
                            /\ Spent(d)'
                            /\ \A t \in given'[d] : t <= e[call[d].at - 1]
    BY <1>1 DEF Waiting
  <2>1. CASE d # c
    BY <2>1, <1>2 DEF Sound, Waiting, Spent
  <2>2. CASE d = c
    <3>1. c \notin Direct
      BY <1>1 DEF Sound, Waiting, Spent, s
    <3> QED
      BY <2>2, <3>1, <1>1 DEF Sound, Waiting
  <2> QED
    BY <2>1, <2>2
<1> QED
  BY <1>3, <1>6, <1>7, <1>8 DEF Sound

\* The answer to the call of c, command i, is a run that c owns and has had nothing of.
LEMMA AnswerSound ==
    ASSUME TypeOK, NEW e, NEW o, Sound(e, o), NEW c \in Client, NEW i \in Index,
           call[c].at = i, Answer(c, [start |-> e[i - 1] + 1, end |-> e[i]]),
           UNCHANGED log, InStep(e)'
    PROVE  Sound(e, o)'
<1>1. /\ e[i - 1] \in Nat /\ e[i] \in Nat /\ e[i - 1] < e[i]
      /\ i \in Nat /\ i # 0
  <2>1. Len(log) \in Nat /\ i \in 0 .. Len(log) /\ i - 1 \in 0 .. Len(log)
    BY DEF TypeOK, Index
  <2>2. e[i] = e[i - 1] + log[i] /\ log[i] \in Nat \ {0}
    BY <2>1 DEF Sound, Counts, TypeOK, Index
  <2>3. e[i - 1] \in Nat /\ e[i] \in Nat
    BY <2>1 DEF Sound, Counts
  <2> QED
    BY <2>2, <2>3 DEF Index
<1>2. /\ o[i] = c /\ Spent(c) /\ \A t \in given[c] : t <= e[i - 1]
      /\ call[c].single <=> c \in Direct
  BY <1>1 DEF Sound, Waiting
<1>3. \A u \in Nat : e[i - 1] + 1 <= u /\ u <= e[i] =>
          Owns(e, o, c, u) /\ \A t \in given[c] : t < u
  <2> SUFFICES ASSUME NEW u \in Nat, e[i - 1] + 1 <= u, u <= e[i]
               PROVE  Owns(e, o, c, u) /\ \A t \in given[c] : t < u
    OBVIOUS
  <2>1. Owns(e, o, c, u)
    BY <1>1, <1>2 DEF Owns
  <2>2. \A t \in given[c] : t < u
    BY <1>1, <1>2 DEF TypeOK
  <2> QED
    BY <2>1, <2>2
<1>4. Counts(e)' /\ o \in [Index' -> Client]
  BY DEF Sound, Counts, Index
<1>5. \A d, t : Owns(e, o, d, t)' <=> Owns(e, o, d, t)
  BY DEF Owns, Index
<1>6. call' = [call EXCEPT ![c] = None]
  BY DEF Answer
<1>7. call'[c].at = 0 /\ \A d \in Client : d # c => call'[d] = call[d]
  BY <1>6 DEF TypeOK, None
<1>8. \A d \in Client : d # c =>
          /\ d \in Direct => Spent(d)
          /\ call'[d].at \in 0 .. Len(log)
          /\ call'[d].at # 0 =>
                /\ o[call'[d].at] = d
                /\ call'[d].single <=> d \in Direct
                /\ Spent(d)
                /\ \A t \in given[d] : t <= e[call'[d].at - 1]
  BY <1>7 DEF Sound, Waiting
<1>9. 0 \in 0 .. Len(log)
  BY DEF TypeOK
<1>10. CASE call[c].single
  <2>1. run' = run /\ given' = [given EXCEPT ![c] = @ \cup {e[i - 1] + 1}]
    BY <1>10 DEF Answer
  <2>2. /\ given'[c] = given[c] \cup {e[i - 1] + 1}
        /\ \A d \in Client : d # c => given'[d] = given[d]
    BY <2>1 DEF TypeOK
  <2>3. Given(e, o)'
    <3> SUFFICES ASSUME NEW d \in Client, NEW t \in given'[d] PROVE t = 0 \/ Owns(e, o, d, t)
      BY <1>5 DEF Given
    <3>1. t \in given[d] \/ (d = c /\ t = e[i - 1] + 1)
      BY <2>2
    <3>2. CASE d = c /\ t = e[i - 1] + 1
      BY <3>2, <1>1, <1>3
    <3> QED
      BY <3>1, <3>2 DEF Sound, Given
  <2>4. Kept(e, o)'
    <3> SUFFICES ASSUME NEW d \in Client, NEW u \in Nat \ {0},
                        run[d].start <= u, u < run[d].end
                 PROVE  Owns(e, o, d, u) /\ \A t \in given'[d] : t < u
      BY <2>1, <1>5 DEF Kept
    <3>1. d # c
      BY <1>2 DEF Spent, TypeOK
    <3> QED
      BY <3>1, <2>2 DEF Sound, Kept
  <2>5. Waiting(e, o)'
    <3> SUFFICES ASSUME NEW d \in Client
                 PROVE  /\ d \in Direct => Spent(d)
                        /\ call'[d].at \in 0 .. Len(log)
                        /\ call'[d].at # 0 =>
                              /\ o[call'[d].at] = d
                              /\ call'[d].single <=> d \in Direct
                              /\ Spent(d)
                              /\ \A t \in given'[d] : t <= e[call'[d].at - 1]
      BY <2>1 DEF Waiting, Spent
    <3>1. CASE d # c
      BY <3>1, <1>8, <2>2
    <3>2. CASE d = c
      BY <3>2, <1>2, <1>7, <1>9
    <3> QED
      BY <3>1, <3>2
  <2> QED
    BY <1>4, <2>3, <2>4, <2>5 DEF Sound
<1>11. CASE ~call[c].single
  <2>1. given' = given /\ run' = [run EXCEPT ![c] = [start |-> e[i - 1] + 1, end |-> e[i] + 1]]
    BY <1>11 DEF Answer
  <2>2. /\ run'[c].start = e[i - 1] + 1 /\ run'[c].end = e[i] + 1
        /\ \A d \in Client : d # c => run'[d] = run[d]
    BY <2>1 DEF TypeOK
  <2>3. Given(e, o)'
    BY <2>1, <1>5 DEF Sound, Given
  <2>4. Kept(e, o)'
    <3> SUFFICES ASSUME NEW d \in Client, NEW u \in Nat \ {0},
                        run'[d].start <= u, u < run'[d].end
                 PROVE  Owns(e, o, d, u) /\ \A t \in given[d] : t < u
      BY <2>1, <1>5 DEF Kept
    <3>1. CASE d # c
      BY <3>1, <2>2 DEF Sound, Kept
    <3>2. CASE d = c
      <4>1. e[i - 1] + 1 <= u /\ u <= e[i]
        BY <3>2, <2>2, <1>1
      <4> QED
        BY <3>2, <4>1, <1>3
    <3> QED
      BY <3>1, <3>2
  <2>5. Waiting(e, o)'
    <3> SUFFICES ASSUME NEW d \in Client
                 PROVE  /\ d \in Direct => Spent(d)'
                        /\ call'[d].at \in 0 .. Len(log)
                        /\ call'[d].at # 0 =>
                              /\ o[call'[d].at] = d
                              /\ call'[d].single <=> d \in Direct
                              /\ Spent(d)'
                              /\ \A t \in given[d] : t <= e[call'[d].at - 1]
      BY <2>1 DEF Waiting
    <3>1. CASE d # c
      <4>1. Spent(d)' <=> Spent(d)
        BY <3>1, <2>2 DEF Spent
      <4> QED
        BY <3>1, <4>1, <1>8
    <3>2. CASE d = c
      BY <3>2, <1>2, <1>7, <1>9, <1>11
    <3> QED
      BY <3>1, <3>2
  <2> QED
    BY <1>4, <2>3, <2>4, <2>5 DEF Sound
<1> QED
  BY <1>10, <1>11

\* A replica that applies a command has the counter of its place, and answers the caller
\* with the command's run (_apply_allocate).
LEMMA ApplySound ==
    ASSUME TypeOK, NEW e, NEW o, Sound(e, o), NEW r \in Replica, Apply(r)
    PROVE  Sound(e, o)'
<1>1. PICK i \in Nat : i = rep[r].applied + 1
  BY DEF TypeOK, Position
<1>2. i \in Index /\ i \in 0 .. Len(log) /\ i - 1 = rep[r].applied
  <2>1. i <= Len(log)
    BY <1>1 DEF Apply
  <2>2. rep[r].applied \in Nat /\ Len(log) \in Nat
    BY DEF TypeOK, Position
  <2> QED
    BY <1>1, <2>1, <2>2 DEF Index
<1>3. rep[r].ts = e[i - 1] /\ e[i] = e[i - 1] + log[i]
  BY <1>2 DEF Sound, Counts, InStep
<1>4. Allocated(rep[r].ts, log[i]) = [start |-> e[i - 1] + 1, end |-> e[i]]
  BY <1>3 DEF Allocated
<1>5. /\ rep' = [rep EXCEPT ![r] = [applied |-> i, ts |-> e[i]]]
      /\ UNCHANGED <<log, saved>>
      /\ \/ UNCHANGED clientVars
         \/ \E c \in Client : call[c].at = i /\ Answer(c, [start |-> e[i - 1] + 1, end |-> e[i]])
  BY <1>1, <1>4 DEF Apply, Waits
<1>6. InStep(e)'
  BY <1>2, <1>5 DEF Sound, InStep, TypeOK
<1>7. CASE UNCHANGED clientVars
  <2>1. UNCHANGED <<run, given, call>>
    BY <1>7 DEF clientVars
  <2> QED
    BY <2>1, <1>5, <1>6, GiveUpSound
<1>8. CASE \E c \in Client : call[c].at = i /\ Answer(c, [start |-> e[i - 1] + 1, end |-> e[i]])
  BY <1>8, <1>2, <1>5, <1>6, AnswerSound
<1> QED
  BY <1>5, <1>7, <1>8

\* An answer that was lost leaves the caller a zero, and every other number where it was
\* (_propose_command, and the defaults of both clients).
LEMMA OvertakenSound ==
    ASSUME TypeOK, NEW e, NEW o, Sound(e, o), NEW c \in Client, Overtaken(c)
    PROVE  Sound(e, o)'
<1>1. /\ call[c].at # 0 /\ UNCHANGED <<log, rep, saved>>
      /\ Answer(c, [start |-> 0, end |-> 0])
  BY DEF Overtaken, groupVars
<1>2. /\ c \in Direct <=> call[c].single
      /\ Spent(c)
  BY <1>1, Zenon DEF Sound, Waiting
<1>3. Counts(e)' /\ InStep(e)' /\ o \in [Index' -> Client]
  BY <1>1 DEF Sound, Counts, InStep, Index
<1>4. \A d, t : Owns(e, o, d, t)' <=> Owns(e, o, d, t)
  BY <1>1 DEF Owns, Index
<1>5. call'[c].at = 0 /\ \A d \in Client : d # c => call'[d] = call[d]
  BY <1>1 DEF Answer, TypeOK, None
<1>6. \A d \in Client : \A t \in given'[d] : t \in given[d] \/ t = 0
  <2>1. given' = given \/ given' = [given EXCEPT ![c] = given[c] \cup {0}]
    BY <1>1 DEF Answer
  <2>2. \A d \in Client : given'[d] = given[d] \/ given'[d] = given[d] \cup {0}
    BY <2>1 DEF TypeOK
  <2> QED
    BY <2>2, Zenon
<1>7. /\ \A d \in Client : d # c => run'[d] = run[d] /\ given'[d] = given[d]
      /\ c \in Direct => run'[c] = run[c]
      /\ run'[c] = run[c] \/ run'[c] = [start |-> 0, end |-> 1]
  BY <1>1, <1>2 DEF Answer, TypeOK
<1>8. Given(e, o)'
  BY <1>4, <1>6 DEF Sound, Given
<1>9. Kept(e, o)'
  <2> SUFFICES ASSUME NEW d \in Client, NEW u \in Nat \ {0},
                      run'[d].start <= u, u < run'[d].end
               PROVE  Owns(e, o, d, u) /\ \A t \in given'[d] : t < u
    BY <1>4 DEF Kept
  <2>1. d # c
    BY <1>2, <1>7 DEF Spent, TypeOK
  <2> QED
    BY <2>1, <1>7 DEF Sound, Kept
<1>10. Waiting(e, o)'
  <2> SUFFICES ASSUME NEW d \in Client
               PROVE  /\ d \in Direct => Spent(d)'
                      /\ call'[d].at \in 0 .. Len(log)
                      /\ call'[d].at # 0 =>
                            /\ o[call'[d].at] = d
                            /\ call'[d].single <=> d \in Direct
                            /\ Spent(d)'
                            /\ \A t \in given'[d] : t <= e[call'[d].at - 1]
    BY <1>1 DEF Waiting
  <2>1. CASE d # c
    <3>1. Spent(d)' <=> Spent(d)
      BY <2>1, <1>7 DEF Spent
    <3> QED
      BY <2>1, <3>1, <1>5, <1>7 DEF Sound, Waiting
  <2>2. CASE d = c
    <3>1. d \in Direct => Spent(d)'
      BY <2>2, <1>2, <1>7 DEF Spent
    <3>2. call'[d].at = 0 /\ 0 \in 0 .. Len(log)
      BY <2>2, <1>5 DEF TypeOK
    <3> QED
      BY <3>1, <3>2
  <2> QED
    BY <2>1, <2>2
<1> QED
  BY <1>3, <1>8, <1>9, <1>10 DEF Sound

\* The induction step: whatever the group and the clients do next, the view of the log
\* goes on (every action of the oracle).
LEMMA SoundStep == IInv /\ [Next]_vars => IInv'
<1> SUFFICES ASSUME IInv, [Next]_vars PROVE IInv'
  OBVIOUS
<1>0. TypeOK /\ TypeOK'
  BY TypeStep DEF IInv
<1>1. PICK e, o : Sound(e, o)
  BY DEF IInv
<1>2. ASSUME NEW c \in Client, NEW r \in Replica, FetchBatch(c, r) \/ FetchOne(c, r)
      PROVE  IInv'
  <2>1. \E n \in Nat : Propose(c, r, n, c \in Direct)
    <3>1. CASE FetchBatch(c, r)
      <4>1. (c \in Direct) = FALSE
        BY <3>1 DEF FetchBatch
      <4>2. BatchSize \in Nat /\ Propose(c, r, BatchSize, FALSE)
        BY <3>1, SizeAssumption, Zenon DEF FetchBatch
      <4> QED
        BY <4>1, <4>2, Zenon
    <3>2. CASE FetchOne(c, r)
      <4>1. (c \in Direct) = TRUE /\ 1 \in Nat /\ Propose(c, r, 1, TRUE)
        BY <3>2, Zenon DEF FetchOne
      <4> QED
        BY <4>1, Zenon
    <3> QED
      BY <1>2, <3>1, <3>2
  <2>2. Spent(c)
    BY <1>0, <1>1, <1>2, Zenon DEF FetchBatch, FetchOne, Sound, Waiting, Spent, TypeOK
  <2>3. \E f, p : Sound(f, p)'
    BY <1>0, <1>1, <2>1, <2>2, ProposeSound
  <2> QED
    BY <1>0, <2>3 DEF IInv
<1>3. ASSUME NEW c \in Client, GetTimestamp(c) PROVE IInv'
  BY <1>0, <1>1, <1>3, GetTimestampSound DEF IInv
<1>4. ASSUME NEW c \in Client, GiveUp(c) PROVE IInv'
  <2>1. UNCHANGED <<log, run, given, rep, saved>> /\ call' = [call EXCEPT ![c] = None]
    BY <1>4 DEF GiveUp, groupVars
  <2>2. \A d \in Client : call'[d] = call[d] \/ call'[d].at = 0
    BY <1>0, <2>1 DEF TypeOK, None
  <2>3. InStep(e)'
    BY <1>1, <2>1 DEF Sound, InStep
  <2>4. Sound(e, o)'
    BY <1>0, <1>1, <2>1, <2>2, <2>3, GiveUpSound
  <2> QED
    BY <1>0, <2>4 DEF IInv
<1>5. ASSUME NEW r \in Replica, Apply(r) PROVE IInv'
  BY <1>0, <1>1, <1>5, ApplySound DEF IInv
<1>6. ASSUME UNCHANGED <<log, call, run, given>>, InStep(e)' PROVE IInv'
  <2>1. Sound(e, o)'
    BY <1>0, <1>1, <1>6, GiveUpSound
  <2> QED
    BY <1>0, <2>1 DEF IInv
<1>7. ASSUME NEW r \in Replica, Snapshot(r) PROVE IInv'
  <2>1. InStep(e)'
    BY <1>0, <1>1, <1>7, Zenon DEF Snapshot, Sound, InStep, TypeOK
  <2> QED
    BY <1>6, <1>7, <2>1 DEF Snapshot, clientVars
<1>8. ASSUME NEW r \in Replica, NEW q \in Replica, Install(r, q) PROVE IInv'
  <2>1. InStep(e)'
    BY <1>0, <1>1, <1>8 DEF Install, Sound, InStep, TypeOK
  <2> QED
    BY <1>6, <1>8, <2>1 DEF Install, clientVars
<1>9. ASSUME NEW r \in Replica, Restart(r) PROVE IInv'
  <2>1. InStep(e)'
    BY <1>0, <1>1, <1>9 DEF Restart, Sound, InStep, TypeOK
  <2>2. \A d \in Client : call'[d] = call[d] \/ call'[d].at = 0
    BY <1>9 DEF Restart, None
  <2>3. Sound(e, o)'
    BY <1>0, <1>1, <1>9, <2>1, <2>2, GiveUpSound DEF Restart
  <2> QED
    BY <1>0, <2>3 DEF IInv
<1>10. CASE UNCHANGED vars
  <2>1. InStep(e)'
    BY <1>1, <1>10 DEF vars, groupVars, Sound, InStep
  <2> QED
    BY <1>6, <1>10, <2>1 DEF vars, groupVars, clientVars
<1>11. ASSUME NEW c \in Client, Overtaken(c) PROVE IInv'
  BY <1>0, <1>1, <1>11, OvertakenSound DEF IInv
<1> QED
  BY <1>2, <1>3, <1>4, <1>5, <1>7, <1>8, <1>9, <1>10, <1>11 DEF Next

\* Two clients own no number together.
LEMMA OwnedOnce ==
    ASSUME NEW e, NEW o, Sound(e, o), TypeOK, NEW c, NEW d, NEW t \in Nat,
           Owns(e, o, c, t), Owns(e, o, d, t)
    PROVE  c = d
<1>1. PICK k \in Index : o[k] = c /\ e[k - 1] < t /\ t <= e[k]
  BY DEF Owns
<1>2. PICK m \in Index : o[m] = d /\ e[m - 1] < t /\ t <= e[m]
  BY DEF Owns
<1>3. /\ k \in 0 .. Len(log) /\ k - 1 \in 0 .. Len(log)
      /\ m \in 0 .. Len(log) /\ m - 1 \in 0 .. Len(log)
  BY DEF Index, TypeOK
<1>4. \A i, j \in 0 .. Len(log) : e[i] \in Nat /\ (i <= j => e[i] <= e[j])
  BY DEF Sound, Counts
<1>5. CASE k < m
  <2>1. e[k] <= e[m - 1] /\ e[k] \in Nat /\ e[m - 1] \in Nat
    BY <1>3, <1>4, <1>5
  <2> QED
    BY <1>1, <1>2, <2>1
<1>6. CASE m < k
  <2>1. e[m] <= e[k - 1] /\ e[m] \in Nat /\ e[k - 1] \in Nat
    BY <1>3, <1>4, <1>6
  <2> QED
    BY <1>1, <1>2, <2>1
<1>7. CASE k = m
  BY <1>1, <1>2, <1>7
<1> QED
  BY <1>3, <1>5, <1>6, <1>7

\* What the invariant says of the clients: the numbers they have and may hand out.
LEMMA SoundHandedOnce == IInv => HandedOnce
<1> SUFFICES ASSUME IInv PROVE HandedOnce
  OBVIOUS
<1>1. PICK e, o : Sound(e, o)
  BY DEF IInv
<1>2. TypeOK
  BY DEF IInv
<1>3. ASSUME NEW c \in Client, NEW t \in Held(c), t # 0
      PROVE  t \in Nat /\ Owns(e, o, c, t) /\ \A u \in given[c] : u < t
  <2>1. t \in Nat /\ run[c].start <= t /\ t < run[c].end
    BY <1>2, <1>3 DEF Held, TypeOK
  <2> QED
    BY <1>1, <1>3, <2>1 DEF Sound, Kept
<1>4. ASSUME NEW c \in Client, NEW t \in given[c], t # 0
      PROVE  t \in Nat /\ Owns(e, o, c, t)
  BY <1>1, <1>2, <1>4 DEF Sound, Given, TypeOK
<1>5. ASSUME NEW c \in Client, NEW d \in Client
      PROVE  Held(c) \cap given[d] \subseteq {0}
  <2> SUFFICES ASSUME NEW t \in Held(c), t \in given[d], t # 0 PROVE FALSE
    OBVIOUS
  <2>1. c = d
    BY <1>1, <1>2, <1>3, <1>4, OwnedOnce
  <2>2. t < t /\ t \in Nat
    BY <2>1, <1>3
  <2> QED
    BY <2>2
<1>6. ASSUME NEW c \in Client, NEW d \in Client, c # d
      PROVE  given[c] \cap given[d] \subseteq {0} /\ Held(c) \cap Held(d) \subseteq {0}
  <2>1. ASSUME NEW t \in given[c], t \in given[d], t # 0 PROVE FALSE
    BY <1>1, <1>2, <1>4, <1>6, <2>1, OwnedOnce
  <2>2. ASSUME NEW t \in Held(c), t \in Held(d), t # 0 PROVE FALSE
    BY <1>1, <1>2, <1>3, <1>6, <2>2, OwnedOnce
  <2> QED
    BY <2>1, <2>2
<1> QED
  BY <1>5, <1>6 DEF HandedOnce

\* c is handed t, and t is zero or new.
Gives(c, t) ==
    /\ given' = [given EXCEPT ![c] = @ \cup {t}]
    /\ t # 0 => (\A d \in Client : t \notin given[d]) /\ \A u \in given[c] : u < t

\* One step hands out at most one number, and it is zero or a new one (get_timestamp and
\* the answers to GetTimestamp).
LEMMA StepGives ==
    ASSUME IInv, [Next]_vars
    PROVE  given' = given \/ \E c \in Client : \E t \in Nat : Gives(c, t)
<1>1. PICK e, o : Sound(e, o)
  BY DEF IInv
<1>2. TypeOK
  BY DEF IInv
<1>3. ASSUME NEW c \in Client, NEW t \in Nat, Owns(e, o, c, t), \A u \in given[c] : u < t,
             given' = [given EXCEPT ![c] = @ \cup {t}]
      PROVE  Gives(c, t)
  <2>1. ASSUME NEW d \in Client, t \in given[d], t # 0 PROVE FALSE
    <3>1. Owns(e, o, d, t)
      BY <1>1, <2>1 DEF Sound, Given
    <3>2. c = d
      BY <1>1, <1>2, <1>3, <3>1, OwnedOnce
    <3> QED
      BY <1>3, <2>1, <3>2
  <2> QED
    BY <1>3, <2>1 DEF Gives
<1>4. ASSUME NEW c \in Client, GetTimestamp(c) PROVE Gives(c, run[c].start)
  <2>1. /\ run[c].start \in Nat /\ run[c].end \in Nat /\ run[c].start < run[c].end
        /\ given' = [given EXCEPT ![c] = @ \cup {run[c].start}]
    BY <1>2, <1>4 DEF GetTimestamp, TypeOK
  <2>2. CASE run[c].start = 0
    BY <2>1, <2>2 DEF Gives
  <2>3. CASE run[c].start # 0
    <3>1. Owns(e, o, c, run[c].start) /\ \A u \in given[c] : u < run[c].start
      BY <1>1, <2>1, <2>3 DEF Sound, Kept
    <3> QED
      BY <1>3, <2>1, <3>1, ZenonT(40)
  <2> QED
    BY <2>2, <2>3
<1>5. ASSUME NEW r \in Replica, Apply(r)
      PROVE  given' = given \/ \E c \in Client : \E t \in Nat : Gives(c, t)
  <2>1. PICK i \in Nat : i = rep[r].applied + 1
    BY <1>2 DEF TypeOK, Position
  <2>2. i \in Index /\ i - 1 \in 0 .. Len(log) /\ i - 1 = rep[r].applied /\ i # 0
    <3>1. i <= Len(log)
      BY <1>5, <2>1 DEF Apply
    <3>2. rep[r].applied \in Nat /\ Len(log) \in Nat
      BY <1>2 DEF TypeOK, Position
    <3> QED
      BY <2>1, <3>1, <3>2 DEF Index
  <2>3. /\ rep[r].ts = e[i - 1] /\ e[i] = e[i - 1] + log[i] /\ e[i - 1] \in Nat
        /\ log[i] \in Nat \ {0}
    BY <1>1, <1>2, <2>2 DEF Sound, Counts, InStep, Index, TypeOK
  <2>4. Allocated(rep[r].ts, log[i]).start = e[i - 1] + 1
    BY <2>3 DEF Allocated
  <2>5. CASE UNCHANGED clientVars
    BY <2>5 DEF clientVars
  <2>6. ASSUME NEW c \in Client, Waits(c, r, i), Answer(c, Allocated(rep[r].ts, log[i]))
        PROVE  given' = given \/ Gives(c, e[i - 1] + 1)
    <3>1. o[i] = c /\ \A u \in given[c] : u <= e[i - 1]
      BY <1>1, <2>2, <2>6 DEF Waits, Sound, Waiting
    <3>2. Owns(e, o, c, e[i - 1] + 1)
      BY <2>2, <2>3, <3>1 DEF Owns
    <3>3. \A u \in given[c] : u < e[i - 1] + 1
      BY <1>2, <2>3, <3>1 DEF TypeOK
    <3>4. given' = given \/ given' = [given EXCEPT ![c] = @ \cup {e[i - 1] + 1}]
      BY <2>4, <2>6 DEF Answer
    <3>5. e[i - 1] + 1 \in Nat
      BY <2>3
    <3> QED
      BY <1>3, <3>2, <3>3, <3>4, <3>5
  <2>7. e[i - 1] + 1 \in Nat
    BY <2>3
  <2> QED
    BY <1>5, <2>1, <2>5, <2>6, <2>7 DEF Apply
<1>6. ASSUME NEW c \in Client, Overtaken(c) PROVE given' = given \/ Gives(c, 0)
  BY <1>6 DEF Overtaken, Answer, Gives
<1>7. \A c \in Client : GetTimestamp(c) => run[c].start \in Nat
  BY <1>2 DEF TypeOK
<1> QED
  BY <1>4, <1>5, <1>6, <1>7
     DEF Next, vars, clientVars, FetchBatch, FetchOne, Propose, GiveUp, Snapshot, Restart, Install

\* No timestamp is handed to two callers, whatever the group's size, the crashes, the calls
\* given up and the snapshots installed, zeros aside (_apply_allocate, restore,
\* _fetch_batch).
THEOREM OracleHandsOutOnce == Spec => []HandedOnce
<1>1. Spec => []IInv
  BY InitSound, SoundStep, PTL DEF Spec
<1> QED
  BY <1>1, SoundHandedOnce, PTL

\* A client's timestamps increase, whichever replica answers and however far it lags
\* (get_timestamp of both clients), zeros aside.
THEOREM OracleIncreases == Spec => Increasing
<1> DEFINE Up == \A c \in Client : \A t \in given'[c] \ given[c] :
                     t # 0 => \A u \in given[c] : u < t
<1>1. Spec => []IInv
  BY InitSound, SoundStep, PTL DEF Spec
<1>2. IInv /\ [Next]_vars => [Up]_vars
  <2> SUFFICES ASSUME IInv, [Next]_vars PROVE Up
    OBVIOUS
  <2>1. CASE given' = given
    BY <2>1
  <2>2. ASSUME NEW c \in Client, NEW t \in Nat, Gives(c, t) PROVE Up
    <3>1. /\ t # 0 => \A u \in given[c] : u < t
          /\ given'[c] = given[c] \cup {t}
          /\ \A d \in Client : d # c => given'[d] = given[d]
      BY <2>2 DEF Gives, IInv, TypeOK
    <3> QED
      BY <3>1
  <2> QED
    BY <2>1, <2>2, StepGives
<1> QED
  BY <1>1, <1>2, PTL DEF Spec, Increasing

\* The oracle keeps its promise: it implements UniqueTimestamps (TSOClient, RemoteTSOClient
\* and TSOServicer over the group), zeros aside.
THEOREM OracleKeepsPromise == Spec => KeepsPromise
<1>1. Spec => []IInv
  BY InitSound, SoundStep, PTL DEF Spec
<1>2. Init => Promise!Init
  BY DEF Init, Promise!Init
<1> DEFINE real == [c \in Client |-> given[c] \ {0}]
<1>3. IInv /\ [Next]_vars => [Promise!Next]_real
  <2> SUFFICES ASSUME IInv, [Next]_vars, real' # real PROVE Promise!Next
    OBVIOUS
  <2>1. PICK c \in Client, t \in Nat : Gives(c, t)
    BY StepGives
  <2>2. /\ given'[c] = given[c] \cup {t}
        /\ \A d \in Client : d # c => given'[d] = given[d]
    BY <2>1 DEF Gives, IInv, TypeOK
  <2>3. t # 0
    BY <2>2
  <2>4. real' = [real EXCEPT ![c] = @ \cup {t}]
    BY <2>2, <2>3, Zenon
  <2>5. /\ \A d \in Client : t \notin real[d]
        /\ \A u \in real[c] : u < t
        /\ t \in real'[c]
    BY <2>1, <2>2, <2>3 DEF Gives
  <2> QED
    BY <2>4, <2>5, Zenon DEF Promise!Next, Promise!Give
<1> QED
  BY <1>1, <1>2, <1>3, PTL DEF Spec, KeepsPromise, Promise!Spec

-----------------------------------------------------------------------------
(***************************************************************************)
(* The embedded database keeps a transaction's snapshot and a commit's     *)
(* rows, for every number of transactions, keys and values, with the wall  *)
(* clock set back and the process started again.                           *)
(*                                                                         *)
(* Both rest on the order of timestamps: whoever is writing rows holds a   *)
(* commit timestamp of its own, later than every snapshot that was taken   *)
(* while nobody was writing.                                               *)
(***************************************************************************)

ATxn(r) ==
    /\ r = [state |-> r.state, start |-> r.start, commit |-> r.commit,
            writes |-> r.writes, left |-> r.left]
    /\ r.start \in Nat /\ r.commit \in Nat
    /\ DOMAIN r.writes \subseteq Key

\* Every part of a set of timestamps below a bound has a last one.
Peaks(D) ==
    \A x \in Nat : \A S : S = {u \in D : u <= x} /\ S # {} => \E u \in S : \A w \in S : w <= u

Types ==
    /\ now \in Nat /\ last \in Nat
    /\ rows = [k \in Key |-> rows[k]] 
    /\ \A k \in Key : DOMAIN rows[k] \subseteq Nat /\ Peaks(DOMAIN rows[k])
    /\ txn = [t \in Session |-> txn[t]] /\ \A t \in Session : ATxn(txn[t])
    /\ seen = [t \in Session |-> seen[t]]

Writing(r) == r.state \in {"committing", "committed"}

\* A commit has the rows it has written.
Stamped(r) ==
    Writing(r) =>
        /\ r.commit <= last /\ r.left \subseteq DOMAIN r.writes
        /\ r.state = "committed" => r.left = {}
        /\ \A k \in DOMAIN r.writes \ r.left :
              r.commit \in DOMAIN rows[k] /\ rows[k][r.commit] = r.writes[k]

\* Commits have timestamps of their own.
Apart ==
    \A t, u \in Session : t # u /\ Writing(txn[t]) /\ Writing(txn[u]) => txn[t].commit # txn[u].commit

\* A snapshot is before whatever is being written, and is what it was.
Snap(r, s, t) ==
    r.state = "pending" =>
        /\ r.start <= last
        /\ s.clean => /\ \A u \in Session \ {t} : txn[u].state = "committing" => r.start < txn[u].commit
                      /\ \A k \in Key : ReadAt(k, r.start) = s.view[k]

LocalInv ==
    /\ Types /\ Apart
    /\ \A t \in Session : Stamped(txn[t]) /\ Snap(txn[t], seen[t], t)

-----------------------------------------------------------------------------
\* The clock hands out later and later timestamps (TimestampAllocator.allocate).
LEMMA AllocateIsLater == ASSUME Types PROVE Allocate \in Nat /\ Allocate > last
BY DEF Types, Allocate

\* What a key's rows f show at timestamp x, as ReadAt reads it.
Top(S) == CHOOSE u \in S : \A w \in S : w <= u
Shown(f, x) == LET old == {u \in DOMAIN f : u <= x} IN IF old = {} THEN Gone ELSE f[Top(old)]

\* A read of a key depends on the key's rows alone (MVCCStorage.get).
LEMMA ReadIsShown == \A k, x : ReadAt(k, x) = Shown(rows[k], x)
BY DEF ReadAt, Shown, Top

\* A row above a read's timestamp does not change what the read shows (_get_version_at).
LEMMA LaterRowIsHidden ==
    ASSUME NEW f, NEW g, NEW x \in Nat, NEW c \in Nat, NEW v, x < c,
           DOMAIN f \subseteq Nat, Peaks(DOMAIN f),
           g = [u \in DOMAIN f \cup {c} |-> IF u = c THEN v ELSE f[u]]
    PROVE  Shown(g, x) = Shown(f, x)
<1>1. PICK S : S = {u \in DOMAIN f : u <= x}
  BY Zenon
<1>2. {u \in DOMAIN g : u <= x} = S
  BY <1>1
<1>3. \A u \in S : g[u] = f[u]
  BY <1>1
<1>4. S # {} => Top(S) \in S
  BY <1>1 DEF Peaks, Top
<1>5. Shown(f, x) = IF S = {} THEN Gone ELSE f[Top(S)]
  BY <1>1 DEF Shown
<1>6. Shown(g, x) = IF S = {} THEN Gone ELSE g[Top(S)]
  BY <1>2 DEF Shown
<1>7. S # {} => g[Top(S)] = f[Top(S)]
  BY <1>3, <1>4, Zenon
<1> QED
  BY <1>5, <1>6, <1>7, Zenon

\* One timestamp more leaves every part with a last one.
LEMMA PeaksStay ==
    ASSUME NEW D, D \subseteq Nat, Peaks(D), NEW c \in Nat PROVE Peaks(D \cup {c})
<1> SUFFICES ASSUME NEW x \in Nat, NEW S, S = {u \in D \cup {c} : u <= x}, S # {}
             PROVE  \E u \in S : \A w \in S : w <= u
  BY Zenon DEF Peaks
<1>1. PICK R : R = {u \in D : u <= x}
  BY Zenon
<1>2. CASE R = {}
  <2>1. \A w \in S : w = c /\ w <= c
    BY <1>1, <1>2
  <2>2. c \in S
    BY <2>1, Zenon
  <2> QED
    BY <2>1, <2>2
<1>3. CASE R # {}
  <2>1. PICK r \in R : \A w \in R : w <= r
    BY <1>1, <1>3, Zenon DEF Peaks
  <2>2. r \in Nat /\ r \in S /\ R \subseteq Nat
    BY <1>1, <2>1, Zenon
  <2>3. \A w \in S : w \in R \/ w = c
    BY <1>1
  <2>4. CASE c \in S /\ r <= c
    BY <2>1, <2>2, <2>3, <2>4
  <2>5. CASE c \notin S \/ c <= r
    BY <2>1, <2>2, <2>3, <2>5
  <2> QED
    BY <2>2, <2>4, <2>5
<1> QED
  BY <1>2, <1>3

\* A step of one transaction that writes no row.
LEMMA TxnStep ==
    ASSUME LocalInv, NEW t \in Session, NEW r, ATxn(r), NEW s,
           txn' = [txn EXCEPT ![t] = r], seen' = [seen EXCEPT ![t] = s],
           UNCHANGED <<now, rows>>, last' \in Nat, last <= last', Stamped(r)',
           \A u \in Session \ {t} : Writing(r) /\ Writing(txn[u]) => r.commit # txn[u].commit,
           \A u \in Session \ {t} :
               r.state = "committing" /\ txn[u].state = "pending" => txn[u].start < r.commit,
           r.state = "pending" =>
               /\ r.start <= last'
               /\ s.clean => /\ \A u \in Session \ {t} : txn[u].state = "committing" => r.start < txn[u].commit
                             /\ \A k \in Key : ReadAt(k, r.start) = s.view[k]
    PROVE  LocalInv'
<1>1. /\ txn'[t] = r /\ seen'[t] = s
      /\ \A u \in Session \ {t} : txn'[u] = txn[u] /\ seen'[u] = seen[u]
      /\ txn' = [u \in Session |-> txn'[u]] /\ seen' = [u \in Session |-> seen'[u]]
  BY Zenon DEF LocalInv, Types
<1>2. Types'
  BY <1>1 DEF LocalInv, Types
<1>3. Apart'
  BY <1>1 DEF LocalInv, Apart
<1>4. ASSUME NEW u \in Session \ {t} PROVE Stamped(txn[u])' /\ Snap(txn[u], seen[u], u)'
  <2>1. txn'[u] = txn[u] /\ seen'[u] = seen[u] /\ last \in Nat /\ ATxn(txn[u])
    BY <1>1, Zenon DEF LocalInv, Types
  <2>2. Stamped(txn[u])'
    <3>1. txn[u].commit <= last => txn[u].commit <= last'
      BY <2>1 DEF ATxn
    <3>2. Stamped(txn[u]) /\ rows' = rows
      BY DEF LocalInv
    <3> QED
      BY <2>1, <3>1, <3>2, ZenonT(40) DEF Stamped
  <2>3. Snap(txn[u], seen[u], u)'
    <3>1. txn[u].start <= last => txn[u].start <= last'
      BY <2>1 DEF ATxn
    <3>2. \A k, x : ReadAt(k, x)' = ReadAt(k, x)
      BY DEF ReadAt
    <3>3. ASSUME txn[u].state = "pending", seen[u].clean
          PROVE  /\ \A v \in Session \ {u} : txn'[v].state = "committing" => txn[u].start < txn'[v].commit
                 /\ \A k \in Key : ReadAt(k, txn[u].start) = seen[u].view[k]
      BY <1>1, <3>3 DEF LocalInv, Snap
    <3>4. txn[u].state = "pending" => txn[u].start <= last'
      BY <3>1 DEF LocalInv, Snap
    <3> QED
      BY <2>1, <3>2, <3>3, <3>4 DEF Snap
  <2> QED
    BY <2>2, <2>3
<1>5. Stamped(txn[t])' /\ Snap(txn[t], seen[t], t)'
  <2>1. \A k, x : ReadAt(k, x)' = ReadAt(k, x)
    BY DEF ReadAt
  <2>2. Snap(txn[t], seen[t], t)'
    BY <1>1, <2>1 DEF Snap
  <2>3. Stamped(txn[t])'
    BY <1>1, Zenon DEF Stamped
  <2> QED
    BY <2>2, <2>3
<1> QED
  BY <1>2, <1>3, <1>4, <1>5 DEF LocalInv

\* A transaction begins: its snapshot is of a moment after every commit that has been
\* written (TransactionManager.begin).
LEMMA BeginInv == ASSUME LocalInv, NEW t \in Session, Begin(t) PROVE LocalInv'
<1>1. PICK a : a = Allocate
  OBVIOUS
<1>2. a \in Nat /\ a > last /\ last \in Nat /\ ATxn(txn[t]) /\ txn = [u \in Session |-> txn[u]]
  BY <1>1, AllocateIsLater DEF LocalInv, Types
<1>3. PICK r : r = [txn[t] EXCEPT !.state = "pending", !.start = a]
  OBVIOUS
<1>4. PICK s : s = [clean |-> Quiet, view |-> [k \in Key |-> ReadAt(k, a)]]
  BY Zenon
<1>5. /\ last' = a /\ txn' = [txn EXCEPT ![t] = r] /\ seen' = [seen EXCEPT ![t] = s]
      /\ UNCHANGED <<now, rows>>
  BY <1>1, <1>2, <1>3, <1>4, Zenon DEF Begin
<1>6. ATxn(r) /\ r.state = "pending" /\ r.start = a
  BY <1>2, <1>3, ZenonT(40) DEF ATxn
<1>7. Stamped(r)'
  BY <1>6 DEF Stamped, Writing
<1>8. /\ s.clean => \A u \in Session : txn[u].state # "committing"
      /\ \A k \in Key : ReadAt(k, r.start) = s.view[k]
  BY <1>4, <1>6 DEF Quiet
<1>9. ~Writing(r) /\ r.state # "committing"
  BY <1>6 DEF Writing
<1>10. last' \in Nat /\ last <= last' /\ r.start <= last'
  BY <1>2, <1>5, <1>6
<1> QED
  BY <1>5, <1>6, <1>7, <1>8, <1>9, <1>10, TxnStep, Zenon

\* A write is buffered, or the transaction is rolled back: its snapshot is the one it had
\* (Transaction.set, delete and rollback).
LEMMA BufferInv ==
    ASSUME LocalInv, NEW t \in Session, NEW k, NEW v, (k \in Key /\ Write(t, k, v)) \/ Rollback(t)
    PROVE  LocalInv'
<1>1. PICK r : r = txn'[t]
  OBVIOUS
<1>2. /\ txn = [u \in Session |-> txn[u]] /\ ATxn(txn[t])
      /\ seen = [u \in Session |-> seen[u]] /\ last \in Nat
      /\ UNCHANGED <<now, last, rows, seen>>
  BY DEF Write, Rollback, LocalInv, Types
<1>3. /\ txn' = [txn EXCEPT ![t] = r] /\ ATxn(r) /\ r.start = txn[t].start
      /\ r.state \in {"pending", "aborted"} /\ (r.state = "pending" => txn[t].state = "pending")
  <2>1. CASE k \in Key /\ Write(t, k, v)
    <3>1. PICK w : w = [x \in DOMAIN txn[t].writes \cup {k} |-> IF x = k THEN v ELSE txn[t].writes[x]]
      BY Zenon
    <3>2. txn' = [txn EXCEPT ![t] = [txn[t] EXCEPT !.writes = w]] /\ txn[t].state = "pending"
      BY <1>2, <2>1, <3>1 DEF Write
    <3>3. DOMAIN w \subseteq Key
      BY <1>2, <2>1, <3>1 DEF ATxn
    <3> QED
      BY <1>1, <1>2, <3>2, <3>3 DEF ATxn
  <2>2. CASE Rollback(t)
    <3>1. txn' = [txn EXCEPT ![t] = [txn[t] EXCEPT !.state = "aborted", !.writes = << >>]]
      BY <1>2, <2>2, Zenon DEF Rollback
    <3>2. DOMAIN << >> \subseteq Key
      OBVIOUS
    <3> QED
      BY <1>1, <1>2, <3>1, <3>2, Zenon DEF ATxn
  <2> QED
    BY <2>1, <2>2
<1>4. seen' = [seen EXCEPT ![t] = seen[t]]
  BY <1>2
<1>5. ~Writing(r) /\ r.state # "committing" /\ Stamped(r)'
  BY <1>3 DEF Writing, Stamped
<1>6. Snap(txn[t], seen[t], t)
  BY DEF LocalInv
<1>7. r.state = "pending" =>
          /\ r.start <= last'
          /\ seen[t].clean => /\ \A u \in Session \ {t} : txn[u].state = "committing" => r.start < txn[u].commit
                              /\ \A j \in Key : ReadAt(j, r.start) = seen[t].view[j]
  BY <1>2, <1>3, <1>6 DEF Snap
<1>8. last' \in Nat /\ last <= last' /\ UNCHANGED <<now, rows>>
  BY <1>2
<1>9. /\ \A u \in Session \ {t} : Writing(r) /\ Writing(txn[u]) => r.commit # txn[u].commit
      /\ \A u \in Session \ {t} :
            r.state = "committing" /\ txn[u].state = "pending" => txn[u].start < r.commit
  BY <1>5
<1> QED
  BY <1>3, <1>4, <1>5, <1>7, <1>8, <1>9, TxnStep, Zenon

\* A commit takes a timestamp later than all before (Transaction.commit).
LEMMA StampInv == ASSUME LocalInv, NEW t \in Session, Stamp(t) PROVE LocalInv'
<1>1. PICK a : a = Allocate
  OBVIOUS
<1>2. /\ a \in Nat /\ a > last /\ last \in Nat /\ ATxn(txn[t]) /\ txn = [u \in Session |-> txn[u]]
      /\ seen = [u \in Session |-> seen[u]] /\ \A u \in Session : ATxn(txn[u])
  BY <1>1, AllocateIsLater DEF LocalInv, Types
<1>3. PICK r : r = [txn[t] EXCEPT !.state = "committing", !.commit = a, !.left = DOMAIN txn[t].writes]
  OBVIOUS
<1>4. /\ last' = a /\ txn' = [txn EXCEPT ![t] = r] /\ seen' = [seen EXCEPT ![t] = seen[t]]
      /\ UNCHANGED <<now, rows>>
  BY <1>1, <1>2, <1>3, Zenon DEF Stamp
<1>5. /\ ATxn(r) /\ r.state = "committing" /\ r.commit = a /\ r.left = DOMAIN r.writes
  BY <1>2, <1>3, Zenon DEF ATxn
<1>6. Stamped(r)'
  BY <1>2, <1>4, <1>5 DEF Stamped
<1>7. ASSUME NEW u \in Session, Writing(txn[u]) PROVE r.commit # txn[u].commit
  <2>1. txn[u].commit <= last /\ txn[u].commit \in Nat
    BY <1>2, <1>7 DEF LocalInv, Stamped, ATxn
  <2> QED
    BY <1>2, <1>5, <2>1
<1>8. ASSUME NEW u \in Session, txn[u].state = "pending" PROVE txn[u].start < r.commit
  <2>1. txn[u].start <= last /\ txn[u].start \in Nat
    BY <1>2, <1>8 DEF LocalInv, Snap, ATxn
  <2> QED
    BY <1>2, <1>5, <2>1
<1>9. last' \in Nat /\ last <= last'
  BY <1>2, <1>4
<1> QED
  BY <1>4, <1>5, <1>6, <1>7, <1>8, <1>9, TxnStep, ZenonT(40)

\* A commit ends, in its last row or in one the engine refused.
LEMMA EndInv == ASSUME LocalInv, NEW t \in Session, FailRow(t) \/ Committed(t) PROVE LocalInv'
<1>1. /\ txn[t].state = "committing" /\ txn = [u \in Session |-> txn[u]] /\ ATxn(txn[t])
      /\ seen = [u \in Session |-> seen[u]] /\ last \in Nat
      /\ UNCHANGED <<now, last, rows, seen>>
  BY DEF FailRow, Committed, LocalInv, Types
<1>2. PICK e : /\ e = "aborted" \/ (e = "committed" /\ txn[t].left = {})
               /\ txn' = [txn EXCEPT ![t] = [txn[t] EXCEPT !.state = e]]
  BY <1>1 DEF FailRow, Committed
<1>3. PICK r : r = [txn[t] EXCEPT !.state = e]
  BY Zenon
<1>4. /\ ATxn(r) /\ r.state = e /\ r.commit = txn[t].commit /\ r.left = txn[t].left
      /\ r.writes = txn[t].writes
  BY <1>1, <1>3 DEF ATxn
<1>5. Stamped(r)'
  BY <1>1, <1>2, <1>4 DEF LocalInv, Stamped, Writing
<1>6. \A u \in Session \ {t} : Writing(txn[u]) => r.commit # txn[u].commit
  BY <1>1, <1>4 DEF LocalInv, Apart, Writing
<1>7. r.state # "committing" /\ r.state # "pending"
  BY <1>2, <1>4
<1>8. /\ txn' = [txn EXCEPT ![t] = r] /\ seen' = [seen EXCEPT ![t] = seen[t]]
      /\ last' \in Nat /\ last <= last' /\ UNCHANGED <<now, rows>>
  BY <1>1, <1>2, <1>3
<1>9. /\ \A u \in Session \ {t} : Writing(r) /\ Writing(txn[u]) => r.commit # txn[u].commit
      /\ \A u \in Session \ {t} :
            r.state = "committing" /\ txn[u].state = "pending" => txn[u].start < r.commit
      /\ r.state = "pending" =>
            /\ r.start <= last'
            /\ seen[t].clean =>
                  /\ \A u \in Session \ {t} : txn[u].state = "committing" => r.start < txn[u].commit
                  /\ \A k \in Key : ReadAt(k, r.start) = seen[t].view[k]
  BY <1>6, <1>7
<1> QED
  BY <1>4, <1>5, <1>8, <1>9, TxnStep, Zenon

\* A row of a commit goes to a place no other commit has, and above every snapshot
\* (Transaction.commit, MVCCStorage.set).
LEMMA RowInv == ASSUME LocalInv, NEW t \in Session, NEW k \in Key, WriteRow(t, k) PROVE LocalInv'
<1>1. PICK c : c = txn[t].commit
  OBVIOUS
<1>2. /\ txn[t].state = "committing" /\ k \in txn[t].left /\ Stamped(txn[t]) /\ Writing(txn[t])
      /\ txn = [u \in Session |-> txn[u]] /\ (\A u \in Session : ATxn(txn[u])) /\ c \in Nat
      /\ rows = [j \in Key |-> rows[j]] /\ \A j \in Key : DOMAIN rows[j] \subseteq Nat
  BY <1>1 DEF WriteRow, LocalInv, Types, ATxn, Writing
<1>3. PICK r, l : r = [txn[t] EXCEPT !.left = l] /\ l = txn[t].left \ {k}
  BY Zenon
<1>4. PICK f : f = [x \in DOMAIN rows[k] \cup {c} |-> IF x = c THEN txn[t].writes[k] ELSE rows[k][x]]
  BY Zenon
<1>5. /\ txn' = [txn EXCEPT ![t] = r] /\ rows' = [rows EXCEPT ![k] = f]
      /\ UNCHANGED <<now, last, seen>>
  BY <1>1, <1>2, <1>3, <1>4 DEF WriteRow
<1>6. /\ ATxn(r) /\ r.state = "committing" /\ r.commit = c /\ r.writes = txn[t].writes
      /\ r.left = txn[t].left \ {k}
  <2>1. ATxn(txn[t])
    BY <1>2
  <2> QED
    BY <1>1, <1>2, <1>3, <2>1, Zenon DEF ATxn
<1>7. /\ txn'[t] = r /\ (\A u \in Session \ {t} : txn'[u] = txn[u]) /\ txn' = [u \in Session |-> txn'[u]]
      /\ rows'[k] = f /\ (\A j \in Key \ {k} : rows'[j] = rows[j]) /\ rows' = [j \in Key |-> rows'[j]]
      /\ DOMAIN f = DOMAIN rows[k] \cup {c}
  BY <1>2, <1>4, <1>5
<1>8. Types'
  <2>1. ASSUME NEW j \in Key PROVE DOMAIN rows'[j] \subseteq Nat /\ Peaks(DOMAIN rows'[j])
    BY <1>2, <1>7, PeaksStay DEF LocalInv, Types
  <2>2. \A u \in Session : ATxn(txn'[u])
    BY <1>2, <1>6, <1>7
  <2> QED
    BY <1>5, <1>7, <2>1, <2>2, ZenonT(40) DEF LocalInv, Types, ATxn, Peaks
<1>9. Apart'
  <2>1. \A u \in Session : (Writing(txn'[u]) <=> Writing(txn[u])) /\ txn'[u].commit = txn[u].commit
    BY <1>1, <1>2, <1>6, <1>7 DEF Writing
  <2> QED
    BY <2>1, ZenonT(40) DEF LocalInv, Apart, Writing
<1>10. ASSUME NEW u \in Session \ {t} PROVE Stamped(txn[u])'
  <2>1. Writing(txn[u]) => txn[u].commit # c
    BY <1>1, <1>2 DEF LocalInv, Apart
  <2>2. ASSUME Writing(txn[u]), NEW j \in DOMAIN txn[u].writes \ txn[u].left
        PROVE  txn[u].commit \in DOMAIN rows'[j] /\ rows'[j][txn[u].commit] = txn[u].writes[j]
    <3>1. j \in Key /\ txn[u].commit \in DOMAIN rows[j] /\ rows[j][txn[u].commit] = txn[u].writes[j]
      BY <1>2, <2>2, ZenonT(40) DEF LocalInv, Stamped, ATxn
    <3> QED
      BY <1>4, <1>7, <2>1, <2>2, <3>1
  <2> QED
    BY <1>5, <1>7, <2>2 DEF LocalInv, Stamped, Writing
<1>11. Stamped(txn[t])'
  <2>1. ASSUME NEW j \in DOMAIN r.writes \ r.left
        PROVE  r.commit \in DOMAIN rows'[j] /\ rows'[j][r.commit] = r.writes[j]
    <3>1. CASE j = k
      BY <1>4, <1>6, <1>7, <3>1
    <3>2. CASE j # k
      <4>1. j \in Key /\ c \in DOMAIN rows[j] /\ rows[j][c] = txn[t].writes[j]
        BY <1>1, <1>2, <1>6, <3>2 DEF Stamped, ATxn
      <4> QED
        BY <1>6, <1>7, <3>2, <4>1
    <3> QED
      BY <3>1, <3>2
  <2>2. r.commit <= last /\ r.left \subseteq DOMAIN r.writes
    BY <1>1, <1>2, <1>6 DEF Stamped
  <2> QED
    BY <1>5, <1>6, <1>7, <2>1, <2>2 DEF Stamped
<1>12. ASSUME NEW x \in Nat, x < c, NEW j \in Key PROVE Shown(rows'[j], x) = Shown(rows[j], x)
  <2>1. CASE j # k
    BY <1>7, <2>1
  <2>2. CASE j = k
    <3>1. DOMAIN rows[k] \subseteq Nat /\ Peaks(DOMAIN rows[k])
      BY DEF LocalInv, Types
    <3>2. Shown(f, x) = Shown(rows[k], x)
      BY <1>2, <1>4, <1>12, <3>1, LaterRowIsHidden, ZenonT(40)
    <3> QED
      BY <1>7, <2>2, <3>2
  <2> QED
    BY <2>1, <2>2
<1>13. ASSUME NEW u \in Session PROVE Snap(txn[u], seen[u], u)'
  <2>1. CASE u = t
    BY <1>6, <1>7, <2>1 DEF Snap
  <2>2. CASE u # t
    <3>1. Snap(txn[u], seen[u], u) /\ txn[u].start \in Nat
      BY <1>2 DEF LocalInv, ATxn
    <3>2. ASSUME txn[u].state = "pending", seen[u].clean
          PROVE  /\ \A v \in Session \ {u} : txn'[v].state = "committing" => txn[u].start < txn'[v].commit
                 /\ \A j \in Key : Shown(rows'[j], txn[u].start) = seen[u].view[j]
      <4>1. txn[u].start < c
        BY <1>1, <1>2, <2>2, <3>1, <3>2 DEF Snap
      <4>2. \A v \in Session \ {u} : txn'[v].state = "committing" => txn[u].start < txn'[v].commit
        BY <1>6, <1>7, <3>1, <3>2, <4>1 DEF Snap
      <4>3. ASSUME NEW j \in Key PROVE Shown(rows'[j], txn[u].start) = seen[u].view[j]
        BY <1>12, <3>1, <3>2, <4>1, ReadIsShown DEF Snap
      <4> QED
        BY <4>2, <4>3
    <3>3. \A j, x : ReadAt(j, x)' = Shown(rows'[j], x)
      BY DEF ReadAt, Shown, Top
    <3> QED
      BY <1>5, <1>7, <2>2, <3>1, <3>2, <3>3 DEF Snap
  <2> QED
    BY <2>1, <2>2
<1> QED
  BY <1>8, <1>9, <1>10, <1>11, <1>13, Zenon DEF LocalInv

\* A new database has no rows and no transactions.
LEMMA InitInv == LocalInit => LocalInv
<1> SUFFICES ASSUME LocalInit PROVE LocalInv
  OBVIOUS
<1>1. \A t \in Session : txn[t].state = "unborn" /\ ATxn(txn[t])
  <2>1. ATxn(Unborn) /\ Unborn.state = "unborn"
    BY DEF Unborn, ATxn
  <2> QED
    BY <2>1, ZenonT(40) DEF LocalInit
<1>2. \A k \in Key : DOMAIN rows[k] = {}
  BY DEF LocalInit
<1>3. Peaks({})
  BY DEF Peaks
<1>4. Types
  BY <1>1, <1>2, <1>3 DEF LocalInit, Types
<1> QED
  BY <1>1, <1>4 DEF LocalInv, Apart, Stamped, Snap, Writing

\* The wall clock moves, in either direction.
LEMMA ClockInv == ASSUME LocalInv, Clock PROVE LocalInv'
<1>1. now' \in Nat /\ UNCHANGED <<last, rows, txn, seen>>
  BY TimeAssumption DEF Clock
<1>2. \A k, x : ReadAt(k, x)' = ReadAt(k, x)
  BY <1>1 DEF ReadAt
<1>3. Types'
  <2>1. Types
    BY DEF LocalInv
  <2> QED
    BY <1>1, <2>1 DEF Types, ATxn, Peaks
<1>4. Apart'
  BY <1>1 DEF LocalInv, Apart, Writing
<1>5. ASSUME NEW t \in Session PROVE Stamped(txn[t])' /\ Snap(txn[t], seen[t], t)'
  BY <1>1, <1>2, ZenonT(40) DEF LocalInv, Stamped, Writing, Snap
<1> QED
  BY <1>3, <1>4, <1>5 DEF LocalInv

\* The process is started again: no open transaction is left, and the clock is not behind
\* what it has handed out (LocalRestart's guard).
LEMMA RestartInv == ASSUME LocalInv, LocalRestart PROVE LocalInv'
<1>1. /\ last' = now /\ now >= last /\ UNCHANGED <<now, rows, seen>>
      /\ txn' = [t \in Session |-> IF txn[t].state \in {"pending", "committing"}
                                THEN [txn[t] EXCEPT !.state = "lost"] ELSE txn[t]]
      /\ now \in Nat /\ last \in Nat
  BY DEF LocalRestart, LocalInv, Types
<1>2. ASSUME NEW t \in Session
      PROVE  /\ ATxn(txn'[t]) /\ txn'[t].state # "pending" /\ txn'[t].state # "committing"
             /\ Writing(txn'[t]) => txn'[t] = txn[t] /\ Writing(txn[t])
  <2>1. ATxn(txn[t])
    BY DEF LocalInv, Types
  <2>2. CASE txn[t].state \in {"pending", "committing"}
    <3>1. txn'[t] = [txn[t] EXCEPT !.state = "lost"]
      BY <1>1, <2>2
    <3> QED
      BY <2>1, <3>1 DEF ATxn, Writing
  <2>3. CASE txn[t].state \notin {"pending", "committing"}
    BY <1>1, <2>1, <2>3
  <2> QED
    BY <2>2, <2>3
<1>3. txn' = [t \in Session |-> txn'[t]]
  BY <1>1
<1>4. Types'
  BY <1>1, <1>2, <1>3 DEF LocalInv, Types, ATxn, Peaks
<1>5. Apart'
  BY <1>2 DEF LocalInv, Apart, Writing
<1>6. ASSUME NEW t \in Session PROVE Stamped(txn[t])' /\ Snap(txn[t], seen[t], t)'
  <2>1. Snap(txn[t], seen[t], t)'
    BY <1>2 DEF Snap
  <2>2. CASE ~Writing(txn'[t])
    BY <2>1, <2>2 DEF Stamped, Writing
  <2>3. CASE Writing(txn'[t])
    <3>1. txn'[t] = txn[t] /\ Stamped(txn[t]) /\ Writing(txn[t]) /\ txn[t].commit \in Nat
      BY <1>2, <2>3, Zenon DEF LocalInv, Types, ATxn
    <3>2. PICK r : r = txn[t]
      OBVIOUS
    <3>3. r.commit <= last'
      BY <1>1, <3>1, <3>2 DEF Stamped
    <3>4. Stamped(r)'
      BY <1>1, <3>1, <3>2, <3>3 DEF Stamped
    <3>5. r = txn'[t]
      BY <3>1, <3>2
    <3> QED
      BY <2>1, <3>4, <3>5 DEF Stamped
  <2> QED
    BY <2>2, <2>3
<1> QED
  BY <1>4, <1>5, <1>6 DEF LocalInv

\* The invariant holds in every state of the database (LocalNext).
LEMMA Invariance == LocalSpec => []LocalInv
<1>1. ASSUME LocalInv, [LocalNext]_localVars PROVE LocalInv'
  <2>1. CASE UNCHANGED localVars
    <3>1. UNCHANGED <<now, last, rows, txn, seen>>
      BY <2>1 DEF localVars
    <3>2. \A k, x : ReadAt(k, x)' = ReadAt(k, x)
      BY <3>1 DEF ReadAt
    <3>3. Types' /\ Apart'
      BY <1>1, <3>1 DEF LocalInv, Types, ATxn, Peaks, Apart, Writing
    <3>4. ASSUME NEW t \in Session PROVE Stamped(txn[t])' /\ Snap(txn[t], seen[t], t)'
      BY <1>1, <3>1, <3>2, ZenonT(40) DEF LocalInv, Stamped, Writing, Snap
    <3> QED
      BY <3>3, <3>4 DEF LocalInv
  <2>2. ASSUME NEW t \in Session,
               \/ Begin(t) \/ Rollback(t) \/ Stamp(t) \/ FailRow(t) \/ Committed(t)
               \/ \E k \in Key : WriteRow(t, k) \/ \E v \in Val \cup {Gone} : Write(t, k, v)
        PROVE  LocalInv'
    <3>1. CASE Begin(t) \/ Stamp(t)
      BY <1>1, <3>1, BeginInv, StampInv
    <3>2. CASE Rollback(t)
      BY <1>1, <3>2, BufferInv
    <3>3. CASE FailRow(t) \/ Committed(t)
      BY <1>1, <3>3, EndInv
    <3>4. ASSUME NEW k \in Key, WriteRow(t, k) \/ \E v \in Val \cup {Gone} : Write(t, k, v)
          PROVE  LocalInv'
      BY <1>1, <3>4, RowInv, BufferInv
    <3> QED
      BY <2>2, <3>1, <3>2, <3>3, <3>4
  <2> QED
    BY <1>1, <2>1, <2>2, ClockInv, RestartInv DEF LocalNext
<1> QED
  BY <1>1, InitInv, PTL DEF LocalSpec

-----------------------------------------------------------------------------
\* A transaction that began while no commit was being written reads what the database held
\* then, for as long as it is open (SnapshotStays).
THEOREM SnapshotsStay == LocalSpec => []SnapshotStays
<1>1. LocalInv => SnapshotStays
  BY DEF LocalInv, Snap, SnapshotStays, Get
<1> QED
  BY <1>1, Invariance, PTL

\* What a commit that answered True wrote is there from then on, under a timestamp of its
\* own (CommittedIsKept).
THEOREM CommitsAreKept == LocalSpec => []CommittedIsKept
<1>1. LocalInv => CommittedIsKept
  BY DEF LocalInv, Stamped, Writing, CommittedIsKept
<1> QED
  BY <1>1, Invariance, PTL
=============================================================================
