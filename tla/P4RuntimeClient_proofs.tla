---------------------- MODULE P4RuntimeClient_proofs ----------------------
(***************************************************************************)
(* Theorems of Encoding and of P4RuntimeClient: numbers, types, late         *)
(* messages, closed connections, what the switches' tables hold, what the    *)
(* tests find there and the wait for the arbitration.                        *)
(***************************************************************************)
EXTENDS P4RuntimeClient, Recursion_proofs, SequenceTheorems, TLAPS

-----------------------------------------------------------------------------
(* Encoding: a number that encodeNum accepts is decoded to itself, for every  *)
(* bitwidth.                                                                  *)

\* Pow2 is the function its definition promises.
LEMMA Pow2Recursive ==
  /\ Pow2 \in [Nat -> Nat] /\ Pow2[0] = 1
  /\ \A n \in Nat : Pow2[n + 1] = 2 * Pow2[n]
<1> DEFINE step == [n \in Nat |-> [m \in Nat |-> 2 * m]]
<1>1. step \in [Nat -> [Nat -> Nat]]
  OBVIOUS
<1>2. PICK f : IsRecursion(f, Nat, 1, step)
  <2> HIDE DEF step
  <2> QED BY <1>1, PrimitiveRecursion
<1>3. \A n \in Nat : f[n + 1] = 2 * f[n]
  BY <1>2 DEF IsRecursion
<1>4. f = [n \in Nat |-> IF n = 0 THEN 1 ELSE 2 * f[n - 1]]
  <2>1. ASSUME NEW n \in Nat PROVE f[n] = IF n = 0 THEN 1 ELSE 2 * f[n - 1]
    <3>1. CASE n = 0
      BY <3>1, <1>2 DEF IsRecursion
    <3>2. CASE n # 0
      <4>1. n - 1 \in Nat /\ (n - 1) + 1 = n
        BY <3>2
      <4> QED BY <4>1, <3>2, <1>3
    <3> QED BY <3>1, <3>2
  <2>2. f \in [Nat -> Nat]
    BY <1>2 DEF IsRecursion
  <2> HIDE DEF step
  <2> QED BY <2>1, <2>2
<1>5. Pow2 = [n \in Nat |-> IF n = 0 THEN 1 ELSE 2 * Pow2[n - 1]]
  BY <1>4 DEF Pow2
<1> DEFINE T == {n \in Nat : Pow2[n] \in Nat}
<1>6. Pow2[0] = 1 /\ \A n \in Nat : Pow2[n + 1] = 2 * Pow2[n]
  <2>1. Pow2[0] = 1
    BY <1>5
  <2>2. ASSUME NEW n \in Nat PROVE Pow2[n + 1] = 2 * Pow2[n]
    <3>1. n + 1 \in Nat /\ n + 1 # 0 /\ (n + 1) - 1 = n
      OBVIOUS
    <3> QED BY <1>5, <3>1
  <2> QED BY <2>1, <2>2
<1>7. Nat \subseteq T
  <2>1. 0 \in T /\ \A n \in Nat : n \in T => n + 1 \in T
    BY <1>6
  <2> HIDE DEF T
  <2> QED BY <2>1, NatSetInduction
<1>8. Pow2 \in [Nat -> Nat]
  BY <1>5, <1>7
<1> QED BY <1>6, <1>8

\* Powers of two are positive and grow.
LEMMA Pow2Positive == \A n \in Nat : Pow2[n] \in Nat \ {0}
<1> DEFINE T == {n \in Nat : Pow2[n] \in Nat \ {0}}
<1>1. 0 \in T /\ \A n \in Nat : n \in T => n + 1 \in T
  BY Pow2Recursive
<1>2. Nat \subseteq T
  <2> HIDE DEF T
  <2> QED BY <1>1, NatSetInduction
<1> QED BY <1>2

LEMMA Pow2Grows ==
  ASSUME NEW m \in Nat, NEW n \in Nat
  PROVE  Pow2[m] <= Pow2[m + n]
<1> DEFINE T == {k \in Nat : Pow2[m] <= Pow2[m + k]}
<1>1. 0 \in T
  BY Pow2Positive
<1>2. ASSUME NEW k \in Nat, k \in T PROVE k + 1 \in T
  <2>1. Pow2[(m + k) + 1] = 2 * Pow2[m + k] /\ Pow2[m + k] \in Nat /\ Pow2[m] \in Nat
    BY Pow2Recursive
  <2>2. (m + k) + 1 = m + (k + 1)
    OBVIOUS
  <2> QED BY <1>2, <2>1, <2>2
<1>3. Nat \subseteq T
  <2> HIDE DEF T
  <2> QED BY <1>1, <1>2, NatSetInduction
<1> QED BY <1>3

\* A byte more is a factor 256.
LEMMA Pow2Byte == \A k \in Nat : Pow2[8 * (k + 1)] = 256 * Pow2[8 * k]
<1> SUFFICES ASSUME NEW k \in Nat PROVE Pow2[8 * (k + 1)] = 256 * Pow2[8 * k]
  OBVIOUS
<1> DEFINE n == 8 * k
<1>1. n \in Nat /\ 8 * (k + 1) = n + 8
  OBVIOUS
<1> HIDE DEF n
<1>2. \A m \in Nat : Pow2[m + 1] = 2 * Pow2[m] /\ Pow2[m] \in Nat
  BY Pow2Recursive
<1>3. Pow2[n + 1] = 2 * Pow2[n] /\ Pow2[n + 2] = 2 * Pow2[n + 1]
  <2>1. n + 1 \in Nat /\ (n + 1) + 1 = n + 2
    BY <1>1
  <2> QED BY <1>1, <1>2, <2>1
<1>4. Pow2[n + 3] = 2 * Pow2[n + 2] /\ Pow2[n + 4] = 2 * Pow2[n + 3]
  <2>1. n + 2 \in Nat /\ n + 3 \in Nat /\ (n + 2) + 1 = n + 3 /\ (n + 3) + 1 = n + 4
    BY <1>1
  <2> QED BY <1>2, <2>1
<1>5. Pow2[n + 5] = 2 * Pow2[n + 4] /\ Pow2[n + 6] = 2 * Pow2[n + 5]
  <2>1. n + 4 \in Nat /\ n + 5 \in Nat /\ (n + 4) + 1 = n + 5 /\ (n + 5) + 1 = n + 6
    BY <1>1
  <2> QED BY <1>2, <2>1
<1>6. Pow2[n + 7] = 2 * Pow2[n + 6] /\ Pow2[n + 8] = 2 * Pow2[n + 7]
  <2>1. n + 6 \in Nat /\ n + 7 \in Nat /\ (n + 6) + 1 = n + 7 /\ (n + 7) + 1 = n + 8
    BY <1>1
  <2> QED BY <1>2, <2>1
<1>7. Pow2[n + 8] = 256 * Pow2[n]
  <2>1. Pow2[n] \in Nat /\ Pow2[n + 4] \in Nat
    BY <1>1, <1>2
  <2>2. Pow2[n + 4] = 16 * Pow2[n]
    BY <1>1, <1>2, <1>3, <1>4
  <2>3. n + 4 \in Nat /\ n + 5 \in Nat /\ n + 6 \in Nat /\ n + 7 \in Nat
    BY <1>1
  <2>4. Pow2[n + 8] = 16 * Pow2[n + 4]
    BY <1>2, <1>5, <1>6, <2>3
  <2> QED BY <2>1, <2>2, <2>4
<1> QED BY <1>1, <1>7 DEF n

-----------------------------------------------------------------------------
(* Division *)

\* Dividing by a product is dividing twice.
LEMMA DivTwice ==
  ASSUME NEW u \in Nat, NEW q \in Nat \ {0}
  PROVE  /\ u \div q \in Nat
         /\ u \div q = 256 * (u \div (256 * q)) + ((u \div q) % 256)
<1> DEFINE d == u \div q
           r == u % q
           e == d \div 256
           s == d % 256
<1>1. d \in Nat /\ r \in 0 .. q - 1 /\ u = q * d + r
  OBVIOUS
<1>2. e \in Nat /\ s \in 0 .. 255 /\ d = 256 * e + s
  BY <1>1
<1>3. u \div (256 * q) = e
  OBVIOUS
<1> QED BY <1>1, <1>2, <1>3

-----------------------------------------------------------------------------
(* Decoding *)

\* f has the number that each prefix of an encoding stands for.
Prefixes(f, encoded, len) ==
  /\ f \in [0 .. len -> Nat] /\ f[0] = 0
  /\ \A i \in 1 .. len : f[i] = 256 * f[i - 1] + encoded[i]

\* decodeNum ends with the last of them.
LEMMA DecodedAs ==
  ASSUME NEW encoded, NEW len \in Nat, Len(encoded) = len,
         NEW f, Prefixes(f, encoded, len)
  PROVE  decodeNum(encoded) = f[len]
<1> USE DEF Prefixes
<1> DEFINE Eq(g) == g = [i \in 0 .. len |-> IF i = 0 THEN 0 ELSE 256 * g[i - 1] + encoded[i]]
           number == CHOOSE g : Eq(g)
<1>1. Eq(f)
  <2>1. ASSUME NEW i \in 0 .. len
        PROVE  f[i] = IF i = 0 THEN 0 ELSE 256 * f[i - 1] + encoded[i]
    <3>1. CASE i = 0
      BY <3>1
    <3>2. CASE i # 0
      <4>1. i \in 1 .. len
        BY <3>2
      <4> QED BY <4>1, <3>2
    <3> QED BY <3>1, <3>2
  <2> QED BY <2>1
<1>2. Eq(number)
  <2> HIDE DEF Eq
  <2> QED BY <1>1
<1>3. decodeNum(encoded) = number[len]
  BY DEF decodeNum
<1> HIDE DEF number
<1> DEFINE T == {i \in Nat : i <= len => number[i] = f[i]}
<1>4. 0 \in T
  BY <1>2
<1>5. ASSUME NEW i \in Nat, i \in T PROVE i + 1 \in T
  <2>1. CASE i + 1 <= len
    <3>1. i + 1 \in 1 .. len /\ i + 1 \in 0 .. len /\ i + 1 # 0 /\ (i + 1) - 1 = i
      BY <2>1
    <3>2. number[i + 1] = 256 * number[i] + encoded[i + 1]
      BY <1>2, <3>1
    <3>3. f[i + 1] = 256 * f[i] + encoded[i + 1]
      BY <3>1
    <3>4. number[i] = f[i]
      BY <1>5, <2>1
    <3> QED BY <3>2, <3>3, <3>4
  <2>2. CASE ~ (i + 1 <= len)
    BY <2>2
  <2> QED BY <2>1, <2>2
<1>6. Nat \subseteq T
  <2> HIDE DEF T
  <2> QED BY <1>4, <1>5, NatSetInduction
<1> QED BY <1>3, <1>6

\* What the bytes of a number, the highest first, are decoded to.
LEMMA BigEndian ==
  ASSUME NEW u \in Nat, NEW len \in Nat, u < Pow2[8 * len]
  PROVE  decodeNum([i \in 1 .. len |-> (u \div Pow2[8 * (len - i)]) % 256]) = u
<1> DEFINE encoded == [i \in 1 .. len |-> (u \div Pow2[8 * (len - i)]) % 256]
           f == [i \in 0 .. len |-> u \div Pow2[8 * (len - i)]]
<1>1. \A k \in Nat : Pow2[8 * k] \in Nat \ {0}
  <2>1. \A k \in Nat : 8 * k \in Nat
    OBVIOUS
  <2> QED BY <2>1, Pow2Positive
<1>2. f \in [0 .. len -> Nat]
  <2>1. ASSUME NEW i \in 0 .. len PROVE u \div Pow2[8 * (len - i)] \in Nat
    <3>1. len - i \in Nat
      OBVIOUS
    <3>2. Pow2[8 * (len - i)] \in Nat \ {0}
      BY <3>1, <1>1
    <3> QED BY <3>2, DivTwice
  <2> QED BY <2>1
<1>3. f[0] = 0
  <2>1. len - 0 = len
    OBVIOUS
  <2>2. f[0] = u \div Pow2[8 * len]
    BY <2>1
  <2> DEFINE p == Pow2[8 * len]
  <2>3. p \in Nat \ {0} /\ u < p
    BY <1>1
  <2> HIDE DEF p
  <2>4. u \div p = 0
    BY <2>3
  <2> QED BY <2>2, <2>4 DEF p
<1>4. ASSUME NEW i \in 1 .. len PROVE f[i] = 256 * f[i - 1] + encoded[i]
  <2> DEFINE q == Pow2[8 * (len - i)]
  <2>1. len - i \in Nat /\ len - (i - 1) = (len - i) + 1 /\ i - 1 \in 0 .. len /\ i \in 0 .. len
    OBVIOUS
  <2>2. q \in Nat \ {0}
    BY <2>1, <1>1
  <2>3. Pow2[8 * (len - (i - 1))] = 256 * q
    BY <2>1, Pow2Byte
  <2>4. f[i] = u \div q /\ encoded[i] = (u \div q) % 256 /\ f[i - 1] = u \div (256 * q)
    BY <2>1, <2>3
  <2>5. u \div q = 256 * (u \div (256 * q)) + ((u \div q) % 256)
    <3> HIDE DEF q
    <3> QED BY <2>2, DivTwice
  <2> QED BY <2>4, <2>5
<1>5. Len(encoded) = len
  OBVIOUS
<1>6. decodeNum(encoded) = f[len]
  <2>1. Prefixes(f, encoded, len)
    <3> HIDE DEF encoded, f
    <3> QED BY <1>2, <1>3, <1>4 DEF Prefixes
  <2> HIDE DEF encoded, f
  <2> QED BY <2>1, <1>5, DecodedAs
<1>7. f[len] = u
  <2>1. len - len = 0 /\ 8 * 0 = 0 /\ Pow2[0] = 1
    BY Pow2Recursive
  <2> QED BY <2>1
<1> QED BY <1>6, <1>7

\* Reduction modulo a power of two takes a number to its two's complement.
LEMMA TwosComplement ==
  ASSUME NEW n \in Int, NEW w \in Nat \ {0}, Encodable(n, w)
  PROVE  Unsigned(n, w) \in 0 .. Pow2[w] - 1 /\ Unsigned(n, w) = n % Pow2[w]
<1> DEFINE p == Pow2[w]
           h == Pow2[w - 1]
<1>1. h \in Nat \ {0} /\ p = 2 * h
  <2>1. w - 1 \in Nat /\ (w - 1) + 1 = w
    OBVIOUS
  <2> QED BY <2>1, Pow2Recursive, Pow2Positive
<1>2. n >= -h /\ n < p
  BY DEF Encodable
<1>3. Unsigned(n, w) = IF n < 0 THEN p + n ELSE n
  BY DEF Unsigned
<1> HIDE DEF p, h
<1>4. CASE n < 0
  <2>1. p + n \in 0 .. p - 1
    BY <1>1, <1>2, <1>4
  <2>2. n = p * (-1) + (p + n)
    BY <1>1
  <2>3. n % p = p + n
    BY <1>1, <2>1, <2>2
  <2> QED BY <1>3, <1>4, <2>1, <2>3 DEF p
<1>5. CASE ~ (n < 0)
  <2>1. n \in 0 .. p - 1
    BY <1>1, <1>2, <1>5
  <2>2. n % p = n
    BY <1>1, <2>1
  <2> QED BY <1>3, <1>5, <2>1, <2>2 DEF p
<1> QED BY <1>4, <1>5

\* A number that encodeNum does not raise on is decoded to itself, modulo the
\* two's complement of its bitwidth, from as many bytes as the bitwidth needs.
THEOREM NumbersExact ==
  ASSUME NEW n \in Int, NEW w \in Nat \ {0}, Encodable(n, w)
  PROVE  /\ decodeNum(encodeNum(n, w)) = n % Pow2[w]
         /\ Len(encodeNum(n, w)) = bitwidthToBytes(w)
<1> DEFINE u == Unsigned(n, w)
           len == bitwidthToBytes(w)
<1>1. len \in Nat /\ w <= 8 * len
  BY DEF bitwidthToBytes
<1>2. u \in 0 .. Pow2[w] - 1 /\ u = n % Pow2[w] /\ Pow2[w] \in Nat
  BY TwosComplement, Pow2Positive
<1>3. Pow2[w] <= Pow2[8 * len] /\ Pow2[8 * len] \in Nat
  <2>1. 8 * len - w \in Nat /\ w + (8 * len - w) = 8 * len /\ 8 * len \in Nat
    BY <1>1
  <2> HIDE DEF len
  <2>2. Pow2[w] <= Pow2[w + (8 * len - w)]
    BY <2>1, Pow2Grows
  <2> QED BY <2>1, <2>2, Pow2Positive
<1>4. encodeNum(n, w) = [i \in 1 .. len |-> (u \div Pow2[8 * (len - i)]) % 256]
  BY DEF encodeNum
<1> HIDE DEF u, len
<1>5. u \in Nat /\ u < Pow2[8 * len]
  BY <1>2, <1>3
<1>6. decodeNum([i \in 1 .. len |-> (u \div Pow2[8 * (len - i)]) % 256]) = u
  BY <1>1, <1>5, BigEndian
<1>7. Len([i \in 1 .. len |-> (u \div Pow2[8 * (len - i)]) % 256]) = len
  BY <1>1
<1> QED BY <1>2, <1>4, <1>6, <1>7 DEF len

-----------------------------------------------------------------------------
(* Types *)

\* TypeOK with the fields of the records, which EXCEPT needs.
TypeInv ==
    /\ TypeOK
    /\ main \in [job : Nat, at : Stages, next : Nat, closing : Nat]
    /\ switch = [s \in Switches |-> [pipeline |-> switch[s].pipeline,
                                     table |-> switch[s].table,
                                     primary |-> switch[s].primary]]
    /\ budget \in [faults : Nat, chatter : Nat]

LEMMA JobsTyped ==
    ASSUME jobs \in Programs
    PROVE  /\ Len(jobs) \in Nat /\ Len(jobs) <= MaxJobs /\ 1 \in DOMAIN jobs
           /\ DOMAIN jobs = 1 .. Len(jobs) /\ DOMAIN jobs \subseteq Conns
           /\ \A j \in DOMAIN jobs :
                 /\ jobs[j].kind \in {"program", "test"}
                 /\ jobs[j].switch \in Switches
                 /\ jobs[j].conf \in {"ok", "invalid", "bad p4info"}
                 /\ Len(jobs[j].entries) \in Nat
                 /\ DOMAIN jobs[j].entries = 1 .. Len(jobs[j].entries)
                 /\ \A i \in DOMAIN jobs[j].entries :
                       jobs[j].entries[i].kind \in {"table", "group", "clone"}
<1>1. Len(jobs) \in 1 .. MaxJobs /\ DOMAIN jobs = 1 .. Len(jobs)
  BY ProgramsAssumption DEF ProgramsAssumption
<1>2. \A j \in DOMAIN jobs :
          /\ jobs[j].kind \in {"program", "test"} /\ jobs[j].switch \in Switches
          /\ jobs[j].conf \in {"ok", "invalid", "bad p4info"}
          /\ Len(jobs[j].entries) \in Nat
          /\ DOMAIN jobs[j].entries = 1 .. Len(jobs[j].entries)
          /\ \A i \in DOMAIN jobs[j].entries :
                jobs[j].entries[i].kind \in {"table", "group", "clone"}
  BY ProgramsAssumption, Zenon DEF ProgramsAssumption
<1>3. MaxJobs \in Nat
  BY BoundsAssumption DEF BoundsAssumption
<1>4. Len(jobs) \in Nat /\ Len(jobs) <= MaxJobs /\ 1 \in DOMAIN jobs /\ DOMAIN jobs \subseteq Conns
  BY <1>1, <1>3 DEF Conns
<1> QED
  BY <1>1, <1>2, <1>4

LEMMA JobTyped ==
    ASSUME TypeInv
    PROVE  /\ main.job \in Conns /\ main.job \in 1 .. Len(jobs) /\ Len(jobs) \in Nat
           /\ DOMAIN jobs = 1 .. Len(jobs) /\ DOMAIN jobs \subseteq Conns
           /\ Job.kind \in {"program", "test"} /\ Job.switch \in Switches
           /\ Len(Job.entries) \in Nat /\ DOMAIN Job.entries = 1 .. Len(Job.entries)
BY JobsTyped DEF TypeInv, TypeOK, Job

LEMMA TypeInit == Init => TypeInv
<1> SUFFICES ASSUME Init PROVE TypeInv
  OBVIOUS
<1>1. main.job = 1 /\ main.at = "load" /\ main.next = 1 /\ main.closing = 1
  BY DEF Init
<1>2. main.job \in DOMAIN jobs /\ Len(Job.entries) \in Nat
  BY <1>1, JobsTyped DEF Init, Job
<1>3. \A s \in Switches : switch[s] = [pipeline |-> 0, table |-> {}, primary |-> 0]
  BY DEF Init
<1>4. switch = [s \in Switches |-> [pipeline |-> switch[s].pipeline,
                                     table |-> switch[s].table,
                                     primary |-> switch[s].primary]]
  BY <1>3 DEF Init
<1>5. TypeOK
  <2>1. main.job \in DOMAIN jobs /\ main.at \in Stages /\ main.next \in 1 .. Len(Job.entries) + 1
        /\ main.closing \in Nat
    BY <1>1, <1>2 DEF Stages
  <2>2. /\ DOMAIN switch = Switches
        /\ \A s \in Switches : switch[s].pipeline \in Conns \cup {0}
                               /\ switch[s].primary \in Conns \cup {0}
    BY <1>3 DEF Init
  <2>3. budget.faults \in 0 .. MaxFaults /\ budget.chatter \in 0 .. MaxChatter
    BY BoundsAssumption DEF Init, BoundsAssumption
  <2>4. connections \in Seq(Conns) /\ requests \in [Conns -> Seq({"arbitration", "sentinel"})]
        /\ inbound \in [Conns -> Seq(Kinds)]
    BY DEF Init
  <2>5. /\ jobs \in Programs /\ outcome \in [Conns -> Outcomes]
        /\ stream \in [Conns -> {"none", "open", "closed"}]
        /\ dispatcher \in [Conns -> {"none", "receiving", "ended"} \cup Kinds]
        /\ running \in [Conns -> BOOLEAN] /\ received \in [Conns -> [Kinds -> Nat]]
        /\ late \in [Conns -> Nat]
    BY DEF Init, Outcomes
  <2> QED
    BY <2>1, <2>2, <2>3, <2>4, <2>5 DEF TypeOK
<1> QED
  BY <1>1, <1>4, <1>5 DEF TypeInv, Init, Stages

\* A place of the main thread.
MainTyped(m) ==
    /\ m \in [job : Nat, at : Stages, next : Nat, closing : Nat]
    /\ m.job \in DOMAIN jobs
    /\ m.next \in 1 .. Len(jobs[m.job].entries) + 1

LEMMA MainIsTyped == ASSUME TypeInv PROVE MainTyped(main)
BY DEF TypeInv, TypeOK, MainTyped, Job

LEMMA NextJobTyped ==
    ASSUME TypeInv, NEW result PROVE MainTyped(NextJob(result))
<1>1. CASE main.job = Len(jobs) \/ result = "raised"
  BY <1>1, MainIsTyped DEF NextJob, MainTyped, Stages
<1>2. CASE ~(main.job = Len(jobs) \/ result = "raised")
  <2>1. main.job + 1 \in DOMAIN jobs
    BY <1>2, JobTyped
  <2>2. Len(jobs[main.job + 1].entries) \in Nat
    BY <2>1, JobsTyped DEF TypeInv, TypeOK
  <2> QED
    BY <1>2, <2>1, <2>2, JobTyped DEF NextJob, MainTyped, Stages
<1> QED
  BY <1>1, <1>2

LEMMA MainBuilt ==
    ASSUME TypeInv, NEW at \in Stages, NEW closing \in Nat,
           NEW next \in 1 .. Len(jobs[main.job].entries) + 1
    PROVE  MainTyped([job |-> main.job, at |-> at, next |-> next, closing |-> closing])
<1>1. main.job \in Nat /\ main.job \in DOMAIN jobs
      /\ Len(jobs[main.job].entries) \in Nat
  BY MainIsTyped, JobTyped DEF MainTyped, Job
<1>2. next \in Nat
  BY <1>1
<1> QED
  BY <1>1, <1>2 DEF MainTyped

LEMMA AtTyped ==
    ASSUME TypeInv, NEW stage \in Stages
    PROVE  MainTyped([main EXCEPT !.at = stage])
BY MainIsTyped DEF MainTyped

LEMMA FinishTyped ==
    ASSUME TypeInv, NEW result \in Outcomes, Finish(result)
    PROVE  MainTyped(main') /\ outcome' \in [Conns -> Outcomes]
BY NextJobTyped DEF Finish, TypeInv, TypeOK

LEMMA ShutdownTyped ==
    ASSUME TypeInv, NEW result \in Outcomes, Shutdown(result)
    PROVE  MainTyped(main') /\ outcome' \in [Conns -> Outcomes]
<1>1. Len(connections) \in Nat
  BY DEF TypeInv, TypeOK
<1>2. MainTyped(main')
  BY <1>1, MainIsTyped DEF Shutdown, MainTyped, Stages
<1> QED
  BY <1>2 DEF Shutdown, TypeInv, TypeOK

LEMMA RaiseTyped ==
    ASSUME TypeInv, Raise
    PROVE  MainTyped(main') /\ outcome' \in [Conns -> Outcomes]
BY FinishTyped, ShutdownTyped DEF Raise, Outcomes

\* What the actions of the main thread leave to show.
LEMMA TypeFromParts ==
    ASSUME TypeInv, UNCHANGED jobs, MainTyped(main'),
           outcome' \in [Conns -> Outcomes],
           connections' \in Seq(Conns),
           requests' \in [Conns -> Seq({"arbitration", "sentinel"})],
           stream' \in [Conns -> {"none", "open", "closed"}],
           inbound' \in [Conns -> Seq(Kinds)],
           dispatcher' \in [Conns -> {"none", "receiving", "ended"} \cup Kinds],
           running' \in [Conns -> BOOLEAN],
           received' \in [Conns -> [Kinds -> Nat]],
           late' \in [Conns -> Nat],
           switch' = [s \in Switches |-> [pipeline |-> switch'[s].pipeline,
                                          table |-> switch'[s].table,
                                          primary |-> switch'[s].primary]],
           \A s \in Switches : switch'[s].pipeline \in Conns \cup {0}
                               /\ switch'[s].primary \in Conns \cup {0},
           budget' \in [faults : 0 .. MaxFaults, chatter : 0 .. MaxChatter]
    PROVE  TypeInv'
<1>1. main' \in [job : Nat, at : Stages, next : Nat, closing : Nat]
  BY DEF MainTyped
<1>2. budget' \in [faults : Nat, chatter : Nat]
  BY BoundsAssumption DEF BoundsAssumption
<1>3. jobs' \in Programs /\ main'.job \in DOMAIN jobs' /\ main'.at \in Stages
      /\ main'.next \in 1 .. Len(Job'.entries) + 1 /\ main'.closing \in Nat
  BY DEF MainTyped, TypeInv, TypeOK, Job
<1>4. DOMAIN switch' = Switches
  OBVIOUS
<1>5. budget'.faults \in 0 .. MaxFaults /\ budget'.chatter \in 0 .. MaxChatter
  OBVIOUS
<1>6. TypeOK'
  BY <1>3, <1>4, <1>5 DEF TypeOK
<1> QED
  BY <1>1, <1>2, <1>6 DEF TypeInv

LEMMA PartsTyped ==
    ASSUME TypeInv
    PROVE  /\ outcome \in [Conns -> Outcomes] /\ connections \in Seq(Conns)
           /\ requests \in [Conns -> Seq({"arbitration", "sentinel"})]
           /\ stream \in [Conns -> {"none", "open", "closed"}]
           /\ inbound \in [Conns -> Seq(Kinds)]
           /\ dispatcher \in [Conns -> {"none", "receiving", "ended"} \cup Kinds]
           /\ running \in [Conns -> BOOLEAN]
           /\ received \in [Conns -> [Kinds -> Nat]]
           /\ late \in [Conns -> Nat]
           /\ switch = [s \in Switches |-> [pipeline |-> switch[s].pipeline,
                                            table |-> switch[s].table,
                                            primary |-> switch[s].primary]]
           /\ \A s \in Switches : switch[s].pipeline \in Conns \cup {0}
                                  /\ switch[s].primary \in Conns \cup {0}
           /\ budget \in [faults : 0 .. MaxFaults, chatter : 0 .. MaxChatter]
<1>1. budget \in [faults : 0 .. MaxFaults, chatter : 0 .. MaxChatter]
  BY DEF TypeInv, TypeOK
<1> QED
  BY <1>1 DEF TypeInv, TypeOK

LEMMA Appended ==
    ASSUME NEW S, NEW f \in [Conns -> Seq(S)], NEW c, NEW e \in S
    PROVE  [f EXCEPT ![c] = Append(@, e)] \in [Conns -> Seq(S)]
<1>1. CASE c \in Conns
  <2>1. Append(f[c], e) \in Seq(S)
    BY <1>1
  <2> QED
    BY <2>1
<1>2. CASE c \notin Conns
  BY <1>2
<1> QED
  BY <1>1, <1>2

\* What a call does to the budget.
LEMMA CallFailsTyped ==
    ASSUME TypeInv, NEW fault \in BOOLEAN, CallFails(fault)
    PROVE  budget' \in [faults : 0 .. MaxFaults, chatter : 0 .. MaxChatter]
<1>1. budget \in [faults : 0 .. MaxFaults, chatter : 0 .. MaxChatter] /\ MaxFaults \in Nat
  BY PartsTyped, BoundsAssumption DEF BoundsAssumption
<1> QED
  BY <1>1 DEF CallFails

\* A switch of which pipeline and table are written.
SwitchWritten(s, pipeline, table) ==
    switch' = [switch EXCEPT ![s].pipeline = pipeline, ![s].table = table]

LEMMA SwitchWrittenTyped ==
    ASSUME TypeInv, NEW s \in Switches, NEW j \in Conns \cup {0}, NEW table,
           SwitchWritten(s, j, table)
    PROVE  /\ switch' = [r \in Switches |-> [pipeline |-> switch'[r].pipeline,
                                             table |-> switch'[r].table,
                                             primary |-> switch'[r].primary]]
           /\ \A r \in Switches : switch'[r].pipeline \in Conns \cup {0}
                                  /\ switch'[r].primary \in Conns \cup {0}
           /\ switch'[s].pipeline = j /\ switch'[s].table = table
           /\ \A r \in Switches \ {s} : switch'[r] = switch[r]
<1>1. /\ switch = [r \in Switches |-> [pipeline |-> switch[r].pipeline,
                                       table |-> switch[r].table,
                                       primary |-> switch[r].primary]]
      /\ \A r \in Switches : switch[r].pipeline \in Conns \cup {0}
                             /\ switch[r].primary \in Conns \cup {0}
  BY PartsTyped
<1>2. DOMAIN switch' = Switches
  BY <1>1 DEF SwitchWritten
<1>3. switch'[s] = [pipeline |-> j, table |-> table, primary |-> switch[s].primary]
  <2>1. switch[s] = [pipeline |-> switch[s].pipeline, table |-> switch[s].table,
                     primary |-> switch[s].primary]
    BY <1>1
  <2>2. switch'[s] = [switch[s] EXCEPT !.pipeline = j, !.table = table]
    BY <1>1 DEF SwitchWritten
  <2> QED
    BY <2>1, <2>2
<1>4. \A r \in Switches \ {s} : switch'[r] = switch[r]
  BY <1>1 DEF SwitchWritten
<1>5. switch' = [r \in Switches |-> switch'[r]]
  BY <1>1 DEF SwitchWritten
<1>6. \A r \in Switches : switch'[r] = [pipeline |-> switch'[r].pipeline,
                                        table |-> switch'[r].table,
                                        primary |-> switch'[r].primary]
  BY <1>1, <1>3, <1>4
<1> QED
  BY <1>1, <1>3, <1>4, <1>5, <1>6

\* The ways of the two calls.
LEMMA SetPipelineWays ==
    ASSUME SetPipeline
    PROVE  /\ At("config") /\ UNCHANGED <<jobs, connections, connVars>>
           /\ \E fault \in BOOLEAN : CallFails(fault)
           /\ \/ Raise /\ UNCHANGED switch
              \/ /\ SwitchWritten(Job.switch, main.job, {})
                 /\ main' = [main EXCEPT !.at = "write"] /\ UNCHANGED outcome
BY DEF SetPipeline, SwitchWritten

LEMMA WriteEntryWays ==
    ASSUME TypeInv, WriteEntry
    PROVE  /\ At("write") /\ main.next <= Len(Job.entries)
           /\ UNCHANGED <<jobs, connections, connVars>>
           /\ UNCHANGED budget \/ \E fault \in BOOLEAN : CallFails(fault)
           /\ \/ Raise /\ UNCHANGED switch
              \/ /\ SwitchWritten(Job.switch, switch[Job.switch].pipeline,
                       Written(switch[Job.switch].table,
                               Build(Job.p4info, Job.entries[main.next])))
                 /\ CanBuild(Job.p4info, Job.entries[main.next])
                 /\ main' = [main EXCEPT !.next = @ + 1] /\ UNCHANGED outcome
<1> DEFINE e == Build(Job.p4info, Job.entries[main.next])
           table == Written(switch[Job.switch].table, e)
<1>1. CASE Raise /\ UNCHANGED <<switch, budget>>
  BY <1>1 DEF WriteEntry
<1>2. CASE \E fault \in BOOLEAN : CallFails(fault) /\ Raise /\ UNCHANGED switch
  BY <1>2 DEF WriteEntry
<1>3. CASE /\ \E fault \in BOOLEAN : CallFails(fault)
           /\ CanBuild(Job.p4info, Job.entries[main.next])
           /\ switch' = [switch EXCEPT ![Job.switch].table = table]
           /\ main' = [main EXCEPT !.next = @ + 1] /\ UNCHANGED outcome
  <2> HIDE DEF table
  <2>1. [switch EXCEPT ![Job.switch].table = table]
           = [switch EXCEPT ![Job.switch].pipeline = switch[Job.switch].pipeline,
                            ![Job.switch].table = table]
    BY PartsTyped, JobTyped
  <2>2. SwitchWritten(Job.switch, switch[Job.switch].pipeline, table)
    BY <1>3, <2>1 DEF SwitchWritten
  <2> QED
    BY <1>3, <2>2 DEF WriteEntry, table
<1> QED
  BY <1>1, <1>2, <1>3 DEF WriteEntry

LEMMA TypeMain == TypeInv /\ Main => TypeInv'
<1> SUFFICES ASSUME TypeInv, Main PROVE TypeInv'
  OBVIOUS
<1>1. CASE ConnectProgram \/ SetUp
  <2>1. CASE OpenConnection
    <3>1. MainTyped(main')
      BY <2>1, AtTyped DEF OpenConnection, Stages
    <3>2. connections' \in Seq(Conns)
      BY <2>1, PartsTyped, JobTyped DEF OpenConnection
    <3>3. /\ stream' \in [Conns -> {"none", "open", "closed"}]
          /\ dispatcher' \in [Conns -> {"none", "receiving", "ended"} \cup Kinds]
      BY <2>1, PartsTyped DEF OpenConnection
    <3> QED
      BY <1>1, <2>1, <3>1, <3>2, <3>3, PartsTyped, TypeFromParts
      DEF OpenConnection, ConnectProgram, SetUp
  <2>2. CASE \E result \in Outcomes : Finish(result) /\ UNCHANGED <<connections, stream, dispatcher>>
    <3>1. MainTyped(main') /\ outcome' \in [Conns -> Outcomes]
      BY <2>2, FinishTyped
    <3> QED
      BY <1>1, <2>2, <3>1, PartsTyped, TypeFromParts DEF ConnectProgram, SetUp
  <2> QED
    BY <1>1, <2>1, <2>2 DEF ConnectProgram, SetUp, Outcomes
<1>2. CASE Arbitrate
  <2>1. MainTyped(main')
    BY <1>2, AtTyped DEF Arbitrate, Stages
  <2>2. requests' \in [Conns -> Seq({"arbitration", "sentinel"})]
    BY <1>2, PartsTyped, Appended DEF Arbitrate
  <2> QED
    BY <1>2, <2>1, <2>2, PartsTyped, TypeFromParts DEF Arbitrate
<1>3. CASE GetArbitration
  <2>1. MainTyped(main')
    BY <1>3, AtTyped DEF GetArbitration, Stages
  <2>2. received' \in [Conns -> [Kinds -> Nat]]
    <3>1. "arbitration" \in Kinds /\ received[main.job] \in [Kinds -> Nat]
      BY PartsTyped, JobTyped DEF Kinds
    <3>2. received[main.job]["arbitration"] - 1 \in Nat
      BY <1>3, <3>1 DEF GetArbitration
    <3>3. [received[main.job] EXCEPT !["arbitration"] = @ - 1] \in [Kinds -> Nat]
      BY <3>1, <3>2
    <3> QED
      BY <1>3, <3>3, PartsTyped, JobTyped DEF GetArbitration
  <2> QED
    BY <1>3, <2>1, <2>2, PartsTyped, TypeFromParts DEF GetArbitration
<1>4. CASE SetPipeline
  <2>1. MainTyped(main') /\ outcome' \in [Conns -> Outcomes]
    BY <1>4, SetPipelineWays, AtTyped, RaiseTyped, PartsTyped DEF Stages
  <2>2. budget' \in [faults : 0 .. MaxFaults, chatter : 0 .. MaxChatter]
    BY <1>4, SetPipelineWays, CallFailsTyped
  <2>3. /\ switch' = [s \in Switches |-> [pipeline |-> switch'[s].pipeline,
                                          table |-> switch'[s].table,
                                          primary |-> switch'[s].primary]]
        /\ \A s \in Switches : switch'[s].pipeline \in Conns \cup {0}
                               /\ switch'[s].primary \in Conns \cup {0}
    BY <1>4, SetPipelineWays, SwitchWrittenTyped, JobTyped, PartsTyped
  <2> QED
    BY <1>4, <2>1, <2>2, <2>3, PartsTyped, TypeFromParts DEF SetPipeline, connVars
<1>5. CASE WriteEntry
  <2>1. MainTyped(main') /\ outcome' \in [Conns -> Outcomes]
    <3>1. CASE Raise
      BY <3>1, RaiseTyped
    <3>2. CASE main' = [main EXCEPT !.next = @ + 1] /\ UNCHANGED outcome
      <4>1. main.next + 1 \in 1 .. Len(jobs[main.job].entries) + 1
        BY <1>5, WriteEntryWays, JobTyped, MainIsTyped DEF MainTyped, Job
      <4>2. main' = [job |-> main.job, at |-> main.at, next |-> main.next + 1,
                     closing |-> main.closing]
        BY <3>2, MainIsTyped DEF MainTyped
      <4> QED
        <5>1. main.at \in Stages /\ main.closing \in Nat
          BY MainIsTyped DEF MainTyped
        <5>2. MainTyped(main')
          BY <4>1, <4>2, <5>1, MainBuilt
        <5> QED
          BY <3>2, <5>2, PartsTyped
    <3> QED
      BY <1>5, <3>1, <3>2, WriteEntryWays
  <2>2. budget' \in [faults : 0 .. MaxFaults, chatter : 0 .. MaxChatter]
    BY <1>5, WriteEntryWays, CallFailsTyped, PartsTyped
  <2>3. /\ switch' = [s \in Switches |-> [pipeline |-> switch'[s].pipeline,
                                          table |-> switch'[s].table,
                                          primary |-> switch'[s].primary]]
        /\ \A s \in Switches : switch'[s].pipeline \in Conns \cup {0}
                               /\ switch'[s].primary \in Conns \cup {0}
    BY <1>5, WriteEntryWays, SwitchWrittenTyped, JobTyped, PartsTyped
  <2> QED
    BY <1>5, <2>1, <2>2, <2>3, PartsTyped, WriteEntryWays, TypeFromParts DEF connVars
<1>6. CASE WritesDone \/ Verify
  <2>1. MainTyped(main') /\ outcome' \in [Conns -> Outcomes]
    <3>1. CASE \E result \in Outcomes : Shutdown(result)
      BY <3>1, ShutdownTyped
    <3>2. CASE main' = [main EXCEPT !.at = "verify"] /\ UNCHANGED outcome
      BY <3>2, AtTyped, PartsTyped DEF Stages
    <3> QED
      BY <1>6, <3>1, <3>2 DEF WritesDone, Verify, Outcomes
  <2> QED
    BY <1>6, <2>1, PartsTyped, TypeFromParts DEF WritesDone, Verify, connVars
<1>7. CASE Close
  <2>1. MainTyped(main')
    BY <1>7, AtTyped DEF Close, Stages
  <2>2. requests' \in [Conns -> Seq({"arbitration", "sentinel"})]
    BY <1>7, PartsTyped, Appended DEF Close
  <2> QED
    BY <1>7, <2>1, <2>2, PartsTyped, TypeFromParts DEF Close
<1>8. CASE Stop
  <2>1. MainTyped(main')
    <3>1. CASE main' = [main EXCEPT !.at = "close", !.closing = @ + 1]
      <4>1. main' = [job |-> main.job, at |-> "close", next |-> main.next,
                     closing |-> main.closing + 1]
        BY <3>1, MainIsTyped DEF MainTyped
      <4>2. main.closing + 1 \in Nat
        BY MainIsTyped DEF MainTyped
      <4>3. main.next \in 1 .. Len(jobs[main.job].entries) + 1
        BY MainIsTyped DEF MainTyped
      <4> QED
        BY <4>1, <4>2, <4>3, MainBuilt DEF Stages
    <3>2. CASE main' = NextJob(outcome[main.job])
      BY <3>2, NextJobTyped
    <3> QED
      BY <1>8, <3>1, <3>2 DEF Stop
  <2>2. running' \in [Conns -> BOOLEAN]
    BY <1>8, PartsTyped DEF Stop
  <2> QED
    BY <1>8, <2>1, <2>2, PartsTyped, TypeFromParts DEF Stop
<1> QED
  BY <1>1, <1>2, <1>3, <1>4, <1>5, <1>6, <1>7, <1>8 DEF Main

LEMMA TypeOthers ==
    ASSUME TypeInv, NEW c \in Conns,
           Dispatch(c) \/ Serve(c) \/ ServerSends(c) \/ StreamFails(c)
    PROVE  TypeInv'
<1> DEFINE D == {"none", "receiving", "ended"} \cup Kinds
<1>1. CASE DispatchReceive(c)
  <2>1. inbound[c] \in Seq(Kinds) /\ inbound[c] # <<>>
    BY <1>1, PartsTyped DEF DispatchReceive
  <2>2. Tail(inbound[c]) \in Seq(Kinds) /\ Head(inbound[c]) \in Kinds
    BY <2>1
  <2>3. inbound' \in [Conns -> Seq(Kinds)] /\ dispatcher' \in [Conns -> D]
    BY <1>1, <2>2, PartsTyped DEF DispatchReceive
  <2> QED
    BY <1>1, <2>3, PartsTyped, MainIsTyped, TypeFromParts DEF DispatchReceive
<1>2. CASE DispatchPut(c)
  <2>1. received' \in [Conns -> [Kinds -> Nat]] /\ late' \in [Conns -> Nat]
    <3>1. PICK k \in Kinds : k = dispatcher[c]
      BY <1>2 DEF DispatchPut
    <3>2. received[c] \in [Kinds -> Nat] /\ received[c][k] + 1 \in Nat /\ late[c] + 1 \in Nat
      BY <3>1, PartsTyped
    <3>3. [received[c] EXCEPT ![k] = @ + 1] \in [Kinds -> Nat]
      BY <3>2
    <3>4. received' \in {received, [received EXCEPT ![c] = [received[c] EXCEPT ![k] = @ + 1]]}
          /\ late' \in {late, [late EXCEPT ![c] = @ + 1]}
      <4>1. CASE dispatcher[c] = "unknown"
        BY <1>2, <4>1 DEF DispatchPut
      <4>2. CASE dispatcher[c] # "unknown"
        <5>1. received' = [received EXCEPT ![c][dispatcher[c]] = @ + 1]
              /\ late' = [late EXCEPT ![c] = IF running[c] THEN @ ELSE @ + 1]
          BY <1>2, <4>2 DEF DispatchPut
        <5>2. [late EXCEPT ![c] = @] = late
          BY PartsTyped
        <5> QED
          BY <3>1, <5>1, <5>2
      <4> QED
        BY <4>1, <4>2
    <3>5. received' \in [Conns -> [Kinds -> Nat]]
      BY <3>3, <3>4, PartsTyped
    <3>6. late' \in [Conns -> Nat]
      BY <3>2, <3>4, PartsTyped
    <3> QED
      BY <3>5, <3>6
  <2>2. dispatcher' \in [Conns -> D]
    BY <1>2, PartsTyped DEF DispatchPut
  <2> QED
    BY <1>2, <2>1, <2>2, PartsTyped, MainIsTyped, TypeFromParts DEF DispatchPut
<1>3. CASE DispatchEnd(c)
  <2>1. dispatcher' \in [Conns -> D]
    BY <1>3, PartsTyped DEF DispatchEnd
  <2> QED
    BY <1>3, <2>1, PartsTyped, MainIsTyped, TypeFromParts DEF DispatchEnd
<1>4. ASSUME NEW s, NEW p \in Conns \cup {0},
             switch' = [switch EXCEPT ![s].primary = p]
      PROVE  /\ switch' = [r \in Switches |-> [pipeline |-> switch'[r].pipeline,
                                               table |-> switch'[r].table,
                                               primary |-> switch'[r].primary]]
             /\ \A r \in Switches : switch'[r].pipeline \in Conns \cup {0}
                                    /\ switch'[r].primary \in Conns \cup {0}
  <2>1. ASSUME NEW r \in Switches
        PROVE  /\ switch'[r] = [pipeline |-> switch'[r].pipeline, table |-> switch'[r].table,
                                primary |-> switch'[r].primary]
               /\ switch'[r].pipeline \in Conns \cup {0}
               /\ switch'[r].primary \in Conns \cup {0}
    <3>1. switch[r] = [pipeline |-> switch[r].pipeline, table |-> switch[r].table,
                       primary |-> switch[r].primary] /\ r \in DOMAIN switch
          /\ switch[r].pipeline \in Conns \cup {0} /\ switch[r].primary \in Conns \cup {0}
      BY PartsTyped
    <3>2. CASE r = s
      <4>1. switch'[r] = [switch[r] EXCEPT !.primary = p]
        BY <1>4, <3>1, <3>2
      <4>2. switch'[r] = [pipeline |-> switch[r].pipeline, table |-> switch[r].table,
                          primary |-> p]
        BY <3>1, <4>1
      <4> QED
        BY <3>1, <4>2
    <3>3. CASE r # s
      <4>1. switch'[r] = switch[r]
        BY <1>4, <3>1, <3>3
      <4> QED
        BY <3>1, <4>1
    <3> QED
      BY <3>2, <3>3
  <2>2. switch' = [r \in Switches |-> switch'[r]]
    BY <1>4, PartsTyped
  <2> QED
    BY <2>1, <2>2
<1>5. ASSUME switch' = Released(c)
      PROVE  /\ switch' = [r \in Switches |-> [pipeline |-> switch'[r].pipeline,
                                               table |-> switch'[r].table,
                                               primary |-> switch'[r].primary]]
             /\ \A r \in Switches : switch'[r].pipeline \in Conns \cup {0}
                                    /\ switch'[r].primary \in Conns \cup {0}
  <2>1. switch' = [r \in Switches |-> switch'[r]]
    BY <1>5 DEF Released
  <2>2. \A r \in Switches :
            switch'[r] = [pipeline |-> switch[r].pipeline, table |-> switch[r].table,
                          primary |-> IF switch[r].primary = c THEN 0 ELSE switch[r].primary]
    <3> SUFFICES ASSUME NEW r \in Switches
                 PROVE  switch'[r] = [pipeline |-> switch[r].pipeline, table |-> switch[r].table,
                                      primary |-> IF switch[r].primary = c THEN 0
                                                  ELSE switch[r].primary]
      OBVIOUS
    <3>1. switch[r] = [pipeline |-> switch[r].pipeline, table |-> switch[r].table,
                       primary |-> switch[r].primary]
      BY PartsTyped
    <3>2. switch'[r] = IF switch[r].primary = c THEN [switch[r] EXCEPT !.primary = 0] ELSE switch[r]
      BY <1>5 DEF Released
    <3>3. [switch[r] EXCEPT !.primary = 0]
              = [pipeline |-> switch[r].pipeline, table |-> switch[r].table, primary |-> 0]
      BY <3>1
    <3> QED
      BY <3>1, <3>2, <3>3
  <2> QED
    BY <2>1, <2>2, PartsTyped
<1>6. CASE ServerArbitrate(c)
  <2>1. requests[c] \in Seq({"arbitration", "sentinel"}) /\ requests[c] # <<>>
    BY <1>6, PartsTyped DEF ServerArbitrate
  <2>2. Tail(requests[c]) \in Seq({"arbitration", "sentinel"})
    BY <2>1
  <2>3. requests' \in [Conns -> Seq({"arbitration", "sentinel"})]
    BY <1>6, <2>2, PartsTyped DEF ServerArbitrate
  <2>4. CASE /\ switch' = [switch EXCEPT ![jobs[c].switch].primary = c]
             /\ inbound' = [inbound EXCEPT ![c] = Append(@, "arbitration")]
             /\ UNCHANGED stream
    <3>1. inbound' \in [Conns -> Seq(Kinds)]
      BY <2>4, PartsTyped, Appended DEF Kinds
    <3> QED
      BY <1>4, <1>6, <2>3, <2>4, <3>1, PartsTyped, MainIsTyped, TypeFromParts DEF ServerArbitrate
  <2>5. CASE stream' = [stream EXCEPT ![c] = "closed"] /\ UNCHANGED <<switch, inbound>>
    <3>1. stream' \in [Conns -> {"none", "open", "closed"}]
      BY <2>5, PartsTyped
    <3> QED
      BY <1>6, <2>3, <2>5, <3>1, PartsTyped, MainIsTyped, TypeFromParts DEF ServerArbitrate
  <2> QED
    BY <1>6, <2>4, <2>5 DEF ServerArbitrate
<1>7. CASE ServerEnds(c)
  <2>1. requests[c] \in Seq({"arbitration", "sentinel"}) /\ requests[c] # <<>>
    BY <1>7, PartsTyped DEF ServerEnds
  <2>2. Tail(requests[c]) \in Seq({"arbitration", "sentinel"})
    BY <2>1
  <2>3. requests' \in [Conns -> Seq({"arbitration", "sentinel"})]
        /\ stream' \in [Conns -> {"none", "open", "closed"}]
    BY <1>7, <2>2, PartsTyped DEF ServerEnds
  <2>4. switch' = Released(c)
    BY <1>7 DEF ServerEnds
  <2> QED
    BY <1>5, <1>7, <2>3, <2>4, PartsTyped, MainIsTyped, TypeFromParts DEF ServerEnds
<1>8. CASE ServerSends(c)
  <2>1. inbound' \in [Conns -> Seq(Kinds)]
    BY <1>8, PartsTyped, Appended, BoundsAssumption DEF ServerSends, BoundsAssumption
  <2>2. budget' \in [faults : 0 .. MaxFaults, chatter : 0 .. MaxChatter]
    <3>1. budget \in [faults : 0 .. MaxFaults, chatter : 0 .. MaxChatter] /\ MaxChatter \in Nat
      BY PartsTyped, BoundsAssumption DEF BoundsAssumption
    <3>2. budget.chatter + 1 \in 0 .. MaxChatter
      BY <1>8, <3>1 DEF ServerSends
    <3> QED
      BY <1>8, <3>1, <3>2 DEF ServerSends
  <2> QED
    BY <1>8, <2>1, <2>2, PartsTyped, MainIsTyped, TypeFromParts DEF ServerSends
<1>9. CASE StreamFails(c)
  <2>1. stream' \in [Conns -> {"none", "open", "closed"}] /\ inbound' \in [Conns -> Seq(Kinds)]
    BY <1>9, PartsTyped DEF StreamFails
  <2>2. budget' \in [faults : 0 .. MaxFaults, chatter : 0 .. MaxChatter]
    <3>1. budget \in [faults : 0 .. MaxFaults, chatter : 0 .. MaxChatter] /\ MaxFaults \in Nat
      BY PartsTyped, BoundsAssumption DEF BoundsAssumption
    <3>2. budget.faults + 1 \in 0 .. MaxFaults
      BY <1>9, <3>1 DEF StreamFails
    <3> QED
      BY <1>9, <3>1, <3>2 DEF StreamFails
  <2>3. switch' = Released(c)
    BY <1>9 DEF StreamFails
  <2> QED
    BY <1>5, <1>9, <2>1, <2>2, <2>3, PartsTyped, MainIsTyped, TypeFromParts DEF StreamFails
<1> QED
  BY <1>1, <1>2, <1>3, <1>6, <1>7, <1>8, <1>9 DEF Dispatch, Serve

LEMMA TypeStep == TypeInv /\ [Next]_vars => TypeInv'
<1> SUFFICES ASSUME TypeInv, [Next]_vars PROVE TypeInv'
  OBVIOUS
<1>1. CASE Next
  BY <1>1, TypeMain, TypeOthers DEF Next
<1>2. CASE UNCHANGED vars
  <2>1. UNCHANGED <<jobs, main, outcome, connections, requests, stream, inbound, dispatcher,
                    running, received, late, switch, budget>>
    BY <1>2 DEF vars
  <2> QED
    BY <2>1, PartsTyped, MainIsTyped, TypeFromParts
<1> QED
  BY <1>1, <1>2

LEMMA TypeAlways == Spec => []TypeInv
BY TypeInit, TypeStep, PTL DEF Spec

\* Messages, queues, connections and tables keep their types, whatever programs,
\* configurations, faults and unasked messages there are.
THEOREM TypeCorrect == Spec => []TypeOK
<1>1. TypeInv => TypeOK
  BY DEF TypeInv
<1> QED
  BY <1>1, TypeAlways, PTL

-----------------------------------------------------------------------------
(* Late messages *)

\* A message may still be put after stop() only while it is in hand.
LateInv ==
    \A c \in Conns :
        /\ late[c] \in {0, 1}
        /\ running[c] \/ dispatcher[c] \in Kinds => late[c] = 0

LEMMA LateInit == Init => LateInv
BY DEF Init, LateInv

LEMMA LateStep == TypeInv /\ LateInv /\ [Next]_vars => LateInv'
<1> SUFFICES ASSUME TypeInv, LateInv, [Next]_vars PROVE LateInv'
  OBVIOUS
<1>1. CASE UNCHANGED <<running, dispatcher, late>>
  BY <1>1 DEF LateInv
<1>2. CASE OpenConnection /\ UNCHANGED <<running, late>>
  BY <1>2, PartsTyped DEF LateInv, OpenConnection, Kinds
<1>3. CASE Stop
  BY <1>3, PartsTyped DEF LateInv, Stop
<1>4. ASSUME NEW c \in Conns, Dispatch(c) PROVE LateInv'
  <2>1. CASE DispatchReceive(c)
    BY <2>1, PartsTyped DEF LateInv, DispatchReceive, Kinds
  <2>2. CASE DispatchPut(c)
    <3>1. late[c] = 0
      BY <2>2 DEF LateInv, DispatchPut
    <3>2. late' \in {late, [late EXCEPT ![c] = IF running[c] THEN 0 ELSE 1]} /\ UNCHANGED running
      <4>1. CASE dispatcher[c] = "unknown"
        BY <2>2, <4>1 DEF DispatchPut
      <4>2. CASE dispatcher[c] # "unknown"
        BY <2>2, <3>1, <4>2, PartsTyped DEF DispatchPut
      <4> QED
        BY <4>1, <4>2
    <3>3. dispatcher' = [dispatcher EXCEPT ![c] = "receiving"]
      BY <2>2 DEF DispatchPut
    <3> QED
      BY <3>1, <3>2, <3>3, PartsTyped DEF LateInv, Kinds
  <2>3. CASE DispatchEnd(c)
    BY <2>3, PartsTyped DEF LateInv, DispatchEnd, Kinds
  <2> QED
    BY <1>4, <2>1, <2>2, <2>3 DEF Dispatch
<1>5. CASE Main
  BY <1>1, <1>2, <1>3, <1>5
  DEF Main, ConnectProgram, SetUp, Arbitrate, GetArbitration, SetPipeline, WriteEntry,
      WritesDone, Verify, Close, connVars
<1>6. ASSUME NEW c \in Conns, Serve(c) \/ ServerSends(c) \/ StreamFails(c)
      PROVE  LateInv'
  BY <1>1, <1>6 DEF Serve, ServerArbitrate, ServerEnds, ServerSends, StreamFails
<1>7. CASE UNCHANGED vars
  BY <1>1, <1>7 DEF vars
<1> QED
  BY <1>4, <1>5, <1>6, <1>7 DEF Next

\* After stop() at most one message is put into a connection's queues, whatever the
\* servers send and however the threads interleave (StreamDispatcher).
THEOREM AtMostOneAlwaysLate == Spec => []AtMostOneLate
<1>1. LateInv => AtMostOneLate
  BY DEF LateInv, AtMostOneLate
<1> QED
  BY <1>1, LateInit, LateStep, TypeAlways, PTL DEF Spec

-----------------------------------------------------------------------------
(* Closed connections *)

Opened == {"arbitrate", "await", "config", "write", "verify", "close", "stop"}

\* The server has seen the end of connection c's requests, or will.
Closing(s, r, c) == s[c] = "closed" \/ \E i \in DOMAIN r[c] : r[c][i] = "sentinel"

\* Connections are opened for one job after the other; the one of a job under way is
\* the last in the list, and a program that shuts down closes that one.
ClosedInv ==
    /\ \A c \in Conns : stream[c] # "none" => c < main.job \/ (c = main.job /\ main.at # "load")
    /\ main.at \in Opened =>
          Len(connections) > 0 /\ connections[Len(connections)] = main.job
    /\ (main.at \in {"close", "stop"} /\ Job.kind = "program") => main.closing = Len(connections)
    /\ (main.at = "stop" /\ Job.kind = "program") => Closing(stream, requests, main.job)
    /\ FinallyClosed

LEMMA ClosedInit == Init => ClosedInv
BY DEF Init, ClosedInv, Opened, FinallyClosed


\* A connection whose closing is under way keeps it.
LEMMA ClosingKept ==
    ASSUME TypeInv, ClosedInv, [Next]_vars, NEW c \in Conns, Closing(stream, requests, c)
    PROVE  Closing(stream', requests', c)
<1>1. CASE UNCHANGED <<requests, stream>>
  BY <1>1 DEF Closing
<1>2. ASSUME NEW d \in Conns, NEW e,
             requests' = [requests EXCEPT ![d] = Append(@, e)], UNCHANGED stream
      PROVE  Closing(stream', requests', c)
  <2>1. requests[c] \in Seq({"arbitration", "sentinel"}) /\ stream'[c] = stream[c]
    BY <1>2, PartsTyped
  <2>2. requests'[c] = requests[c] \/ requests'[c] = Append(requests[c], e)
    BY <1>2, PartsTyped
  <2>3. \A i \in DOMAIN requests[c] : i \in DOMAIN requests'[c] /\ requests'[c][i] = requests[c][i]
    BY <2>1, <2>2
  <2> QED
    BY <2>1, <2>3 DEF Closing
<1>3. CASE OpenConnection /\ At("load") /\ UNCHANGED requests
  <2>1. stream[main.job] = "none"
    BY <1>3, JobTyped, PartsTyped DEF ClosedInv, At
  <2> QED
    BY <1>3, <2>1, PartsTyped DEF Closing, OpenConnection
<1>4. CASE Main
  <2>1. CASE ConnectProgram \/ SetUp
    BY <1>1, <1>3, <2>1 DEF ConnectProgram, SetUp
  <2>2. CASE Arbitrate
    BY <1>2, <2>2, JobTyped DEF Arbitrate
  <2>3. CASE Close
    <3>1. CASE connections[main.closing] \in Conns
      BY <1>2, <2>3, <3>1 DEF Close
    <3>2. CASE connections[main.closing] \notin Conns
      <4>1. requests' = requests /\ UNCHANGED stream
        BY <2>3, <3>2, PartsTyped DEF Close
      <4> QED
        BY <1>1, <4>1
    <3> QED
      BY <3>1, <3>2
  <2>4. CASE GetArbitration \/ SetPipeline \/ WriteEntry \/ WritesDone \/ Verify \/ Stop
    BY <1>1, <2>4 DEF GetArbitration, SetPipeline, WriteEntry, WritesDone, Verify, Stop, connVars
  <2> QED
    BY <1>4, <2>1, <2>2, <2>3, <2>4 DEF Main
<1>5. ASSUME NEW d \in Conns, Dispatch(d) \/ ServerSends(d) PROVE Closing(stream', requests', c)
  BY <1>1, <1>5 DEF Dispatch, DispatchReceive, DispatchPut, DispatchEnd, ServerSends
<1>6. ASSUME NEW d \in Conns, ServerArbitrate(d) PROVE Closing(stream', requests', c)
  <2>1. stream'[c] = stream[c] \/ stream'[c] = "closed"
    BY <1>6, PartsTyped DEF ServerArbitrate
  <2>2. CASE c # d
    <3>1. requests'[c] = requests[c]
      BY <1>6, <2>2, PartsTyped DEF ServerArbitrate
    <3> QED
      BY <2>1, <3>1 DEF Closing
  <2>3. CASE c = d
    <3>1. requests[c] \in Seq({"arbitration", "sentinel"}) /\ requests[c] # <<>>
          /\ requests[c][1] = "arbitration" /\ requests'[c] = Tail(requests[c])
      BY <1>6, <2>3, PartsTyped DEF ServerArbitrate
    <3>2. stream[c] = "open"
      BY <1>6, <2>3 DEF ServerArbitrate
    <3>3. PICK i \in DOMAIN requests[c] : requests[c][i] = "sentinel"
      BY <3>2 DEF Closing
    <3>4. i - 1 \in DOMAIN requests'[c] /\ requests'[c][i - 1] = "sentinel"
      BY <3>1, <3>3
    <3> QED
      BY <3>4 DEF Closing
  <2> QED
    BY <2>2, <2>3
<1>7. ASSUME NEW d \in Conns, ServerEnds(d) PROVE Closing(stream', requests', c)
  <2>1. c # d => requests'[c] = requests[c] /\ stream'[c] = stream[c]
    BY <1>7, PartsTyped DEF ServerEnds
  <2>2. stream'[d] = "closed"
    BY <1>7, PartsTyped DEF ServerEnds
  <2> QED
    BY <2>1, <2>2 DEF Closing
<1>8. ASSUME NEW d \in Conns, StreamFails(d) PROVE Closing(stream', requests', c)
  <2>1. requests' = requests /\ (stream'[c] = stream[c] \/ stream'[c] = "closed")
    BY <1>8, PartsTyped DEF StreamFails
  <2> QED
    BY <2>1 DEF Closing
<1>9. CASE UNCHANGED vars
  BY <1>1, <1>9 DEF vars
<1> QED
  BY <1>4, <1>5, <1>6, <1>7, <1>8, <1>9 DEF Next, Serve

\* stop() is for ever.
LEMMA StoppedKept ==
    ASSUME TypeInv, [Next]_vars, NEW c \in Conns, ~running[c]
    PROVE  ~running'[c]
<1>1. CASE Stop
  BY <1>1, PartsTyped DEF Stop
<1>2. CASE UNCHANGED running
  BY <1>2
<1> QED
  BY <1>1, <1>2
  DEF Next, Main, ConnectProgram, SetUp, Arbitrate, GetArbitration, SetPipeline, WriteEntry,
      WritesDone, Verify, Close, Dispatch, DispatchReceive, DispatchPut, DispatchEnd, Serve,
      ServerArbitrate, ServerEnds, ServerSends, StreamFails, vars, connVars

\* The moves of the main thread, as far as its connections go.
Goes ==
    /\ main' = [main EXCEPT !.at = main'.at, !.next = main'.next]
    /\ main.at \in {"arbitrate", "await", "config", "write"}
    /\ main'.at \in {"await", "config", "write", "verify"}

LEMMA MainMoves ==
    ASSUME TypeInv, Main
    PROVE  \/ At("load") /\ OpenConnection
           \/ /\ \E result \in Outcomes : Finish(result)
              /\ At("load") \/ Job.kind = "test"
              /\ UNCHANGED <<connections, stream>>
           \/ /\ \E result \in Outcomes : Shutdown(result)
              /\ main.at \in Opened /\ UNCHANGED <<connections, stream>>
           \/ Goes /\ UNCHANGED <<connections, stream>>
           \/ Close
           \/ Stop
<1> DEFINE To(at, next) == main' = [main EXCEPT !.at = at, !.next = next]
<1>0. main = [job |-> main.job, at |-> main.at, next |-> main.next, closing |-> main.closing]
  BY MainIsTyped DEF MainTyped
<1>1. CASE ConnectProgram \/ SetUp
  BY <1>1 DEF ConnectProgram, SetUp, Outcomes
<1>2. CASE Arbitrate \/ GetArbitration
  <2>1. main' = [main EXCEPT !.at = main'.at, !.next = main'.next]
    BY <1>0, <1>2 DEF Arbitrate, GetArbitration
  <2>2. main'.at \in {"await", "config"}
    BY <1>0, <1>2 DEF Arbitrate, GetArbitration
  <2> QED
    BY <1>2, <2>1, <2>2 DEF Arbitrate, GetArbitration, At, Goes
<1>3. CASE Raise /\ main.at \in {"config", "write"} /\ UNCHANGED <<connections, stream>>
  BY <1>3, JobTyped DEF Raise, Opened, Outcomes
<1>4. CASE SetPipeline
  <2>1. CASE main' = [main EXCEPT !.at = "write"]
    <3>1. main' = [main EXCEPT !.at = main'.at, !.next = main'.next] /\ main'.at = "write"
      BY <1>0, <2>1
    <3> QED
      BY <1>4, <3>1, SetPipelineWays DEF At, Goes, connVars
  <2> QED
    BY <1>3, <1>4, <2>1, SetPipelineWays DEF At, connVars
<1>5. CASE WriteEntry
  <2>1. CASE main' = [main EXCEPT !.next = @ + 1]
    <3>1. main' = [main EXCEPT !.at = main'.at, !.next = main'.next] /\ main'.at = main.at
      BY <1>0, <2>1
    <3> QED
      BY <1>5, <3>1, WriteEntryWays DEF At, Goes, connVars
  <2> QED
    BY <1>3, <1>5, <2>1, WriteEntryWays DEF At, connVars
<1>6. CASE WritesDone
  <2>1. CASE main' = [main EXCEPT !.at = "verify"]
    <3>1. main' = [main EXCEPT !.at = main'.at, !.next = main'.next] /\ main'.at = "verify"
      BY <1>0, <2>1
    <3> QED
      BY <1>6, <3>1 DEF WritesDone, At, Goes, connVars
  <2> QED
    BY <1>6, <2>1 DEF WritesDone, At, Opened, Outcomes, connVars
<1>7. CASE Verify
  BY <1>7 DEF Verify, At, Opened, Outcomes, connVars
<1> QED
  BY <1>1, <1>2, <1>4, <1>5, <1>6, <1>7 DEF Main


\* Where the main thread goes from one job to the next, or ends.
LEMMA NextJobMoves ==
    ASSUME TypeInv, NEW result
    PROVE  \/ NextJob(result).job = main.job + 1 /\ NextJob(result).at = "load"
           \/ NextJob(result).job = main.job /\ NextJob(result).at = "done"
BY MainIsTyped DEF NextJob, MainTyped

LEMMA ClosedStep == TypeInv /\ ClosedInv /\ [Next]_vars => ClosedInv'
<1> SUFFICES ASSUME TypeInv, ClosedInv, [Next]_vars PROVE ClosedInv'
  OBVIOUS
<1>0. /\ main.job \in Conns /\ main.job \in Nat /\ main.job + 1 # main.job
      /\ \A c \in Conns : c \in Nat /\ stream[c] \in {"none", "open", "closed"}
  BY JobTyped, PartsTyped DEF Conns
<1>1. UNCHANGED jobs
  BY DEF Next, Main, ConnectProgram, SetUp, Arbitrate, GetArbitration, SetPipeline, WriteEntry,
         WritesDone, Verify, Close, Stop, Dispatch, DispatchReceive, DispatchPut, DispatchEnd,
         Serve, ServerArbitrate, ServerEnds, ServerSends, StreamFails, vars
<1>2. \A c \in Conns : /\ Closing(stream, requests, c) => Closing(stream', requests', c)
                       /\ ~running[c] => ~running'[c]
  BY ClosingKept, StoppedKept
\* What was closed stays closed.
<1>3. ASSUME NEW c \in Conns, stream[c] # "none", jobs[c].kind = "program",
             c < main.job \/ At("done")
      PROVE  ~running'[c] /\ Closing(stream', requests', c)
  BY <1>2, <1>3 DEF ClosedInv, FinallyClosed, Closing
<1>4. ASSUME \A c \in Conns : stream'[c] # "none" => stream[c] # "none",
             UNCHANGED <<main, connections>>
      PROVE  ClosedInv'
  <2>1. FinallyClosed'
    BY <1>1, <1>3, <1>4 DEF FinallyClosed, Closing, At
  <2>2. (main'.at = "stop" /\ Job'.kind = "program") => Closing(stream', requests', main'.job)
    BY <1>0, <1>1, <1>2, <1>4 DEF ClosedInv, Job
  <2> QED
    BY <1>1, <1>4, <2>1, <2>2 DEF ClosedInv, Job
<1>5. CASE At("load") /\ OpenConnection
  <2>1. main' = [main EXCEPT !.at = "arbitrate"] /\ main'.job = main.job /\ main'.at = "arbitrate"
    BY <1>5, MainIsTyped DEF OpenConnection, MainTyped
  <2>2. \A c \in Conns : stream'[c] # "none" => stream[c] # "none" \/ c = main.job
    BY <1>5, PartsTyped DEF OpenConnection
  <2>3. Len(connections') > 0 /\ connections'[Len(connections')] = main.job
    BY <1>5, PartsTyped, JobTyped DEF OpenConnection
  <2>4. \A c \in Conns : c < main'.job \/ At("done")' => c < main.job /\ c # main.job
    BY <1>0, <2>1 DEF At
  <2>5. FinallyClosed'
    BY <1>1, <1>3, <2>2, <2>4 DEF FinallyClosed, Closing
  <2> QED
    BY <1>0, <2>1, <2>2, <2>3, <2>5 DEF ClosedInv
\* The main thread leaves its job.
<1>6. ASSUME NEW result, main' = NextJob(result), UNCHANGED <<connections, stream>>,
             (stream[main.job] # "none" /\ jobs[main.job].kind = "program")
                 => ~running'[main.job] /\ Closing(stream', requests', main.job)
      PROVE  ClosedInv'
  <2>1. \/ main'.job = main.job + 1 /\ main'.at = "load"
        \/ main'.job = main.job /\ main'.at = "done"
    BY <1>6, NextJobMoves
  <2>2. \A c \in Conns : stream'[c] # "none" => c <= main.job
    BY <1>0, <1>6 DEF ClosedInv
  <2>3. FinallyClosed'
    <3> SUFFICES ASSUME NEW c \in Conns, stream'[c] # "none", jobs'[c].kind = "program"
                 PROVE  ~running'[c] /\ Closing(stream', requests', c)
      BY DEF FinallyClosed, Closing
    <3>1. CASE c = main.job
      BY <1>1, <1>6, <3>1
    <3>2. CASE c # main.job
      <4>1. c < main.job
        BY <1>0, <2>2, <3>2
      <4>2. stream[c] # "none" /\ jobs[c].kind = "program"
        BY <1>1, <1>6
      <4> QED
        BY <1>3, <4>1, <4>2
    <3> QED
      BY <3>1, <3>2
  <2>4. \A c \in Conns : stream'[c] # "none" =>
            c < main'.job \/ (c = main'.job /\ main'.at # "load")
    BY <1>0, <2>1, <2>2
  <2>5. main'.at \notin Opened
    BY <2>1 DEF Opened
  <2>6. main'.at \notin {"close", "stop"}
    BY <2>1
  <2> QED
    BY <2>3, <2>4, <2>5, <2>6 DEF ClosedInv, Opened
<1>7. ASSUME NEW result, Finish(result), At("load") \/ Job.kind = "test",
             UNCHANGED <<connections, stream>>
      PROVE  ClosedInv'
  <2>1. (stream[main.job] # "none" /\ jobs[main.job].kind = "program") => FALSE
    BY <1>0, <1>7 DEF ClosedInv, At, Job
  <2> QED
    BY <1>6, <1>7, <2>1 DEF Finish
\* It stays with its job, and opens nothing.
<1>8. ASSUME main.at \in Opened, main'.at \in Opened, main'.job = main.job,
             UNCHANGED <<connections, stream>>,
             (main'.at \in {"close", "stop"} /\ Job.kind = "program")
                 => main'.closing = Len(connections),
             (main'.at = "stop" /\ Job.kind = "program") => Closing(stream', requests', main.job)
      PROVE  ClosedInv'
  <2>1. Job' = Job
    BY <1>1, <1>8 DEF Job
  <2>2. FinallyClosed'
    BY <1>1, <1>3, <1>8 DEF FinallyClosed, Closing, At, Opened
  <2>3. \A c \in Conns : stream'[c] # "none" =>
            c < main'.job \/ (c = main'.job /\ main'.at # "load")
    BY <1>8 DEF ClosedInv, Opened
  <2> QED
    BY <1>8, <2>1, <2>2, <2>3 DEF ClosedInv
<1>9. ASSUME NEW result, Shutdown(result), main.at \in Opened, UNCHANGED <<connections, stream>>
      PROVE  ClosedInv'
  <2>1. /\ main'.at = "close" /\ main'.job = main.job
        /\ Job.kind = "program" => main'.closing = Len(connections)
    BY <1>9, MainIsTyped DEF Shutdown, MainTyped
  <2> QED
    BY <1>8, <1>9, <2>1 DEF Opened
<1>10. CASE Goes /\ UNCHANGED <<connections, stream>>
  <2>1. main'.job = main.job
    BY <1>10, MainIsTyped DEF Goes, MainTyped
  <2> QED
    BY <1>8, <1>10, <2>1 DEF Goes, Opened
<1>11. CASE Close
  <2>1. main'.at = "stop" /\ main'.job = main.job /\ main'.closing = main.closing
    BY <1>11, MainIsTyped DEF Close, MainTyped
  <2>2. Job.kind = "program" => main.closing = Len(connections) /\ connections[main.closing] = main.job
    BY <1>11 DEF Close, At, ClosedInv, Opened
  <2>3. Job.kind = "program" => Closing(stream', requests', main.job)
    <3> SUFFICES ASSUME Job.kind = "program" PROVE Closing(stream', requests', main.job)
      OBVIOUS
    <3>1. PICK j \in Conns : j = main.job
      BY <1>0
    <3>2. requests'[j] = Append(requests[j], "sentinel")
      BY <1>11, <2>2, <3>1, PartsTyped DEF Close
    <3>3. Len(requests[j]) + 1 \in DOMAIN requests'[j]
          /\ requests'[j][Len(requests[j]) + 1] = "sentinel"
      BY <3>1, <3>2, PartsTyped
    <3>4. Closing(stream', requests', j)
      BY <3>3 DEF Closing
    <3>5. main'.job = j
      BY <2>1, <3>1
    <3> QED
      BY <3>4, <3>1, <3>5
  <2> QED
    BY <1>8, <1>11, <2>1, <2>2, <2>3 DEF Close, At, Opened
<1>12. CASE Stop
  <2>0. Job.kind = "program" =>
            main.closing = Len(connections) /\ connections[main.closing] = main.job
    BY <1>12 DEF Stop, At, ClosedInv, Opened
  <2>1. CASE main.closing < Len(connections)
    <3>1. main'.at = "close" /\ main'.job = main.job
      BY <1>12, <2>1, MainIsTyped DEF Stop, MainTyped
    <3>2. Job.kind # "program"
      BY <2>0, <2>1, PartsTyped, MainIsTyped DEF MainTyped
    <3> QED
      BY <1>8, <1>12, <3>1, <3>2 DEF Stop, At, Opened
  <2>2. CASE ~(main.closing < Len(connections))
    <3>1. main' = NextJob(outcome[main.job])
      BY <1>12, <2>2 DEF Stop
    <3>2. Job.kind = "program" => ~running'[main.job]
      BY <1>0, <1>12, <2>0, PartsTyped DEF Stop
    <3>3. Job.kind = "program" => Closing(stream, requests, main.job)
      BY <1>12 DEF ClosedInv, Stop, At
    <3>4. PICK j \in Conns : j = main.job
      BY <1>0
    <3>5. Closing(stream, requests, j) => Closing(stream', requests', j)
      BY <1>2
    <3>6. UNCHANGED <<connections, stream>>
      BY <1>12 DEF Stop
    <3>7. Job.kind = "program" => requests' = requests /\ Closing(stream', requests', j)
      BY <1>12, <3>3, <3>4, <3>5 DEF Stop
    <3>8. jobs[main.job].kind = "program" => ~running'[main.job] /\ Closing(stream', requests', main.job)
      <4> SUFFICES ASSUME Job.kind = "program" PROVE ~running'[main.job] /\ Closing(stream', requests', main.job)
        BY DEF Job
      <4> QED
        BY <3>1, <3>2, <3>3, <3>4, <3>6, <3>7 DEF Closing
    <3> QED
      BY <1>6, <3>1, <3>6, <3>8
  <2> QED
    BY <2>1, <2>2
<1>13. CASE Main
  BY <1>5, <1>7, <1>9, <1>10, <1>11, <1>12, <1>13, MainMoves
<1>14. ASSUME NEW d \in Conns, Dispatch(d) \/ Serve(d) \/ ServerSends(d) \/ StreamFails(d)
       PROVE  ClosedInv'
  <2>1. UNCHANGED <<main, connections>>
    BY <1>14 DEF Dispatch, DispatchReceive, DispatchPut, DispatchEnd, Serve, ServerArbitrate,
                 ServerEnds, ServerSends, StreamFails
  <2>2. UNCHANGED stream \/ (stream[d] = "open" /\ stream' = [stream EXCEPT ![d] = "closed"])
    BY <1>14 DEF Dispatch, DispatchReceive, DispatchPut, DispatchEnd, Serve, ServerArbitrate,
                 ServerEnds, ServerSends, StreamFails
  <2>3. \A c \in Conns : stream'[c] # "none" => stream[c] # "none"
    BY <2>2, PartsTyped
  <2> QED
    BY <1>4, <2>1, <2>3
<1>15. CASE UNCHANGED vars
  BY <1>4, <1>15 DEF vars
<1> QED
  BY <1>13, <1>14, <1>15 DEF Next

\* Every program_switch that is over has stopped its dispatcher and closed its request
\* stream, by whichever way it left its `try', for any programs, faults and messages.
THEOREM FinallyAlwaysClosed == Spec => []FinallyClosed
<1>1. ClosedInv => FinallyClosed
  BY DEF ClosedInv
<1> QED
  BY <1>1, ClosedInit, ClosedStep, TypeAlways, PTL DEF Spec


-----------------------------------------------------------------------------
(* Tables *)

Before == {"load", "arbitrate", "await", "config", "write", "verify"}

\* What TablesAreConfigured says of a switch s with pipeline p, when jobs ended as in oc.
Holds(s, p, table, oc) ==
    IF p = 0 THEN table = {}
    ELSE /\ p \in DOMAIN jobs /\ jobs[p].switch = s
         /\ \E n \in 0 .. Len(jobs[p].entries) :
               /\ table = Configured(jobs[p], n)
               /\ oc[p] \in {"ok", "passed"} => n = Len(jobs[p].entries)

\* The job under way has written the entries before its next one, and no other job
\* writes; how it ended is known once it is past its entries and its packets.
TablesInv ==
    /\ \A s \in Switches : Holds(s, switch[s].pipeline, switch[s].table, outcome)
    /\ main.at \in {"write", "verify"} =>
          /\ switch[Job.switch].pipeline = main.job
          /\ switch[Job.switch].table = Configured(Job, main.next - 1)
          /\ main.at = "verify" => main.next = Len(Job.entries) + 1
    /\ \A c \in Conns : c > main.job => outcome[c] = "pending"
    /\ main.at \in Before => outcome[main.job] = "pending"
    /\ main.at \in {"load", "arbitrate", "await", "config"} => main.next = 1

LEMMA ConfiguredNone == \A job : Configured(job, 0) = {}
BY DEF Configured

\* One entry more, written.
LEMMA ConfiguredNext ==
    ASSUME NEW job, NEW n \in Nat
    PROVE  Configured(job, n + 1) = Written(Configured(job, n), Entity(job, n + 1))
<1> DEFINE Kept(i, m) == \A k \in i + 1 .. m : ~Replaces(Entity(job, k), Entity(job, i))
           e == Entity(job, n + 1)
<1>1. \A m : Configured(job, m) = {Entity(job, i) : i \in {i \in 1 .. m : Kept(i, m)}}
  BY DEF Configured
<1>2. Written(Configured(job, n), e) = {f \in Configured(job, n) : ~Replaces(e, f)} \cup {e}
  BY DEF Written
<1>3. \A i \in 1 .. n : Kept(i, n + 1) <=> Kept(i, n) /\ ~Replaces(e, Entity(job, i))
  <2> SUFFICES ASSUME NEW i \in 1 .. n
               PROVE  Kept(i, n + 1) <=> Kept(i, n) /\ ~Replaces(e, Entity(job, i))
    OBVIOUS
  <2>1. i + 1 .. n + 1 = (i + 1 .. n) \cup {n + 1}
    OBVIOUS
  <2> QED
    BY <2>1
<1>4. Kept(n + 1, n + 1)
  OBVIOUS
<1>5. 1 .. n + 1 = (1 .. n) \cup {n + 1}
  OBVIOUS
<1> HIDE DEF Kept
<1>6. ASSUME NEW x \in Configured(job, n + 1) PROVE x \in Written(Configured(job, n), e)
  <2>1. PICK i \in 1 .. n + 1 : x = Entity(job, i) /\ Kept(i, n + 1)
    BY <1>1
  <2>2. CASE i = n + 1
    BY <1>2, <2>1, <2>2
  <2>3. CASE i \in 1 .. n
    BY <1>1, <1>2, <1>3, <2>1, <2>3
  <2> QED
    BY <1>5, <2>1, <2>2, <2>3
<1>7. ASSUME NEW x \in Written(Configured(job, n), e) PROVE x \in Configured(job, n + 1)
  <2>1. CASE x = e
    BY <1>1, <1>4, <1>5, <2>1
  <2>2. CASE x \in Configured(job, n) /\ ~Replaces(e, x)
    <3>1. PICK i \in 1 .. n : x = Entity(job, i) /\ Kept(i, n)
      BY <1>1, <2>2
    <3>2. Kept(i, n + 1) /\ i \in 1 .. n + 1
      BY <1>3, <1>5, <2>2, <3>1
    <3> QED
      BY <1>1, <3>1, <3>2
  <2> QED
    BY <1>2, <2>1, <2>2
<1> QED
  BY <1>6, <1>7

LEMMA TablesInit == Init => TablesInv
<1> SUFFICES ASSUME Init PROVE TablesInv
  OBVIOUS
<1>1. main.job = 1 /\ main.at = "load" /\ main.next = 1 /\ 1 \in Conns
  <2>1. 1 \in DOMAIN jobs /\ DOMAIN jobs \subseteq Conns
    BY JobsTyped DEF Init
  <2> QED
    BY <2>1 DEF Init
<1>2. \A s \in Switches : Holds(s, switch[s].pipeline, switch[s].table, outcome)
  BY DEF Init, Holds
<1>3. \A c \in Conns : outcome[c] = "pending"
  BY DEF Init
<1> QED
  BY <1>1, <1>2, <1>3 DEF TablesInv, Before

LEMMA HoldsKept ==
    ASSUME NEW s, NEW p, NEW table, NEW oc, NEW after, Holds(s, p, table, oc),
           p # 0 => after[p] = oc[p] \/ after[p] \notin {"ok", "passed"}
    PROVE  Holds(s, p, table, after)
BY DEF Holds

\* Servers leave pipelines and tables alone.
LEMMA ServersKeepTables ==
    ASSUME TypeInv, NEW c \in Conns, Serve(c) \/ StreamFails(c)
    PROVE  \A s \in Switches : switch'[s].pipeline = switch[s].pipeline
                              /\ switch'[s].table = switch[s].table
<1>1. \A s \in Switches : switch[s] = [pipeline |-> switch[s].pipeline,
                                       table |-> switch[s].table,
                                       primary |-> switch[s].primary] /\ s \in DOMAIN switch
  BY PartsTyped
<1>2. ASSUME switch' = Released(c), NEW s \in Switches
      PROVE  switch'[s].pipeline = switch[s].pipeline /\ switch'[s].table = switch[s].table
  <2>1. switch'[s] = IF switch[s].primary = c THEN [switch[s] EXCEPT !.primary = 0]
                     ELSE switch[s]
    BY <1>2 DEF Released
  <2>2. switch[s] = [pipeline |-> switch[s].pipeline, table |-> switch[s].table,
                     primary |-> switch[s].primary]
    BY <1>1
  <2>3. [switch[s] EXCEPT !.primary = 0]
           = [pipeline |-> switch[s].pipeline, table |-> switch[s].table, primary |-> 0]
    BY <2>2
  <2> QED
    BY <2>1, <2>3
<1>3. ASSUME NEW r, switch' = [switch EXCEPT ![r].primary = c], NEW s \in Switches
      PROVE  switch'[s].pipeline = switch[s].pipeline /\ switch'[s].table = switch[s].table
  <2>1. CASE s = r
    <3>1. switch'[s] = [switch[s] EXCEPT !.primary = c]
      BY <1>1, <1>3, <2>1
    <3>2. switch[s] = [pipeline |-> switch[s].pipeline, table |-> switch[s].table,
                       primary |-> switch[s].primary]
      BY <1>1
    <3>3. [switch[s] EXCEPT !.primary = c]
             = [pipeline |-> switch[s].pipeline, table |-> switch[s].table, primary |-> c]
      BY <3>2
    <3> QED
      BY <3>1, <3>3
  <2>2. CASE s # r
    BY <1>1, <1>3, <2>2
  <2> QED
    BY <2>1, <2>2
<1>4. \/ UNCHANGED switch \/ switch' = Released(c)
      \/ switch' = [switch EXCEPT ![jobs[c].switch].primary = c]
  BY DEF Serve, ServerArbitrate, ServerEnds, StreamFails
<1> QED
  BY <1>2, <1>3, <1>4

LEMMA TablesStep == TypeInv /\ TablesInv /\ [Next]_vars => TablesInv'
<1> SUFFICES ASSUME TypeInv, TablesInv, [Next]_vars PROVE TablesInv'
  OBVIOUS
<1>0. UNCHANGED jobs
  BY DEF Next, Main, ConnectProgram, SetUp, Arbitrate, GetArbitration, SetPipeline, WriteEntry,
         WritesDone, Verify, Close, Stop, Dispatch, DispatchReceive, DispatchPut, DispatchEnd,
         Serve, ServerArbitrate, ServerEnds, ServerSends, StreamFails, vars
<1>1. \A j, n : Configured(jobs[j], n)' = Configured(jobs[j], n)
  BY <1>0 DEF Configured, Entity
<1>2. main.job \in Conns /\ main.job \in Nat /\ \A c \in Conns : c \in Nat
  BY JobTyped DEF Conns
<1>3. \A s \in Switches : Holds(s, switch[s].pipeline, switch[s].table, outcome)
  BY DEF TablesInv
<1>4. ASSUME \A s \in Switches : Holds(s, switch'[s].pipeline, switch'[s].table, outcome')
      PROVE  \A s \in Switches : Holds(s, switch[s].pipeline, switch[s].table, outcome)'
  BY <1>0, <1>1, <1>4 DEF Holds
\* No switch is written.
<1>5. ASSUME \A s \in Switches : switch'[s].pipeline = switch[s].pipeline
                                 /\ switch'[s].table = switch[s].table,
             \A s \in Switches : Holds(s, switch[s].pipeline, switch[s].table, outcome')
      PROVE  \A s \in Switches : Holds(s, switch[s].pipeline, switch[s].table, outcome)'
  BY <1>4, <1>5
<1>6. ASSUME UNCHANGED <<main, outcome>>,
             \A s \in Switches : switch'[s].pipeline = switch[s].pipeline
                                 /\ switch'[s].table = switch[s].table
      PROVE  TablesInv'
  <2>1. \A s \in Switches : Holds(s, switch[s].pipeline, switch[s].table, outcome)'
    BY <1>3, <1>5, <1>6
  <2>2. main.at \in {"write", "verify"} =>
            /\ switch'[Job.switch].pipeline = main.job
            /\ switch'[Job.switch].table = Configured(Job, main.next - 1)
            /\ main.at = "verify" => main.next = Len(Job.entries) + 1
    BY <1>6, JobTyped DEF TablesInv
  <2>3. Job' = Job
    BY <1>0, <1>6 DEF Job
  <2>4. main'.at \in {"write", "verify"} =>
            /\ switch'[Job'.switch].pipeline = main'.job
            /\ switch'[Job'.switch].table = Configured(Job, main.next - 1)'
            /\ main'.at = "verify" => main'.next = Len(Job'.entries) + 1
    BY <1>0, <1>6, <2>2, <2>3 DEF Configured, Entity
  <2> QED
    BY <1>6, <2>1, <2>4 DEF TablesInv
\* The main thread goes on with a job it has not configured yet.
<1>7. ASSUME UNCHANGED <<outcome, switch>>, main'.at \in {"arbitrate", "await", "config"},
             main'.job = main.job, main'.next = main.next,
             main.at \in {"load", "arbitrate", "await"}
      PROVE  TablesInv'
  <2>1. \A s \in Switches : Holds(s, switch[s].pipeline, switch[s].table, outcome)'
    BY <1>3, <1>5, <1>7
  <2>2. main'.next = 1 /\ outcome'[main'.job] = "pending"
    BY <1>7 DEF TablesInv, Before
  <2>3. \A c \in Conns : c > main'.job => outcome'[c] = "pending"
    BY <1>7 DEF TablesInv
  <2> QED
    BY <1>7, <2>1, <2>2, <2>3 DEF TablesInv
\* How the job under way ended.
<1>8. ASSUME NEW result, outcome' = [outcome EXCEPT ![main.job] = result],
             result \in {"ok", "passed"} =>
                 main.at \in {"write", "verify"} /\ main.next = Len(Job.entries) + 1
      PROVE  \A s \in Switches : Holds(s, switch[s].pipeline, switch[s].table, outcome')
  <2> SUFFICES ASSUME NEW s \in Switches
               PROVE  Holds(s, switch[s].pipeline, switch[s].table, outcome')
    OBVIOUS
  <2>1. PICK p \in Conns \cup {0} : p = switch[s].pipeline
    BY PartsTyped
  <2>2. PICK table : table = switch[s].table
    OBVIOUS
  <2>3. Holds(s, p, table, outcome)
    BY <1>3, <2>1, <2>2
  <2>4. outcome'[main.job] = result /\ \A c \in Conns \ {main.job} : outcome'[c] = outcome[c]
    BY <1>2, <1>8, PartsTyped
  <2>5. CASE p # main.job \/ result \notin {"ok", "passed"}
    <3>1. p # 0 => outcome'[p] = outcome[p] \/ outcome'[p] \notin {"ok", "passed"}
      BY <2>4, <2>5
    <3>2. Holds(s, p, table, outcome')
      BY <2>3, <3>1, HoldsKept
    <3> QED
      BY <2>1, <2>2, <3>2
  <2>6. CASE p = main.job /\ result \in {"ok", "passed"}
    <3>1. p # 0 /\ p \in DOMAIN jobs /\ jobs[p].switch = s
      BY <1>2, <2>3, <2>6 DEF Holds, Conns
    <3>2. s = Job.switch /\ Len(Job.entries) \in Nat /\ jobs[p] = Job
      BY <2>6, <3>1, JobTyped DEF Job
    <3>3. main.next - 1 = Len(Job.entries)
      BY <1>8, <2>6, <3>2
    <3>4. table = Configured(jobs[p], main.next - 1)
      BY <1>8, <2>2, <2>6, <3>2 DEF TablesInv
    <3>5. Len(jobs[p].entries) \in 0 .. Len(jobs[p].entries)
          /\ table = Configured(jobs[p], Len(jobs[p].entries))
      BY <3>2, <3>3, <3>4
    <3>6. Holds(s, p, table, outcome')
      BY <3>1, <3>5 DEF Holds
    <3> QED
      BY <2>1, <2>2, <3>6
  <2> QED
    BY <2>5, <2>6
\* It leaves the job, or closes its connections.
<1>9. ASSUME UNCHANGED switch, \A c \in Conns : c # main.job => outcome'[c] = outcome[c],
             \A s \in Switches : Holds(s, switch[s].pipeline, switch[s].table, outcome'),
             \/ main'.job = main.job /\ main'.at \in {"close", "stop", "done"}
             \/ /\ main'.job = main.job + 1 /\ main'.job \in Conns
                /\ main'.at = "load" /\ main'.next = 1
      PROVE  TablesInv'
  <2>1. \A s \in Switches : Holds(s, switch[s].pipeline, switch[s].table, outcome)'
    BY <1>5, <1>9
  <2>2. \A c \in Conns : c > main'.job => outcome'[c] = "pending"
    <3> SUFFICES ASSUME NEW c \in Conns, c > main'.job PROVE outcome'[c] = "pending"
      OBVIOUS
    <3>1. c > main.job /\ c # main.job
      BY <1>2, <1>9
    <3> QED
      BY <1>9, <3>1 DEF TablesInv
  <2>3. main'.at \in Before => outcome'[main'.job] = "pending"
    <3> SUFFICES ASSUME main'.at \in Before PROVE outcome'[main'.job] = "pending"
      OBVIOUS
    <3>1. PICK c \in Conns : c = main'.job /\ c = main.job + 1
      BY <1>9 DEF Before
    <3>2. c > main.job /\ c # main.job
      BY <1>2, <3>1
    <3> QED
      BY <1>9, <3>1, <3>2 DEF TablesInv
  <2>4. main'.at \notin {"write", "verify"}
    BY <1>9
  <2>5. main'.at \in {"load", "arbitrate", "await", "config"} => main'.next = 1
    BY <1>9
  <2> QED
    BY <2>1, <2>2, <2>3, <2>4, <2>5 DEF TablesInv
<1>10. ASSUME NEW result
       PROVE  \/ NextJob(result).job = main.job /\ NextJob(result).at = "done"
              \/ /\ NextJob(result).job = main.job + 1 /\ NextJob(result).job \in Conns
                 /\ NextJob(result).at = "load" /\ NextJob(result).next = 1
  <2>1. NextJob(result).job \in Conns
    <3>1. NextJob(result).job \in DOMAIN jobs
      BY NextJobTyped DEF MainTyped
    <3> QED
      BY <3>1, JobTyped
  <2> QED
    BY <2>1, MainIsTyped DEF NextJob, MainTyped
<1>11. ASSUME NEW result, Finish(result) \/ Shutdown(result), UNCHANGED switch,
              result \in {"ok", "passed"} =>
                  main.at \in {"write", "verify"} /\ main.next = Len(Job.entries) + 1
       PROVE  TablesInv'
  <2>1. outcome' = [outcome EXCEPT ![main.job] = result]
    BY <1>11 DEF Finish, Shutdown
  <2>2. \A s \in Switches : Holds(s, switch[s].pipeline, switch[s].table, outcome')
    BY <1>8, <1>11, <2>1
  <2>3. \A c \in Conns : c # main.job => outcome'[c] = outcome[c]
    BY <2>1, PartsTyped
  <2>4. CASE Finish(result)
    <3>1. main' = NextJob(result)
      BY <2>4 DEF Finish
    <3> QED
      BY <1>9, <1>10, <1>11, <2>2, <2>3, <3>1
  <2>5. CASE Shutdown(result)
    <3>1. main'.job = main.job /\ main'.at = "close"
      BY <2>5, MainIsTyped DEF Shutdown, MainTyped
    <3> QED
      BY <1>9, <1>11, <2>2, <2>3, <3>1
  <2> QED
    BY <1>11, <2>4, <2>5
<1>12. CASE Raise /\ UNCHANGED switch
  BY <1>11, <1>12 DEF Raise
<1>13. CASE ConnectProgram \/ SetUp
  <2>1. CASE OpenConnection
    <3>1. main'.at = "arbitrate" /\ main'.job = main.job /\ main'.next = main.next
      BY <2>1, MainIsTyped DEF OpenConnection, MainTyped
    <3> QED
      BY <1>7, <1>13, <2>1, <3>1 DEF OpenConnection, ConnectProgram, SetUp, At
  <2>2. CASE \E result \in {"invalid", "raised", "error"} : Finish(result)
    BY <1>11, <1>13, <2>2 DEF ConnectProgram, SetUp
  <2> QED
    BY <1>13, <2>1, <2>2 DEF ConnectProgram, SetUp
<1>14. CASE Arbitrate \/ GetArbitration
  <2>1. main'.at \in {"await", "config"} /\ main'.job = main.job /\ main'.next = main.next
    BY <1>14, MainIsTyped DEF Arbitrate, GetArbitration, MainTyped
  <2> QED
    BY <1>7, <1>14, <2>1 DEF Arbitrate, GetArbitration, At
\* A call that succeeded: the switch of the job holds the entries before the next.
<1>15. ASSUME NEW table, NEW n \in 0 .. Len(Job.entries),
              SwitchWritten(Job.switch, main.job, table), table = Configured(Job, n),
              main'.at = "write", main'.job = main.job, main'.next = n + 1,
              UNCHANGED outcome, main.at \in {"config", "write"}
       PROVE  TablesInv'
  <2>1. Job.switch \in Switches /\ main.job \in Conns \cup {0}
    BY JobTyped
  <2>2. /\ switch'[Job.switch].pipeline = main.job /\ switch'[Job.switch].table = table
        /\ \A r \in Switches \ {Job.switch} : switch'[r] = switch[r]
    <3>1. PICK s \in Switches, j \in Conns \cup {0} : s = Job.switch /\ j = main.job
      BY <2>1
    <3>2. SwitchWritten(s, j, table)
      BY <1>15, <3>1
    <3>3. /\ switch'[s].pipeline = j /\ switch'[s].table = table
          /\ \A r \in Switches \ {s} : switch'[r] = switch[r]
      BY <3>2, SwitchWrittenTyped
    <3> QED
      BY <3>1, <3>3
  <2>3. outcome[main.job] = "pending"
    BY <1>15 DEF TablesInv, Before
  <2>4. \A s \in Switches : Holds(s, switch'[s].pipeline, switch'[s].table, outcome')
    <3> SUFFICES ASSUME NEW s \in Switches
                 PROVE  Holds(s, switch'[s].pipeline, switch'[s].table, outcome')
      OBVIOUS
    <3>1. CASE s = Job.switch
      <4>1. main.job \in DOMAIN jobs /\ jobs[main.job] = Job /\ main.job # 0
        BY <1>2, JobTyped DEF Job, Conns
      <4>2. Holds(s, main.job, table, outcome')
        BY <1>15, <2>3, <3>1, <4>1 DEF Holds
      <4> QED
        BY <2>2, <3>1, <4>2
    <3>2. CASE s # Job.switch
      BY <1>3, <1>15, <2>2, <3>2
    <3> QED
      BY <3>1, <3>2
  <2>5. \A s \in Switches : Holds(s, switch[s].pipeline, switch[s].table, outcome)'
    BY <1>4, <2>4
  <2>6. Job' = Job
    BY <1>0, <1>15 DEF Job
  <2>7. main'.next - 1 = n
    BY <1>15, JobTyped
  <2>8. /\ switch'[Job'.switch].pipeline = main'.job
        /\ switch'[Job'.switch].table = Configured(Job, main.next - 1)'
    <3>1. switch'[Job'.switch].table = Configured(Job', main'.next - 1)
      BY <1>15, <2>2, <2>6, <2>7
    <3> QED
      BY <1>0, <1>15, <2>2, <2>6, <3>1 DEF Configured, Entity
  <2>9. \A c \in Conns : c > main'.job => outcome'[c] = "pending"
    BY <1>15 DEF TablesInv
  <2> QED
    BY <1>15, <2>3, <2>5, <2>8, <2>9 DEF TablesInv
<1>16. CASE SetPipeline
  <2>1. CASE SwitchWritten(Job.switch, main.job, {}) /\ main' = [main EXCEPT !.at = "write"]
             /\ UNCHANGED outcome
    <3>1. main'.at = "write" /\ main'.job = main.job /\ main'.next = main.next
      BY <2>1, MainIsTyped DEF MainTyped
    <3>2. main.next = 1 /\ main.at = "config"
      BY <1>16 DEF SetPipeline, At, TablesInv
    <3>3. 0 \in 0 .. Len(Job.entries) /\ {} = Configured(Job, 0) /\ main'.next = 0 + 1
      BY <3>1, <3>2, JobTyped, ConfiguredNone
    <3> QED
      BY <1>15, <2>1, <3>1, <3>2, <3>3
  <2> QED
    BY <1>12, <1>16, <2>1, SetPipelineWays
<1>17. CASE WriteEntry
  <2> DEFINE e == Build(Job.p4info, Job.entries[main.next])
  <2>1. CASE /\ SwitchWritten(Job.switch, switch[Job.switch].pipeline,
                              Written(switch[Job.switch].table, e))
             /\ main' = [main EXCEPT !.next = @ + 1] /\ UNCHANGED outcome
    <3>1. main.at = "write" /\ main.next <= Len(Job.entries) /\ main.next \in 1 .. Len(Job.entries) + 1
      BY <1>17, MainIsTyped DEF WriteEntry, At, MainTyped, Job
    <3>2. /\ switch[Job.switch].pipeline = main.job
          /\ switch[Job.switch].table = Configured(Job, main.next - 1)
      BY <3>1 DEF TablesInv
    <3>3. e = Entity(Job, main.next)
      BY DEF Entity, Job
    <3>4. main.next - 1 \in Nat /\ (main.next - 1) + 1 = main.next
      BY <3>1
    <3>5. Written(Configured(Job, main.next - 1), Entity(Job, main.next))
             = Configured(Job, main.next)
      <4>1. \A n \in Nat : Configured(Job, n + 1)
                              = Written(Configured(Job, n), Entity(Job, n + 1))
        BY ConfiguredNext
      <4> QED
        BY <3>4, <4>1
    <3> HIDE DEF e
    <3>6. SwitchWritten(Job.switch, main.job, Configured(Job, main.next))
      BY <2>1, <3>2, <3>3, <3>5
    <3>7. main'.at = "write" /\ main'.job = main.job /\ main'.next = main.next + 1
      BY <2>1, <3>1, MainIsTyped DEF MainTyped
    <3>8. main.next \in 0 .. Len(Job.entries)
      BY <3>1, JobTyped
    <3> QED
      BY <1>15, <2>1, <3>1, <3>6, <3>7, <3>8
  <2> QED
    BY <1>12, <1>17, <2>1, WriteEntryWays
<1>18. CASE WritesDone
  <2>1. main.at = "write" /\ main.next = Len(Job.entries) + 1
    BY <1>18, MainIsTyped, JobTyped DEF WritesDone, At, MainTyped, Job
  <2>2. CASE Shutdown("ok")
    BY <1>11, <1>18, <2>1, <2>2 DEF WritesDone
  <2>3. CASE main' = [main EXCEPT !.at = "verify"] /\ UNCHANGED outcome
    <3>1. main'.at = "verify" /\ main'.job = main.job /\ main'.next = main.next
      BY <2>3, MainIsTyped DEF MainTyped
    <3>2. \A s \in Switches : Holds(s, switch[s].pipeline, switch[s].table, outcome)'
      BY <1>3, <1>5, <1>18, <2>3 DEF WritesDone
    <3>3. Job' = Job /\ UNCHANGED switch
      BY <1>0, <1>18, <3>1 DEF Job, WritesDone
    <3>4. /\ switch[Job.switch].pipeline = main.job
          /\ switch[Job.switch].table = Configured(Job, main.next - 1)
      BY <2>1 DEF TablesInv
    <3>5. /\ switch'[Job'.switch].pipeline = main'.job
          /\ switch'[Job'.switch].table = Configured(Job, main.next - 1)'
          /\ main'.next = Len(Job'.entries) + 1
      BY <1>0, <2>1, <3>1, <3>3, <3>4 DEF Configured, Entity
    <3>6. outcome'[main'.job] = "pending" /\ \A c \in Conns : c > main'.job => outcome'[c] = "pending"
      BY <2>1, <2>3, <3>1 DEF TablesInv, Before
    <3> QED
      BY <3>1, <3>2, <3>5, <3>6 DEF TablesInv
  <2> QED
    BY <1>18, <2>2, <2>3 DEF WritesDone
<1>19. CASE Verify
  <2>1. main.at = "verify" /\ main.next = Len(Job.entries) + 1
    BY <1>19 DEF Verify, At, TablesInv
  <2> QED
    BY <1>11, <1>19, <2>1 DEF Verify
<1>20. CASE Close \/ Stop
  <2>1. UNCHANGED <<outcome, switch>>
    BY <1>20 DEF Close, Stop
  <2>2. CASE main'.job = main.job /\ main'.at \in {"close", "stop"}
    BY <1>3, <1>9, <2>1, <2>2
  <2>3. CASE main' = NextJob(outcome[main.job])
    BY <1>3, <1>9, <1>10, <2>1, <2>3
  <2>4. CASE main' = [main EXCEPT !.at = "close", !.closing = @ + 1]
             \/ main' = [main EXCEPT !.at = "stop"]
    <3>1. main'.job = main.job /\ main'.at \in {"close", "stop"}
      BY <2>4, MainIsTyped DEF MainTyped
    <3> QED
      BY <2>2, <3>1
  <2> QED
    BY <1>20, <2>3, <2>4 DEF Close, Stop
<1>21. CASE Main
  BY <1>13, <1>14, <1>16, <1>17, <1>18, <1>19, <1>20, <1>21 DEF Main
\* A server only gives and takes the part of the primary.
<1>22. ASSUME NEW c \in Conns, Dispatch(c) \/ ServerSends(c) PROVE TablesInv'
  BY <1>6, <1>22 DEF Dispatch, DispatchReceive, DispatchPut, DispatchEnd, ServerSends
<1>23. ASSUME NEW c \in Conns, Serve(c) \/ StreamFails(c) PROVE TablesInv'
  <2>1. UNCHANGED <<main, outcome>>
    BY <1>23 DEF Serve, ServerArbitrate, ServerEnds, StreamFails
  <2> QED
    BY <1>6, <1>23, <2>1, ServersKeepTables
<1>24. CASE UNCHANGED vars
  BY <1>6, <1>24 DEF vars
<1> QED
  BY <1>21, <1>22, <1>23, <1>24 DEF Next

\* Whatever configurations there are, and whatever fails: a switch holds exactly what a
\* prefix of the entries of the job that gave it its pipeline amounts to, and all of them
\* once that job ended well (program_switch's loops, the tests of basic_fwd.py).
THEOREM TablesAlwaysConfigured == Spec => []TablesAreConfigured
<1>1. TypeInv /\ TablesInv => TablesAreConfigured
  <2> SUFFICES ASSUME TypeInv, TablesInv, NEW s \in Switches, NEW j, j = switch[s].pipeline
               PROVE  IF j = 0 THEN switch[s].table = {}
                      ELSE \E n \in 0 .. Len(jobs[j].entries) :
                              /\ switch[s].table = Configured(jobs[j], n)
                              /\ outcome[j] \in {"ok", "passed"} => n = Len(jobs[j].entries)
    BY DEF TablesAreConfigured
  <2> QED
    BY DEF TablesInv, Holds
<1> QED
  BY <1>1, TablesInit, TablesStep, TypeAlways, PTL DEF Spec

-----------------------------------------------------------------------------
(* Values *)

\* Each entity in a table was built of an entry that could be.
Built(p, table) ==
    \A e \in table : \E i \in DOMAIN jobs[p].entries :
        CanBuild(jobs[p].p4info, jobs[p].entries[i]) /\ e = Entity(jobs[p], i)

BuiltInv == \A s \in Switches : Built(switch[s].pipeline, switch[s].table)

LEMMA BuiltStep == TypeInv /\ TablesInv /\ BuiltInv /\ [Next]_vars => BuiltInv'
<1> SUFFICES ASSUME TypeInv, TablesInv, BuiltInv, [Next]_vars PROVE BuiltInv'
  OBVIOUS
<1>1. UNCHANGED jobs
  BY DEF Next, Main, ConnectProgram, SetUp, Arbitrate, GetArbitration, SetPipeline, WriteEntry,
         WritesDone, Verify, Close, Stop, Dispatch, DispatchReceive, DispatchPut, DispatchEnd,
         Serve, ServerArbitrate, ServerEnds, ServerSends, StreamFails, vars
<1>2. ASSUME \A s \in Switches : Built(switch'[s].pipeline, switch'[s].table)
      PROVE  BuiltInv'
  BY <1>1, <1>2 DEF BuiltInv, Built, Entity
<1>3. ASSUME \A s \in Switches : switch'[s].pipeline = switch[s].pipeline
                                 /\ switch'[s].table = switch[s].table
      PROVE  BuiltInv'
  BY <1>2, <1>3 DEF BuiltInv
<1>4. ASSUME NEW table, SwitchWritten(Job.switch, main.job, table), Built(main.job, table)
      PROVE  BuiltInv'
  <2>1. PICK s \in Switches, j \in Conns \cup {0} : s = Job.switch /\ j = main.job
    BY JobTyped
  <2>2. SwitchWritten(s, j, table)
    BY <1>4, <2>1
  <2>3. /\ switch'[s].pipeline = j /\ switch'[s].table = table
        /\ \A r \in Switches \ {s} : switch'[r] = switch[r]
    BY <2>2, SwitchWrittenTyped
  <2>4. ASSUME NEW r \in Switches PROVE Built(switch'[r].pipeline, switch'[r].table)
    <3>1. CASE r = s
      BY <1>4, <2>1, <2>3, <3>1
    <3>2. CASE r # s
      BY <2>3, <3>2 DEF BuiltInv
    <3> QED
      BY <3>1, <3>2
  <2> QED
    BY <1>2, <2>4
<1>5. CASE SetPipeline
  BY <1>3, <1>4, <1>5, SetPipelineWays DEF Built
<1>6. CASE WriteEntry
  <2> DEFINE e == Build(Job.p4info, Job.entries[main.next])
             table == Written(switch[Job.switch].table, e)
  <2>1. CASE /\ SwitchWritten(Job.switch, switch[Job.switch].pipeline, table)
             /\ CanBuild(Job.p4info, Job.entries[main.next])
    <3>1. main.at = "write" /\ main.next \in DOMAIN Job.entries
      <4>1. main.at = "write" /\ main.next <= Len(Job.entries)
            /\ main.next \in 1 .. Len(Job.entries) + 1
        BY <1>6, MainIsTyped DEF WriteEntry, At, MainTyped, Job
      <4> QED
        BY <4>1, JobTyped
    <3>2. switch[Job.switch].pipeline = main.job /\ Job.switch \in Switches
      BY <3>1, JobTyped DEF TablesInv
    <3>3. Built(main.job, switch[Job.switch].table)
      BY <3>2 DEF BuiltInv
    <3>4. e = Entity(Job, main.next) /\ Job = jobs[main.job]
      BY DEF Entity, Job
    <3> HIDE DEF e
    <3>5. \A f \in table : f = e \/ f \in switch[Job.switch].table
      BY DEF Written
    <3>6. Built(main.job, table)
      BY <2>1, <3>1, <3>3, <3>4, <3>5 DEF Built
    <3> HIDE DEF table
    <3> QED
      BY <1>4, <2>1, <3>2, <3>6
  <2> QED
    BY <1>3, <1>6, <2>1, WriteEntryWays
<1>7. CASE Main /\ ~SetPipeline /\ ~WriteEntry
  BY <1>3, <1>7 DEF Main, ConnectProgram, SetUp, Arbitrate, GetArbitration, WritesDone, Verify,
                    Close, Stop
<1>8. ASSUME NEW c \in Conns, Dispatch(c) \/ ServerSends(c) PROVE BuiltInv'
  BY <1>3, <1>8 DEF Dispatch, DispatchReceive, DispatchPut, DispatchEnd, ServerSends
<1>9. ASSUME NEW c \in Conns, Serve(c) \/ StreamFails(c) PROVE BuiltInv'
  BY <1>3, <1>9, ServersKeepTables
<1>10. CASE UNCHANGED vars
  BY <1>3, <1>10 DEF vars
<1> QED
  BY <1>5, <1>6, <1>7, <1>8, <1>9, <1>10 DEF Next

\* A parameter is exact where its entry could be built.
LEMMA ParamExact ==
    ASSUME NEW js \in Programs, NEW j \in DOMAIN js, NEW i \in DOMAIN js[j].entries,
           js[j].entries[i].kind = "table",
           CanBuildTableEntry(js[j].p4info, js[j].entries[i]),
           NEW b \in js[j].entries[i].params
    PROVE  Exact(js[j].p4info, js[j].entries[i].action, b,
                 ActionParamPb(CHOOSE p \in ActionParam(js[j].p4info, js[j].entries[i].action,
                                                       b.param) : TRUE, b.value))
<1> DEFINE info == js[j].p4info
           entry == js[j].entries[i]
           v == Unwrapped(b.value)
           ps == ActionParam(info, entry.action, b.param)
           p == CHOOSE p \in ps : TRUE
           a == ActionParamPb(p, b.value)
<1>1. PICK q \in ps : CanEncode(b.value, q.bitwidth)
  BY DEF CanBuildTableEntry
<1>2. \A x \in ps : /\ x.name = b.param /\ x.bitwidth \in Nat \ {0}
                    /\ x = q
  <2> SUFFICES ASSUME NEW x \in ps
               PROVE  x.name = b.param /\ x.bitwidth \in Nat \ {0} /\ x = q
    OBVIOUS
  <2>1. PICK c \in info.actions : c.name = entry.action /\ x \in c.params /\ x.name = b.param
    BY DEF ActionParam
  <2>2. PICK d \in info.actions : d.name = entry.action /\ q \in d.params /\ q.name = b.param
    BY <1>1 DEF ActionParam
  <2>3. c = d
    BY <2>1, <2>2, P4InfoAssumption DEF P4InfoAssumption
  <2>4. x = q /\ x.bitwidth \in Nat \ {0}
    BY <2>1, <2>2, <2>3, P4InfoAssumption DEF P4InfoAssumption
  <2> QED
    BY <2>1, <2>4
<1>3. p \in ps /\ p = q
  <2>1. p \in ps
    BY <1>1
  <2> QED
    BY <1>2, <2>1
<1>4. a.param = b.param /\ a.bytes = encode(b.value, q.bitwidth)
  <2> HIDE DEF p
  <2> QED
    BY <1>2, <1>3 DEF ActionParamPb
<1>5. ASSUME v.kind = "number"
      PROVE  /\ decodeNum(a.bytes) = v.number % Pow2[q.bitwidth]
             /\ Len(a.bytes) = bitwidthToBytes(q.bitwidth)
  <2>1. v.number \in Int
    BY <1>5, P4InfoAssumption DEF P4InfoAssumption
  <2>2. Encodable(v.number, q.bitwidth)
    BY <1>1, <1>5 DEF CanEncode
  <2>3. a.bytes = encodeNum(v.number, q.bitwidth)
    BY <1>4, <1>5 DEF encode
  <2>4. q.bitwidth \in Nat \ {0}
    BY <1>1, <1>2
  <2> QED
    BY <2>1, <2>2, <2>3, <2>4, NumbersExact
<1> QED
  BY <1>1, <1>4, <1>5 DEF Exact

\* Whatever the configurations: a number of one reaches the switch as that number, in two's
\* complement, in as many bytes as its parameter has (convert.encode).
THEOREM ValuesAlwaysExact == Spec => []ValuesExact
<1>1. Init => BuiltInv
  BY DEF Init, BuiltInv, Built
<1>2. TypeInv /\ TablesInv /\ BuiltInv => ValuesExact
  <2> SUFFICES ASSUME TypeInv, TablesInv, BuiltInv,
                      NEW s \in Switches, NEW e \in switch[s].table, e.kind = "table",
                      NEW j, j = switch[s].pipeline
               PROVE  \E i \in DOMAIN jobs[j].entries :
                        /\ jobs[j].entries[i].kind = "table"
                        /\ \A a \in e.params : \E b \in jobs[j].entries[i].params :
                             Exact(jobs[j].p4info, jobs[j].entries[i].action, b, a)
    BY Zenon DEF ValuesExact
  <2>1. j \in DOMAIN jobs /\ jobs \in Programs
    BY DEF TablesInv, Holds, TypeInv, TypeOK
  <2>2. PICK i \in DOMAIN jobs[j].entries :
               CanBuild(jobs[j].p4info, jobs[j].entries[i]) /\ e = Entity(jobs[j], i)
    BY DEF BuiltInv, Built
  <2> DEFINE info == jobs[j].p4info
             entry == jobs[j].entries[i]
  <2>3. entry.kind \in {"table", "group", "clone"}
    BY <2>1, <2>2, JobsTyped
  <2>4. e = Build(info, entry)
    BY <2>2 DEF Entity
  <2>5. entry.kind = "table" /\ e = BuildTableEntry(info, entry)
    BY <2>3, <2>4 DEF Build, BuildMulticastGroupEntry, BuildCloneSessionEntry
  <2>6. CanBuildTableEntry(info, entry)
    BY <2>2, <2>5 DEF CanBuild
  <2>7. ASSUME NEW a \in e.params
        PROVE  \E b \in entry.params : Exact(info, entry.action, b, a)
    <3>1. PICK b \in entry.params :
                 a = ActionParamPb(CHOOSE p \in ActionParam(info, entry.action, b.param) : TRUE,
                                   b.value)
      BY <2>5, <2>7 DEF BuildTableEntry
    <3>2. Exact(info, entry.action, b,
                ActionParamPb(CHOOSE p \in ActionParam(info, entry.action, b.param) : TRUE,
                              b.value))
      BY <2>1, <2>2, <2>5, <2>6, ParamExact
    <3> QED
      BY <3>1, <3>2
  <2> QED
    BY <2>2, <2>5, <2>7
<1> QED
  BY <1>1, <1>2, TablesInit, TablesStep, BuiltStep, TypeAlways, PTL DEF Spec

-----------------------------------------------------------------------------
(* Tests *)

\* The main thread programs switches for jobs with files that are right, and tests
\* are all it verifies.
IsolatedInv ==
    /\ TestsIsolated
    /\ main.at \in {"arbitrate", "await", "config", "write", "verify"} => Job.conf = "ok"
    /\ main.at = "verify" => Job.kind = "test"

LEMMA IsolatedInit == Init => IsolatedInv
BY DEF Init, IsolatedInv, TestsIsolated

LEMMA IsolatedStep == TypeInv /\ TablesInv /\ IsolatedInv /\ [Next]_vars => IsolatedInv'
<1> SUFFICES ASSUME TypeInv, TablesInv, IsolatedInv, [Next]_vars PROVE IsolatedInv'
  OBVIOUS
<1>1. UNCHANGED jobs
  BY DEF Next, Main, ConnectProgram, SetUp, Arbitrate, GetArbitration, SetPipeline, WriteEntry,
         WritesDone, Verify, Close, Stop, Dispatch, DispatchReceive, DispatchPut, DispatchEnd,
         Serve, ServerArbitrate, ServerEnds, ServerSends, StreamFails, vars
\* The main thread goes on with its job.
<1>2. ASSUME UNCHANGED outcome, main'.job = main.job,
             main'.at \in {"arbitrate", "await", "config", "write", "verify"} =>
                 main.at \in {"arbitrate", "await", "config", "write", "verify"} \/ Job.conf = "ok",
             main'.at = "verify" => main.at = "verify" \/ Job.kind = "test"
      PROVE  IsolatedInv'
  <2>1. Job' = Job
    BY <1>1, <1>2 DEF Job
  <2> QED
    BY <1>2, <2>1 DEF IsolatedInv, TestsIsolated
\* It leaves the job or closes its connections.
<1>3. ASSUME main'.at \in {"load", "close", "stop", "done"},
             UNCHANGED outcome \/
             \E result : result # "failed" /\ outcome' = [outcome EXCEPT ![main.job] = result]
      PROVE  IsolatedInv'
  <2>1. \A c \in Conns : outcome'[c] # "failed"
    BY <1>3, PartsTyped DEF IsolatedInv, TestsIsolated
  <2> QED
    BY <1>3, <2>1 DEF IsolatedInv, TestsIsolated
<1>4. \A result : NextJob(result).at \in {"load", "done"}
  BY MainIsTyped DEF NextJob, MainTyped
<1>5. ASSUME NEW result, result # "failed", Finish(result) \/ Shutdown(result)
      PROVE  IsolatedInv'
  <2>1. outcome' = [outcome EXCEPT ![main.job] = result]
    BY <1>5 DEF Finish, Shutdown
  <2>2. main'.at \in {"load", "close", "done"}
    <3>1. CASE Finish(result)
      BY <1>4, <3>1 DEF Finish
    <3>2. CASE Shutdown(result)
      BY <3>2, MainIsTyped DEF Shutdown, MainTyped
    <3> QED
      BY <1>5, <3>1, <3>2
  <2> QED
    BY <1>3, <1>5, <2>1, <2>2
<1>6. CASE Raise
  BY <1>5, <1>6 DEF Raise
<1>7. CASE ConnectProgram \/ SetUp
  <2>1. CASE OpenConnection /\ Job.conf = "ok"
    <3>1. main'.at = "arbitrate" /\ main'.job = main.job /\ UNCHANGED outcome
      BY <2>1, MainIsTyped DEF OpenConnection, MainTyped
    <3> QED
      BY <1>2, <2>1, <3>1
  <2>2. CASE \E result \in {"invalid", "raised", "error"} : Finish(result)
    BY <1>5, <2>2
  <2> QED
    BY <1>7, <2>1, <2>2 DEF ConnectProgram, SetUp
<1>8. CASE Arbitrate \/ GetArbitration
  <2>1. /\ main'.at \in {"await", "config"} /\ main'.job = main.job /\ UNCHANGED outcome
        /\ main.at \in {"arbitrate", "await"}
    BY <1>8, MainIsTyped DEF Arbitrate, GetArbitration, MainTyped, At
  <2> QED
    BY <1>2, <2>1
<1>9. CASE SetPipeline
  <2>1. CASE main' = [main EXCEPT !.at = "write"] /\ UNCHANGED outcome
    <3>1. main'.at = "write" /\ main'.job = main.job /\ main.at = "config"
      BY <1>9, <2>1, MainIsTyped DEF MainTyped, SetPipeline, At
    <3> QED
      BY <1>2, <2>1, <3>1
  <2> QED
    BY <1>6, <1>9, <2>1, SetPipelineWays
<1>10. CASE WriteEntry
  <2>1. CASE main' = [main EXCEPT !.next = @ + 1] /\ UNCHANGED outcome
    <3>1. main'.at = "write" /\ main'.job = main.job /\ main.at = "write"
      BY <1>10, <2>1, MainIsTyped DEF MainTyped, WriteEntry, At
    <3> QED
      BY <1>2, <2>1, <3>1
  <2> QED
    BY <1>6, <1>10, <2>1, WriteEntryWays
<1>11. CASE WritesDone
  <2>1. CASE Job.kind = "program"
    BY <1>5, <1>11, <2>1 DEF WritesDone
  <2>2. CASE Job.kind # "program"
    <3>1. main'.at = "verify" /\ main'.job = main.job /\ main.at = "write" /\ UNCHANGED outcome
      BY <1>11, <2>2, MainIsTyped DEF MainTyped, WritesDone, At
    <3>2. Job.kind = "test"
      BY <2>2, JobTyped
    <3> QED
      BY <1>2, <3>1, <3>2
  <2> QED
    BY <2>1, <2>2
\* The switch of a test holds what its own entries amount to.
<1>12. CASE Verify
  <2>1. main.at = "verify" /\ Job.kind = "test" /\ Job.conf = "ok"
    BY <1>12 DEF Verify, At, IsolatedInv
  <2>2. switch[Job.switch].table = Configured(Job, Len(Job.entries))
    <3>1. main.next = Len(Job.entries) + 1
          /\ switch[Job.switch].table = Configured(Job, main.next - 1)
      BY <2>1 DEF TablesInv
    <3>2. main.next - 1 = Len(Job.entries)
      BY <3>1, JobTyped
    <3> QED
      BY <3>1, <3>2
  <2>3. Passes(Job, switch[Job.switch].table)
    <3>1. jobs \in Programs /\ main.job \in DOMAIN jobs
      BY DEF TypeInv, TypeOK
    <3> QED
      BY <2>1, <2>2, <3>1, TestsAssumption DEF TestsAssumption, Job
  <2>4. Shutdown("passed")
    BY <1>12, <2>3 DEF Verify
  <2> QED
    BY <1>5, <2>4
<1>13. CASE Close \/ Stop
  <2>1. main'.at \in {"load", "close", "stop", "done"} /\ UNCHANGED outcome
    BY <1>4, <1>13, MainIsTyped DEF Close, Stop, MainTyped
  <2> QED
    BY <1>3, <2>1
<1>14. CASE UNCHANGED <<main, outcome>>
  BY <1>2, <1>14
<1>15. ASSUME NEW c \in Conns, Dispatch(c) \/ Serve(c) \/ ServerSends(c) \/ StreamFails(c)
       PROVE  UNCHANGED <<main, outcome>>
  BY <1>15 DEF Dispatch, DispatchReceive, DispatchPut, DispatchEnd, Serve, ServerArbitrate,
               ServerEnds, ServerSends, StreamFails
<1> QED
  BY <1>7, <1>8, <1>9, <1>10, <1>11, <1>12, <1>13, <1>14, <1>15 DEF Next, Main, vars

\* Tests that pass on a switch of their own pass in any order one after the other, whatever
\* fails between them, although none removes its entries (setUp's pipeline config).
THEOREM TestsAlwaysIsolated == Spec => []TestsIsolated
<1>1. IsolatedInv => TestsIsolated
  BY DEF IsolatedInv
<1> QED
  BY <1>1, IsolatedInit, IsolatedStep, TablesInit, TablesStep, TypeAlways, PTL DEF Spec

-----------------------------------------------------------------------------
(* Arbitration *)

\* The answer is in the stream, in the dispatcher's hand or in its queue.
Answered(c) ==
    \/ \E i \in DOMAIN inbound[c] : inbound[c][i] = "arbitration"
    \/ dispatcher[c] = "arbitration"
    \/ received[c]["arbitration"] > 0

\* A call or a stream failed, or an earlier connection to the same switch was there already.
Broken(c) ==
    \/ budget.faults > 0
    \/ \E d \in 1 .. c - 1 : stream[d] # "none" /\ jobs[d].switch = jobs[c].switch

Dispatching(c) == running[c] /\ dispatcher[c] \in {"receiving"} \cup Kinds

\* While the main thread waits for the answer to its arbitration, the request is there to be
\* answered or the answer on its way with a dispatcher to queue it.  The only
\* exceptions are a fault and a switch that an earlier connection was opened to.
AnswerComes ==
    At("await") =>
        \/ /\ stream[main.job] = "open" /\ Dispatching(main.job)
           /\ requests[main.job] = <<"arbitration">> \/ Answered(main.job)
        \/ stream[main.job] = "closed" /\ Broken(main.job)

IsPrimary(c) == \E s \in Switches : switch[s].primary = c

\* A connection that was not opened has not been used.
UnusedInv ==
    /\ \A c \in Conns : stream[c] = "none" =>
          requests[c] = <<>> /\ inbound[c] = <<>> /\ dispatcher[c] = "none" /\ running[c]
    /\ \A i \in DOMAIN connections : stream[connections[i]] # "none"
    /\ main.at \in {"close", "stop"} => main.closing \in DOMAIN connections

\* A primary's stream is open, and it asks only once.
PrimaryInv ==
    /\ \A s \in Switches : \A c \in Conns :
          switch[s].primary = c => stream[c] = "open" /\ jobs[c].switch = s
    /\ \A c \in Conns : \A i \in DOMAIN requests[c] :
          requests[c][i] = "arbitration" => i = 1 /\ ~IsPrimary(c)

\* The main thread from the start of its connection to the answer.
AnswerInv ==
    main.at \in {"arbitrate", "await"} =>
        /\ stream[main.job] # "none" /\ running[main.job]
        /\ stream[main.job] = "closed" => Broken(main.job)
        /\ stream[main.job] = "open" =>
              /\ Dispatching(main.job)
              /\ main.at = "arbitrate" => requests[main.job] = <<>>
              /\ main.at = "await" =>
                    \/ requests[main.job] = <<"arbitration">>
                    \/ requests[main.job] = <<>> /\ Answered(main.job)
        /\ main.at = "arbitrate" => ~IsPrimary(main.job) /\ requests[main.job] = <<>>

WaitInv == UnusedInv /\ PrimaryInv /\ AnswerInv

LEMMA WaitInit == Init => WaitInv
<1> SUFFICES ASSUME Init PROVE WaitInv
  OBVIOUS
<1>1. \A c \in Conns : c # 0
  BY DEF Conns
<1> QED
  BY <1>1 DEF Init, WaitInv, UnusedInv, PrimaryInv, AnswerInv

LEMMA Connected ==
    ASSUME TypeInv
    PROVE  /\ main.job \in Conns /\ main.job \in Nat /\ \A c \in Conns : c \in Nat /\ c # 0
           /\ \A i \in DOMAIN connections : connections[i] \in Conns
           /\ DOMAIN connections = 1 .. Len(connections) /\ Len(connections) \in Nat
           /\ budget.faults \in Nat
<1>1. connections \in Seq(Conns)
  BY PartsTyped
<1>2. budget.faults \in Nat
  BY PartsTyped, BoundsAssumption DEF BoundsAssumption
<1>3. main.job \in Conns
  BY JobTyped
<1>4. \A c \in Conns : c \in Nat /\ c # 0
  BY BoundsAssumption DEF Conns, BoundsAssumption
<1> QED
  BY <1>1, <1>2, <1>3, <1>4

\* What broke stays broken.
LEMMA BrokenKept ==
    ASSUME TypeInv, UNCHANGED jobs, budget.faults > 0 => budget'.faults > 0,
           \A c \in Conns : stream[c] # "none" => stream'[c] # "none",
           NEW c \in Conns, Broken(c)
    PROVE  Broken(c)'
<1>1. 1 .. c - 1 \subseteq Conns
  BY BoundsAssumption DEF Conns, BoundsAssumption
<1> QED
  BY <1>1 DEF Broken

\* The two calls leave the primary.
LEMMA PrimaryKept ==
    ASSUME TypeInv, NEW s \in Switches, NEW pipeline, NEW table, SwitchWritten(s, pipeline, table)
    PROVE  \A r \in Switches : switch'[r].primary = switch[r].primary
<1>1. switch = [r \in Switches |-> [pipeline |-> switch[r].pipeline, table |-> switch[r].table,
                                    primary |-> switch[r].primary]]
  BY PartsTyped
<1>2. switch'[s] = [switch[s] EXCEPT !.pipeline = pipeline, !.table = table]
  BY <1>1 DEF SwitchWritten
<1>3. switch[s] = [pipeline |-> switch[s].pipeline, table |-> switch[s].table,
                   primary |-> switch[s].primary]
  BY <1>1
<1>4. \A r \in Switches \ {s} : switch'[r] = switch[r]
  BY <1>1 DEF SwitchWritten
<1> QED
  BY <1>2, <1>3, <1>4

\* Steps of the main thread away from its arbitration, that use no connection.
LEMMA WaitLeft ==
    ASSUME TypeInv, WaitInv, UNCHANGED <<jobs, requests, stream, inbound, dispatcher, connections>>,
           main'.at \notin {"arbitrate", "await"},
           main'.at \in {"close", "stop"} => main'.closing \in DOMAIN connections,
           \A c \in Conns : stream[c] = "none" => running'[c],
           \A s \in Switches : switch'[s].primary = switch[s].primary
    PROVE  WaitInv'
<1>1. UnusedInv'
  BY DEF WaitInv, UnusedInv
<1>2. \A c \in Conns : IsPrimary(c)' <=> IsPrimary(c)
  BY DEF IsPrimary
<1>3. PrimaryInv'
  BY <1>2 DEF WaitInv, PrimaryInv
<1> QED
  BY <1>1, <1>3 DEF WaitInv, AnswerInv

LEMMA WaitOpen ==
    ASSUME TypeInv, ClosedInv, WaitInv, At("load"), OpenConnection,
           UNCHANGED <<jobs, requests, inbound, running, received, late, switch, budget>>
    PROVE  WaitInv'
<1> DEFINE c == main.job
<1>1. c \in Conns /\ stream[c] = "none" /\ connections \in Seq(Conns)
  BY Connected, PartsTyped DEF ClosedInv, At
<1>2. /\ requests[c] = <<>> /\ inbound[c] = <<>> /\ running[c] /\ ~IsPrimary(c)
  BY <1>1 DEF WaitInv, UnusedInv, PrimaryInv, IsPrimary
<1>3. main'.at = "arbitrate" /\ main'.job = c
  BY MainIsTyped DEF OpenConnection, MainTyped
<1>4. /\ stream' = [stream EXCEPT ![c] = "open"] /\ dispatcher' = [dispatcher EXCEPT ![c] = "receiving"]
      /\ connections' = Append(connections, c)
  BY DEF OpenConnection
<1> HIDE DEF c
<1>5. stream'[c] = "open" /\ dispatcher'[c] = "receiving"
      /\ \A d \in Conns : d # c => stream'[d] = stream[d] /\ dispatcher'[d] = dispatcher[d]
  BY <1>1, <1>4, PartsTyped
<1>6. \A i \in DOMAIN connections' : connections'[i] = c \/ (i \in DOMAIN connections
                                          /\ connections'[i] = connections[i])
  BY <1>1, <1>4
<1>7. UnusedInv'
  <2>1. \A i \in DOMAIN connections' : stream'[connections'[i]] # "none"
    BY <1>5, <1>6, Connected DEF WaitInv, UnusedInv
  <2> QED
    BY <1>3, <1>5, <2>1 DEF WaitInv, UnusedInv
<1>8. \A d \in Conns : IsPrimary(d)' <=> IsPrimary(d)
  BY DEF IsPrimary
<1>9. PrimaryInv'
  BY <1>2, <1>5, <1>8 DEF WaitInv, PrimaryInv, IsPrimary
<1>10. AnswerInv'
  BY <1>1, <1>2, <1>3, <1>5, <1>8 DEF AnswerInv, Dispatching
<1> QED
  BY <1>7, <1>9, <1>10 DEF WaitInv

LEMMA WaitArbitrate == ASSUME TypeInv, WaitInv, Arbitrate PROVE WaitInv'
<1> DEFINE c == main.job
<1>1. c \in Conns /\ stream[c] # "none" /\ running[c] /\ ~IsPrimary(c) /\ requests[c] = <<>>
      /\ (stream[c] = "closed" => Broken(c)) /\ (stream[c] = "open" => Dispatching(c))
  BY Connected DEF Arbitrate, At, WaitInv, AnswerInv
<1>2. main'.at = "await" /\ main'.job = c
  BY MainIsTyped DEF Arbitrate, MainTyped
<1>3. requests' = [requests EXCEPT ![c] = Append(@, "arbitration")]
      /\ UNCHANGED <<jobs, connections, stream, inbound, dispatcher, running, switch, budget>>
  BY DEF Arbitrate
<1> HIDE DEF c
<1>4. requests'[c] = <<"arbitration">> /\ \A d \in Conns : d # c => requests'[d] = requests[d]
  <2>1. requests'[c] = Append(requests[c], "arbitration")
    BY <1>1, <1>3, PartsTyped
  <2>2. \A d \in Conns : d # c => requests'[d] = requests[d]
    BY <1>3, PartsTyped
  <2> QED
    BY <1>1, <2>1, <2>2
<1>5. \A d \in Conns : IsPrimary(d)' <=> IsPrimary(d)
  BY <1>3 DEF IsPrimary
<1>6. UnusedInv'
  BY <1>1, <1>2, <1>3, <1>4 DEF WaitInv, UnusedInv
<1>7. PrimaryInv'
  <2>1. \A i \in DOMAIN requests'[c] : i = 1
    BY <1>4
  <2> QED
    BY <1>1, <1>3, <1>4, <1>5, <2>1 DEF WaitInv, PrimaryInv
<1>8. \A d \in Conns : Broken(d)' <=> Broken(d)
  BY <1>3 DEF Broken
<1>9. \A d \in Conns : Dispatching(d)' <=> Dispatching(d)
  BY <1>3 DEF Dispatching
<1>10. AnswerInv'
  BY <1>1, <1>2, <1>3, <1>4, <1>8, <1>9 DEF AnswerInv
<1> QED
  BY <1>6, <1>7, <1>10 DEF WaitInv

LEMMA WaitClose == ASSUME TypeInv, WaitInv, Close PROVE WaitInv'
<1> DEFINE c == connections[main.closing]
<1>1. c \in Conns /\ stream[c] # "none" /\ main.closing \in DOMAIN connections
  BY Connected DEF Close, At, WaitInv, UnusedInv
<1>2. main'.at = "stop" /\ main'.closing = main.closing
  BY MainIsTyped DEF Close, MainTyped
<1>3. requests' = [requests EXCEPT ![c] = Append(@, "sentinel")]
      /\ UNCHANGED <<jobs, connections, stream, inbound, dispatcher, running, switch, budget>>
  BY DEF Close
<1> HIDE DEF c
<1>4. requests'[c] = Append(requests[c], "sentinel") /\ requests[c] \in Seq({"arbitration", "sentinel"})
      /\ \A d \in Conns : d # c => requests'[d] = requests[d]
  BY <1>1, <1>3, PartsTyped
<1>5. \A d \in Conns : IsPrimary(d)' <=> IsPrimary(d)
  BY <1>3 DEF IsPrimary
<1>6. UnusedInv'
  BY <1>1, <1>2, <1>3, <1>4 DEF WaitInv, UnusedInv
<1>7. PrimaryInv'
  <2>1. \A i \in DOMAIN requests'[c] : requests'[c][i] = "arbitration" =>
            i \in DOMAIN requests[c] /\ requests[c][i] = "arbitration"
    BY <1>4
  <2> QED
    BY <1>1, <1>3, <1>4, <1>5, <2>1 DEF WaitInv, PrimaryInv
<1> QED
  BY <1>2, <1>6, <1>7 DEF WaitInv, AnswerInv

LEMMA WaitMain == ASSUME TypeInv, ClosedInv, WaitInv, Main PROVE WaitInv'
<1>1. \A c \in Conns : stream[c] = "none" => running[c]
  BY DEF WaitInv, UnusedInv
<1>2. main.at \in Opened => Len(connections) \in DOMAIN connections /\ 1 \in DOMAIN connections
  BY Connected DEF ClosedInv
<1>3. ASSUME NEW result, Finish(result) PROVE main'.at \in {"load", "done"}
  BY <1>3, NextJobMoves DEF Finish
<1>4. ASSUME NEW result, Shutdown(result), main.at \in Opened
      PROVE  main'.at = "close" /\ main'.closing \in DOMAIN connections
  BY <1>2, <1>4, MainIsTyped DEF Shutdown, MainTyped
<1>5. ASSUME Raise, main.at \in Opened
      PROVE  main'.at \notin {"arbitrate", "await", "stop"}
             /\ (main'.at = "close" => main'.closing \in DOMAIN connections)
  BY <1>3, <1>4, <1>5 DEF Raise
<1>6. CASE (ConnectProgram \/ SetUp) /\ Job.conf = "ok"
  BY <1>6, WaitOpen DEF ConnectProgram, SetUp
<1>7. CASE (ConnectProgram \/ SetUp) /\ Job.conf # "ok"
  <2>1. \E result : Finish(result)
    BY <1>7 DEF ConnectProgram, SetUp
  <2> QED
    BY <1>1, <1>3, <1>7, <2>1, WaitLeft DEF ConnectProgram, SetUp
<1>8. CASE GetArbitration
  <2>1. main'.at = "config"
    BY <1>8, MainIsTyped DEF GetArbitration, MainTyped
  <2> QED
    BY <1>1, <1>8, <2>1, WaitLeft DEF GetArbitration
<1>9. CASE SetPipeline
  <2>1. /\ main'.at \notin {"arbitrate", "await", "stop"}
        /\ main'.at = "close" => main'.closing \in DOMAIN connections
    <3>1. Raise \/ main' = [main EXCEPT !.at = "write"]
      BY <1>9 DEF SetPipeline
    <3>2. main.at \in Opened
      BY <1>9 DEF SetPipeline, At, Opened
    <3> QED
      BY <3>1, <3>2, <1>5, MainIsTyped DEF MainTyped
  <2>2. \A s \in Switches : switch'[s].primary = switch[s].primary
    BY <1>9, SetPipelineWays, PrimaryKept, JobTyped
  <2> QED
    BY <1>1, <1>9, <2>1, <2>2, WaitLeft DEF SetPipeline, connVars
<1>10. CASE WriteEntry
  <2>1. /\ main'.at \notin {"arbitrate", "await", "stop"}
        /\ main'.at = "close" => main'.closing \in DOMAIN connections
    <3>1. Raise \/ main' = [main EXCEPT !.next = @ + 1]
      BY <1>10 DEF WriteEntry
    <3>2. main.at = "write" /\ main.at \in Opened
      BY <1>10 DEF WriteEntry, At, Opened
    <3> QED
      BY <3>1, <3>2, <1>5, MainIsTyped DEF MainTyped
  <2>2. \A s \in Switches : switch'[s].primary = switch[s].primary
    BY <1>10, WriteEntryWays, PrimaryKept, JobTyped
  <2> QED
    BY <1>1, <1>10, <2>1, <2>2, WaitLeft DEF WriteEntry, connVars
<1>11. CASE WritesDone \/ Verify
  <2>1. /\ main'.at \notin {"arbitrate", "await", "stop"}
        /\ main'.at = "close" => main'.closing \in DOMAIN connections
    <3>1. (\E result : Shutdown(result)) \/ main' = [main EXCEPT !.at = "verify"]
      BY <1>11 DEF WritesDone, Verify
    <3>2. main.at \in Opened
      BY <1>11 DEF WritesDone, Verify, At, Opened
    <3> QED
      BY <3>1, <3>2, <1>4, MainIsTyped DEF MainTyped
  <2> QED
    BY <1>1, <1>11, <2>1, WaitLeft DEF WritesDone, Verify, connVars
<1>12. CASE Stop
  <2>1. main'.at \notin {"arbitrate", "await", "stop"}
    BY <1>12, NextJobMoves, MainIsTyped DEF Stop, MainTyped
  <2>2. main'.at = "close" => main'.closing \in DOMAIN connections
    <3>1. CASE main.closing < Len(connections)
      BY <1>12, <3>1, Connected, MainIsTyped DEF Stop, MainTyped, At, WaitInv, UnusedInv
    <3>2. CASE ~(main.closing < Len(connections))
      BY <1>12, <3>2, NextJobMoves DEF Stop
    <3> QED
      BY <3>1, <3>2
  <2>3. \A c \in Conns : stream[c] = "none" => running'[c]
    <3>1. stream[connections[main.closing]] # "none"
      BY <1>12 DEF Stop, At, WaitInv, UnusedInv
    <3> QED
      BY <1>1, <1>12, <3>1, PartsTyped DEF Stop
  <2> QED
    BY <1>12, <2>1, <2>2, <2>3, WaitLeft DEF Stop
<1> QED
  BY <1>6, <1>7, <1>8, <1>9, <1>10, <1>11, <1>12, WaitArbitrate, WaitClose DEF Main

LEMMA WaitDispatch ==
    ASSUME TypeInv, WaitInv, NEW d \in Conns, Dispatch(d)
    PROVE  WaitInv'
<1>1. UNCHANGED <<jobs, main, connections, requests, stream, running, switch, budget>>
  BY DEF Dispatch, DispatchReceive, DispatchPut, DispatchEnd
<1>2. dispatcher[d] # "none" /\ stream[d] # "none"
  <2>1. dispatcher[d] # "none"
    BY DEF Dispatch, DispatchReceive, DispatchPut, DispatchEnd, Kinds
  <2> QED
    BY <2>1 DEF WaitInv, UnusedInv
<1>3. \A c \in Conns : c # d => /\ inbound'[c] = inbound[c] /\ dispatcher'[c] = dispatcher[c]
                                /\ received'[c] = received[c]
  BY PartsTyped DEF Dispatch, DispatchReceive, DispatchPut, DispatchEnd
<1>4. UnusedInv'
  BY <1>1, <1>2, <1>3 DEF WaitInv, UnusedInv
<1>5. PrimaryInv'
  BY <1>1 DEF WaitInv, PrimaryInv, IsPrimary
<1>6. stream[d] = "open" /\ Dispatching(d) => Dispatching(d)'
  <2>1. CASE DispatchReceive(d)
    <3>1. Head(inbound[d]) \in Kinds
      BY <2>1, PartsTyped DEF DispatchReceive
    <3> QED
      BY <2>1, <3>1, PartsTyped DEF DispatchReceive, Dispatching
  <2>2. CASE DispatchPut(d)
    BY <2>2, PartsTyped DEF DispatchPut, Dispatching
  <2>3. CASE DispatchEnd(d)
    BY <2>3 DEF DispatchEnd
  <2> QED
    BY <2>1, <2>2, <2>3 DEF Dispatch
<1>7. running[d] /\ Answered(d) => Answered(d)'
  <2>1. CASE DispatchReceive(d)
    <3> SUFFICES ASSUME running[d], Answered(d) PROVE Answered(d)'
      OBVIOUS
    <3>1. /\ inbound[d] \in Seq(Kinds) /\ inbound[d] # <<>> /\ dispatcher[d] = "receiving"
          /\ inbound'[d] = Tail(inbound[d]) /\ dispatcher'[d] = Head(inbound[d])
          /\ received' = received
      BY <2>1, PartsTyped DEF DispatchReceive
    <3>2. CASE received[d]["arbitration"] > 0
      BY <3>1, <3>2 DEF Answered
    <3>3. ASSUME NEW i \in DOMAIN inbound[d], inbound[d][i] = "arbitration" PROVE Answered(d)'
      <4>1. CASE i = 1
        BY <3>1, <3>3, <4>1 DEF Answered
      <4>2. CASE i # 1
        <5>1. i - 1 \in DOMAIN Tail(inbound[d]) /\ Tail(inbound[d])[i - 1] = "arbitration"
          BY <3>1, <3>3, <4>2
        <5> QED
          BY <3>1, <5>1 DEF Answered
      <4> QED
        BY <4>1, <4>2
    <3> QED
      BY <3>1, <3>2, <3>3 DEF Answered
  <2>2. CASE DispatchPut(d)
    <3> SUFFICES ASSUME Answered(d) PROVE Answered(d)'
      OBVIOUS
    <3>1. inbound' = inbound /\ received \in [Conns -> [Kinds -> Nat]] /\ "arbitration" \in Kinds
      BY <2>2, PartsTyped DEF DispatchPut, Kinds
    <3>2. CASE dispatcher[d] = "unknown"
      BY <2>2, <3>1, <3>2 DEF DispatchPut, Answered
    <3>3. CASE dispatcher[d] # "unknown"
      <4>1. received' = [received EXCEPT ![d][dispatcher[d]] = @ + 1] /\ dispatcher[d] \in Kinds
        BY <2>2, <3>3 DEF DispatchPut
      <4>2. received'[d]["arbitration"] = IF dispatcher[d] = "arbitration"
               THEN received[d]["arbitration"] + 1 ELSE received[d]["arbitration"]
        BY <3>1, <4>1
      <4>3. received[d]["arbitration"] \in Nat
        BY <3>1
      <4> QED
        BY <3>1, <4>2, <4>3 DEF Answered
    <3> QED
      BY <3>2, <3>3
  <2>3. CASE DispatchEnd(d)
    BY <2>3, PartsTyped DEF DispatchEnd, Answered
  <2> QED
    BY <2>1, <2>2, <2>3 DEF Dispatch
<1>8. Broken(main.job)' <=> Broken(main.job)
  BY <1>1 DEF Broken
<1>9. IsPrimary(main.job)' <=> IsPrimary(main.job)
  BY <1>1 DEF IsPrimary
<1>10. /\ stream[main.job] = "open" /\ Dispatching(main.job) => Dispatching(main.job)'
       /\ running[main.job] /\ Answered(main.job) => Answered(main.job)'
  <2>1. CASE main.job = d
    BY <1>1, <1>6, <1>7, <2>1 DEF Dispatching, Answered
  <2>2. CASE main.job # d
    BY <1>1, <1>3, <2>2, Connected DEF Dispatching, Answered
  <2> QED
    BY <2>1, <2>2
<1>11. AnswerInv'
  BY <1>1, <1>8, <1>9, <1>10 DEF WaitInv, AnswerInv
<1> QED
  BY <1>4, <1>5, <1>11 DEF WaitInv
\* A connection asks at the head of its requests, or not at all.
LEMMA AskedOnce ==
    ASSUME TypeInv, WaitInv, NEW d \in Conns, requests[d] # <<>>
    PROVE  \A i \in DOMAIN Tail(requests[d]) : Tail(requests[d])[i] # "arbitration"
<1> DEFINE q == requests[d]
<1>1. q \in Seq({"arbitration", "sentinel"}) /\ q # <<>>
  BY PartsTyped
<1>2. \A i \in DOMAIN q : q[i] = "arbitration" => i = 1
  BY DEF WaitInv, PrimaryInv
<1> HIDE DEF q
<1>3. Len(q) \in Nat /\ DOMAIN q = 1 .. Len(q) /\ Len(q) > 0
      /\ DOMAIN Tail(q) = 1 .. Len(q) - 1
  BY <1>1
<1>4. ASSUME NEW i \in DOMAIN Tail(q) PROVE Tail(q)[i] # "arbitration"
  <2>1. i + 1 \in DOMAIN q /\ i + 1 # 1
    BY <1>3
  <2>2. Tail(q)[i] = q[i + 1]
    BY <1>1, <1>3
  <2> QED
    BY <1>2, <2>1, <2>2
<1> QED
  BY <1>4 DEF q

\* Steps of the server of a connection that the main thread does not wait for.
LEMMA WaitElsewhere ==
    ASSUME TypeInv, WaitInv, NEW d \in Conns, main.job # d \/ main.at \notin {"arbitrate", "await"},
           UNCHANGED <<jobs, main, dispatcher, running, received>>,
           \A c \in Conns : stream[c] # "none" => stream'[c] # "none",
           \A c \in Conns \ {d} : /\ requests'[c] = requests[c] /\ stream'[c] = stream[c]
                                  /\ inbound'[c] = inbound[c] /\ (IsPrimary(c)' => IsPrimary(c)),
           budget.faults > 0 => budget'.faults > 0
    PROVE  AnswerInv'
<1>1. main.job \in Conns /\ main' = main
  BY Connected
<1>2. CASE main.at \in {"arbitrate", "await"}
  <2>1. main.job \in Conns \ {d}
    BY <1>1, <1>2
  <2>2. Broken(main.job) => Broken(main.job)'
    BY <1>1, BrokenKept DEF Broken
  <2>3. Answered(main.job)' <=> Answered(main.job)
    BY <2>1 DEF Answered
  <2>4. Dispatching(main.job)' <=> Dispatching(main.job)
    BY DEF Dispatching
  <2>5. IsPrimary(main.job)' => IsPrimary(main.job)
    BY <1>1, <2>1 DEF IsPrimary
  <2> QED
    BY <1>1, <2>1, <2>2, <2>3, <2>4, <2>5 DEF WaitInv, AnswerInv
<1>3. CASE main.at \notin {"arbitrate", "await"}
  BY <1>1, <1>3 DEF AnswerInv
<1> QED
  BY <1>2, <1>3

\* What a connection that is closed was primary of has none.
LEMMA ReleasedPrimary ==
    ASSUME TypeInv, NEW d \in Conns, switch' = Released(d)
    PROVE  \A s \in Switches : switch'[s].primary =
              IF switch[s].primary = d THEN 0 ELSE switch[s].primary
<1>1. \A s \in Switches : switch[s] = [pipeline |-> switch[s].pipeline, table |-> switch[s].table,
                                       primary |-> switch[s].primary]
  BY PartsTyped
<1> QED
  BY <1>1 DEF Released

LEMMA WaitRefused ==
    ASSUME TypeInv, ClosedInv, WaitInv, NEW d \in Conns, ServerArbitrate(d),
           switch[jobs[d].switch].primary # 0
    PROVE  WaitInv'
<1> DEFINE s == jobs[d].switch
           p == switch[s].primary
<1>1. /\ UNCHANGED <<jobs, main, connections, dispatcher, running, received, budget, switch, inbound>>
      /\ requests' = [requests EXCEPT ![d] = Tail(@)] /\ stream' = [stream EXCEPT ![d] = "closed"]
      /\ stream[d] = "open" /\ requests[d] # <<>> /\ requests[d][1] = "arbitration"
      /\ requests[d] \in Seq({"arbitration", "sentinel"})
  BY PartsTyped DEF ServerArbitrate
<1>2. /\ requests'[d] = Tail(requests[d]) /\ stream'[d] = "closed"
      /\ \A c \in Conns \ {d} : requests'[c] = requests[c] /\ stream'[c] = stream[c]
  BY <1>1, PartsTyped
<1>3. ~IsPrimary(d) /\ \A i \in DOMAIN requests'[d] : requests'[d][i] # "arbitration"
  <2>1. 1 \in DOMAIN requests[d]
    BY <1>1
  <2>2. ~IsPrimary(d)
    BY <1>1, <2>1 DEF WaitInv, PrimaryInv
  <2>3. \A i \in DOMAIN requests'[d] : requests'[d][i] # "arbitration"
    BY <1>1, <1>2, AskedOnce
  <2> QED
    BY <2>2, <2>3
<1>4. \A c \in Conns : IsPrimary(c)' <=> IsPrimary(c)
  BY <1>1 DEF IsPrimary
<1>5. UnusedInv'
  <2>1. \A c \in Conns : stream'[c] = "none" => c # d /\ stream[c] = "none"
    BY <1>1, <1>2
  <2>2. \A i \in DOMAIN connections : stream'[connections[i]] # "none"
    BY <1>1, <1>2, Connected DEF WaitInv, UnusedInv
  <2> QED
    BY <1>1, <1>2, <2>1, <2>2 DEF WaitInv, UnusedInv
<1>6. PrimaryInv'
  BY <1>1, <1>2, <1>3, <1>4 DEF WaitInv, PrimaryInv, IsPrimary
<1>7. AnswerInv'
  <2>1. CASE main.job # d \/ main.at \notin {"arbitrate", "await"}
    BY <1>1, <1>2, <1>4, <2>1, WaitElsewhere
  <2>2. CASE main.job = d /\ main.at \in {"arbitrate", "await"}
    <3>1. s \in Switches /\ p \in Conns /\ p # d
      <4>1. s \in Switches
        BY <2>2, JobTyped DEF Job
      <4> QED
        BY <1>3, <4>1, PartsTyped DEF IsPrimary
    <3>2. stream[p] = "open" /\ jobs[p].switch = s
      BY <3>1 DEF WaitInv, PrimaryInv
    <3>3. p \in 1 .. d - 1
      BY <2>2, <3>1, <3>2, Connected DEF ClosedInv, Conns
    <3> HIDE DEF s, p
    <3>4. Broken(d)'
      BY <1>1, <1>2, <3>1, <3>2, <3>3 DEF Broken, s
    <3>5. main.at = "await"
      BY <1>1, <2>2 DEF WaitInv, AnswerInv
    <3> QED
      BY <1>1, <1>2, <2>2, <3>4, <3>5 DEF WaitInv, AnswerInv
  <2> QED
    BY <2>1, <2>2
<1> QED
  BY <1>5, <1>6, <1>7 DEF WaitInv

LEMMA WaitAnswered ==
    ASSUME TypeInv, ClosedInv, WaitInv, NEW d \in Conns, ServerArbitrate(d),
           switch[jobs[d].switch].primary = 0
    PROVE  WaitInv'
<1> DEFINE s == jobs[d].switch
<1>1. /\ UNCHANGED <<jobs, main, connections, dispatcher, running, received, budget, stream>>
      /\ requests' = [requests EXCEPT ![d] = Tail(@)]
      /\ inbound' = [inbound EXCEPT ![d] = Append(@, "arbitration")]
      /\ switch' = [switch EXCEPT ![s].primary = d]
      /\ stream[d] = "open" /\ requests[d] # <<>> /\ requests[d][1] = "arbitration"
      /\ requests[d] \in Seq({"arbitration", "sentinel"}) /\ inbound[d] \in Seq(Kinds)
  BY PartsTyped DEF ServerArbitrate
<1>2. /\ requests'[d] = Tail(requests[d]) /\ inbound'[d] = Append(inbound[d], "arbitration")
      /\ \A c \in Conns \ {d} : requests'[c] = requests[c] /\ inbound'[c] = inbound[c]
  BY <1>1, PartsTyped
<1>3. \A i \in DOMAIN requests'[d] : requests'[d][i] # "arbitration"
  BY <1>1, <1>2, AskedOnce
<1>4. \A r \in Switches : switch'[r].primary = switch[r].primary \/ (r = s /\ switch'[r].primary = d)
  <2> HIDE DEF s
  <2> SUFFICES ASSUME NEW r \in Switches
               PROVE  switch'[r].primary = switch[r].primary \/ (r = s /\ switch'[r].primary = d)
    OBVIOUS
  <2>1. switch = [t \in Switches |-> switch[t]]
        /\ switch[r] = [pipeline |-> switch[r].pipeline, table |-> switch[r].table,
                        primary |-> switch[r].primary]
    BY PartsTyped
  <2>2. r = s => switch'[r] = [switch[r] EXCEPT !.primary = d]
    BY <1>1, <2>1
  <2>3. r # s => switch'[r] = switch[r]
    BY <1>1, <2>1
  <2> QED
    BY <2>1, <2>2, <2>3
<1>5. \A c \in Conns \ {d} : IsPrimary(c)' => IsPrimary(c)
  BY <1>4 DEF IsPrimary
<1>6. UnusedInv'
  BY <1>1, <1>2 DEF WaitInv, UnusedInv
<1>7. PrimaryInv'
  BY <1>1, <1>2, <1>3, <1>4, <1>5 DEF WaitInv, PrimaryInv
<1>8. AnswerInv'
  <2>1. CASE main.job # d \/ main.at \notin {"arbitrate", "await"}
    BY <1>1, <1>2, <1>5, <2>1, WaitElsewhere
  <2>2. CASE main.job = d /\ main.at \in {"arbitrate", "await"}
    <3>1. main.at = "await" /\ requests[d] = <<"arbitration">> /\ running[d] /\ Dispatching(d)
      BY <1>1, <2>2 DEF WaitInv, AnswerInv
    <3>2. requests'[d] = <<>>
      BY <1>2, <3>1
    <3>3. Answered(d)'
      <4>1. Len(inbound[d]) + 1 \in DOMAIN inbound'[d]
            /\ inbound'[d][Len(inbound[d]) + 1] = "arbitration"
        BY <1>1, <1>2
      <4> QED
        BY <4>1 DEF Answered
    <3>4. Dispatching(d)'
      BY <1>1, <3>1 DEF Dispatching
    <3> QED
      BY <1>1, <2>2, <3>1, <3>2, <3>3, <3>4 DEF AnswerInv
  <2> QED
    BY <2>1, <2>2
<1> QED
  BY <1>6, <1>7, <1>8 DEF WaitInv

LEMMA WaitEnds ==
    ASSUME TypeInv, ClosedInv, WaitInv, NEW d \in Conns, ServerEnds(d)
    PROVE  WaitInv'
<1>1. /\ UNCHANGED <<jobs, main, connections, dispatcher, running, received, budget, inbound>>
      /\ requests' = [requests EXCEPT ![d] = Tail(@)] /\ stream' = [stream EXCEPT ![d] = "closed"]
      /\ stream[d] = "open" /\ requests[d] # <<>> /\ requests[d][1] = "sentinel"
      /\ requests[d] \in Seq({"arbitration", "sentinel"}) /\ switch' = Released(d)
  BY PartsTyped DEF ServerEnds
<1>2. /\ requests'[d] = Tail(requests[d]) /\ stream'[d] = "closed"
      /\ \A c \in Conns \ {d} : requests'[c] = requests[c] /\ stream'[c] = stream[c]
  BY <1>1, PartsTyped
<1>3. \A i \in DOMAIN requests'[d] : requests'[d][i] # "arbitration"
  BY <1>1, <1>2, AskedOnce
<1>4. \A s \in Switches : \A c \in Conns : switch'[s].primary = c => switch[s].primary = c /\ c # d
  BY <1>1, ReleasedPrimary, Connected
<1>5. \A c \in Conns : IsPrimary(c)' => IsPrimary(c)
  BY <1>4 DEF IsPrimary
<1>6. UnusedInv'
  <2>1. \A c \in Conns : stream'[c] = "none" => c # d /\ stream[c] = "none"
    BY <1>1, <1>2
  <2>2. \A i \in DOMAIN connections : stream'[connections[i]] # "none"
    BY <1>1, <1>2, Connected DEF WaitInv, UnusedInv
  <2> QED
    BY <1>1, <1>2, <2>1, <2>2 DEF WaitInv, UnusedInv
<1>7. PrimaryInv'
  BY <1>1, <1>2, <1>3, <1>4, <1>5 DEF WaitInv, PrimaryInv
<1>8. main.job # d \/ main.at \notin {"arbitrate", "await"}
  BY <1>1 DEF WaitInv, AnswerInv
<1>9. AnswerInv'
  BY <1>1, <1>2, <1>5, <1>8, WaitElsewhere
<1> QED
  BY <1>6, <1>7, <1>9 DEF WaitInv

LEMMA WaitSends ==
    ASSUME TypeInv, ClosedInv, WaitInv, NEW d \in Conns, ServerSends(d)
    PROVE  WaitInv'
<1>1. UNCHANGED <<jobs, main, connections, requests, stream, dispatcher, running, received, switch>>
      /\ stream[d] = "open"
  BY DEF ServerSends
<1>2. PICK k \in Chatter : inbound' = [inbound EXCEPT ![d] = Append(@, k)]
  BY DEF ServerSends
<1>3. inbound[d] \in Seq(Kinds) /\ inbound'[d] = Append(inbound[d], k)
      /\ \A c \in Conns \ {d} : inbound'[c] = inbound[c]
  BY <1>2, PartsTyped
<1>4. budget'.faults = budget.faults
  BY PartsTyped DEF ServerSends
<1>5. \A c \in Conns : IsPrimary(c)' <=> IsPrimary(c)
  BY <1>1 DEF IsPrimary
<1>6. UnusedInv'
  BY <1>1, <1>3 DEF WaitInv, UnusedInv
<1>7. PrimaryInv'
  BY <1>1, <1>5 DEF WaitInv, PrimaryInv
<1>8. AnswerInv'
  <2>1. CASE main.job # d \/ main.at \notin {"arbitrate", "await"}
    BY <1>1, <1>3, <1>4, <1>5, <2>1, WaitElsewhere
  <2>2. CASE main.job = d
    <3>1. Answered(d) => Answered(d)'
      <4>1. \A i \in DOMAIN inbound[d] : i \in DOMAIN inbound'[d] /\ inbound'[d][i] = inbound[d][i]
        BY <1>3
      <4> QED
        BY <1>1, <4>1 DEF Answered
    <3>2. Dispatching(d)' <=> Dispatching(d)
      BY <1>1 DEF Dispatching
    <3> QED
      BY <1>1, <1>5, <2>2, <3>1, <3>2 DEF WaitInv, AnswerInv
  <2> QED
    BY <2>1, <2>2
<1> QED
  BY <1>6, <1>7, <1>8 DEF WaitInv

LEMMA WaitFails ==
    ASSUME TypeInv, ClosedInv, WaitInv, NEW d \in Conns, StreamFails(d)
    PROVE  WaitInv'
<1>1. /\ UNCHANGED <<jobs, main, connections, requests, dispatcher, running, received>>
      /\ stream' = [stream EXCEPT ![d] = "closed"] /\ inbound' = [inbound EXCEPT ![d] = <<>>]
      /\ stream[d] = "open" /\ switch' = Released(d)
  BY DEF StreamFails
<1>2. /\ stream'[d] = "closed" /\ inbound'[d] = <<>>
      /\ \A c \in Conns \ {d} : stream'[c] = stream[c] /\ inbound'[c] = inbound[c]
  BY <1>1, PartsTyped
<1>3. budget'.faults > 0
  <2>1. budget.faults \in Nat /\ budget'.faults = budget.faults + 1
    BY Connected, PartsTyped DEF StreamFails
  <2> QED
    BY <2>1
<1>4. \A s \in Switches : \A c \in Conns : switch'[s].primary = c => switch[s].primary = c /\ c # d
  BY <1>1, ReleasedPrimary, Connected
<1>5. \A c \in Conns : IsPrimary(c)' => IsPrimary(c)
  BY <1>4 DEF IsPrimary
<1>6. UnusedInv'
  <2>1. \A c \in Conns : stream'[c] = "none" => c # d /\ stream[c] = "none"
    BY <1>1, <1>2
  <2>2. \A i \in DOMAIN connections : stream'[connections[i]] # "none"
    BY <1>1, <1>2, Connected DEF WaitInv, UnusedInv
  <2> QED
    BY <1>1, <1>2, <2>1, <2>2 DEF WaitInv, UnusedInv
<1>7. PrimaryInv'
  BY <1>1, <1>2, <1>4, <1>5 DEF WaitInv, PrimaryInv
<1>8. AnswerInv'
  <2>1. CASE main.job # d \/ main.at \notin {"arbitrate", "await"}
    BY <1>1, <1>2, <1>3, <1>5, <2>1, WaitElsewhere
  <2>2. CASE main.job = d /\ main.at \in {"arbitrate", "await"}
    <3>1. Broken(d)'
      BY <1>3 DEF Broken
    <3> QED
      BY <1>1, <1>2, <1>5, <2>2, <3>1 DEF WaitInv, AnswerInv
  <2> QED
    BY <2>1, <2>2
<1> QED
  BY <1>6, <1>7, <1>8 DEF WaitInv

LEMMA WaitStep == TypeInv /\ ClosedInv /\ WaitInv /\ [Next]_vars => WaitInv'
<1> SUFFICES ASSUME TypeInv, ClosedInv, WaitInv, [Next]_vars PROVE WaitInv'
  OBVIOUS
<1>1. ASSUME NEW d \in Conns, Serve(d) PROVE WaitInv'
  BY <1>1, WaitRefused, WaitAnswered, WaitEnds DEF Serve
<1>2. CASE UNCHANGED vars
  BY <1>2 DEF vars, WaitInv, UnusedInv, PrimaryInv, AnswerInv, IsPrimary, Broken, Dispatching,
     Answered
<1> QED
  BY <1>1, <1>2, WaitMain, WaitDispatch, WaitSends, WaitFails DEF Next

\* No main thread waits in vain for its arbitration (MasterArbitrationUpdate,
\* get_arbitration): unless its stream ended, the request is in the stream or the answer on its
\* way to the queue, with a dispatcher that takes it there, whatever the server
\* sends besides.  The stream ends only after a fault or where an earlier connection was
\* opened to the same switch, all having election id 1.
THEOREM ArbitrationAlwaysComes == Spec => []AnswerComes
<1>1. AnswerInv => AnswerComes \/ ~TypeInv
  <2> SUFFICES ASSUME AnswerInv, TypeInv, At("await") PROVE AnswerComes
    BY DEF AnswerComes
  <2>1. stream[main.job] \in {"none", "open", "closed"}
    BY PartsTyped, Connected
  <2> QED
    BY <2>1 DEF AnswerInv, AnswerComes, At
<1>2. TypeInv /\ WaitInv => AnswerComes
  BY <1>1 DEF WaitInv
<1> QED
  BY <1>2, WaitInit, WaitStep, ClosedInit, ClosedStep, TypeAlways, PTL DEF Spec

=============================================================================
