-------------------------- MODULE WikiFilesProofs ---------------------------
(***************************************************************************)
(* Lemmas about the files of a wiki and their times, for the proofs of     *)
(* those who read them: SearchIndexProofs and ArticleCacheProofs.          *)
(***************************************************************************)
EXTENDS WikiFiles, TLAPS

(* A file is an article of its text, a blank one, or none. *)
LEMMA ParsedType ==
  ASSUME NEW f \in File \cup {None}
  PROVE  Parsed(f) \in Text \cup {Blank, None}
BY DEF Parsed, File, Bytes

(* A file's time is a moment of the clock. *)
LEMMA CoarseType ==
  ASSUME NEW t \in Nat
  PROVE  Coarse(t) \in Nat /\ Coarse(t) <= t /\ t < Coarse(t) + Grain
BY GrainAssumption DEF Coarse

(* Times are rounded down in the order of the clock. *)
LEMMA CoarseStep ==
  ASSUME NEW t \in Nat
  PROVE  Coarse(t) <= Coarse(t + 1)
<1> DEFINE a == t \div Grain
           b == (t + 1) \div Grain
<1>1. t = Grain * a + (t % Grain) /\ (t % Grain) \in 0..(Grain - 1) /\ a \in Int
  BY GrainAssumption
<1>2. t + 1 = Grain * b + ((t + 1) % Grain) /\ ((t + 1) % Grain) \in 0..(Grain - 1) /\ b \in Int
  BY GrainAssumption
<1> HIDE DEF a, b
<1>3. ASSUME b < a PROVE Grain * b <= Grain * a - Grain
  <2> DEFINE k == a - b - 1
  <2>1. k \in Nat /\ a = b + k + 1
    BY <1>1, <1>2, <1>3
  <2> HIDE DEF k
  <2>2. Grain * k \in Nat
    BY <2>1, GrainAssumption
  <2>3. Grain * (b + k + 1) = Grain * b + Grain * k + Grain
    BY <1>2, <2>1, GrainAssumption
  <2> QED BY <1>1, <1>2, <2>1, <2>2, <2>3, GrainAssumption
<1>4. CASE b < a
  <2>1. Grain * a \in Int /\ Grain * b \in Int
    BY <1>1, <1>2, GrainAssumption
  <2> DEFINE x == Grain * a
             y == Grain * b
             r == t % Grain
             s == (t + 1) % Grain
  <2>2. /\ x \in Int /\ y \in Int /\ r \in 0..(Grain - 1) /\ s \in 0..(Grain - 1)
        /\ t = x + r /\ t + 1 = y + s /\ y <= x - Grain
    BY <1>1, <1>2, <1>3, <1>4, <2>1
  <2> HIDE DEF x, y, r, s
  <2>3. FALSE
    BY <2>2, GrainAssumption
  <2> QED BY <2>3
<1>5. CASE ~(b < a)
  <2>1. b = a \/ b > a
    BY <1>1, <1>2, <1>5
  <2> DEFINE k == b - a
  <2>2. k \in Nat /\ b = a + k
    BY <1>1, <1>2, <2>1
  <2> HIDE DEF k
  <2>3. Grain * k \in Nat /\ Grain * (a + k) = Grain * a + Grain * k
    BY <1>1, <2>2, GrainAssumption
  <2>4. Grain * a \in Int /\ Grain * b \in Int
    BY <1>1, <1>2, GrainAssumption
  <2> QED BY <1>1, <1>2, <2>2, <2>3, <2>4, GrainAssumption DEF Coarse
<1> QED BY <1>4, <1>5

(* The actions on a file keep the files' types. *)
LEMMA FilesType ==
  ASSUME FilesTypeOK,
         \/ Tick
         \/ \E p \in Proc : Drop(p)
         \/ \E p \in Proc, i \in Id, b \in Text \cup {Bad} :
              Truncate(p, i) \/ Fill(p, i, b) \/ Remove(p, i)
  PROVE  FilesTypeOK'
<1>1. CASE Tick
  BY <1>1 DEF Tick, FilesTypeOK
<1>2. ASSUME NEW p \in Proc, NEW i \in Id, Truncate(p, i) PROVE FilesTypeOK'
  <2>1. [bytes |-> Blank, mtime |-> Coarse(now)] \in File
    BY CoarseType DEF FilesTypeOK, File, Bytes
  <2> QED BY <1>2, <2>1 DEF Truncate, Counted, FilesTypeOK
<1>3. ASSUME NEW p \in Proc, NEW i \in Id, NEW b \in Text \cup {Bad}, Fill(p, i, b)
      PROVE FilesTypeOK'
  <2>1. [bytes |-> b, mtime |-> Coarse(now)] \in File /\ b \in Bytes
    BY CoarseType DEF FilesTypeOK, File, Bytes
  <2> QED BY <1>3, <2>1 DEF Fill, FilesTypeOK
<1>4. ASSUME NEW p \in Proc, NEW i \in Id, Remove(p, i) PROVE FilesTypeOK'
  BY <1>4 DEF Remove, Counted, FilesTypeOK
<1>5. ASSUME NEW p \in Proc, Drop(p) PROVE FilesTypeOK'
  BY <1>5 DEF Drop, FilesTypeOK
<1> QED BY <1>1, <1>2, <1>3, <1>4, <1>5
=============================================================================
