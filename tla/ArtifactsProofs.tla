--------------------------- MODULE ArtifactsProofs ---------------------------
(***************************************************************************)
(* Proofs about Artifacts: what is left on the disk belongs together, for  *)
(* any number of runs, any settings and any interleaving with rebuilds.    *)
(***************************************************************************)
EXTENDS Artifacts, FlatteningProofs, SequenceTheorems

----------------------------------------------------------------------------
(* The encoding: the host decodes what the guest encodes, for any number of points and accounts. *)

\* Whatever a word may hold.
Word == Roots \cup Contracts \cup Nat

\* An array stands in the words at an offset.
StandsAt(words, at, array) ==
  \A k \in DOMAIN array : words[at + k - 1] = array[k]

\* An array is its length and its rows, one word after the other.
LEMMA ArrayIsOfWords ==
  ASSUME NEW rows \in Seq(Seq(Word)), NEW array, array = EncodeArray(rows)
  PROVE  array \in Seq(Word) /\ Len(array) \in Nat
<1>1. Len(rows) \in Nat
  OBVIOUS
<1>2. FlattenSeq(rows) \in Seq(Word)
  BY FlattenElements
<1>3. <<Len(rows)>> \in Seq(Word)
  BY <1>1 DEF Word
<1>4. array \in Seq(Word)
  BY <1>2, <1>3, Concatenation DEF EncodeArray
<1> QED
  BY <1>4

LEMMA ArrayDecodes ==
  ASSUME NEW rows \in Seq(Seq(Word)), NEW width \in Nat,
         \A i \in DOMAIN rows : Len(rows[i]) = width,
         NEW array, array = EncodeArray(rows),
         NEW words, NEW at \in Nat, StandsAt(words, at, array)
  PROVE  DecodeArray(words, at, width) = rows
<1> DEFINE flat == FlattenSeq(rows)
<1>1. Len(rows) \in Nat /\ DOMAIN rows = 1 .. Len(rows)
  OBVIOUS
<1>2. \A i \in 1 .. Len(rows) : rows[i] \in Seq(Word) /\ Len(rows[i]) = width
  <2>1. PICK T : T = Seq(Word)
    OBVIOUS
  <2>2. rows \in Seq(T)
    BY <2>1
  <2>3. \A i \in 1 .. Len(rows) : rows[i] \in T
    BY <2>2
  <2> QED
    BY <1>1, <2>1, <2>3
<1>3. /\ flat \in Seq(Word) /\ Len(flat) = width * Len(rows)
      /\ \A i \in DOMAIN rows : \A j \in 1 .. width : flat[width * (i - 1) + j] = rows[i][j]
  BY FlattenElements, FlattenRecords
<1>4. array = <<Len(rows)>> \o flat
  BY DEF EncodeArray
<1> HIDE DEF flat
<1>5. <<Len(rows)>> \in Seq(Word) /\ Len(<<Len(rows)>>) = 1 /\ <<Len(rows)>>[1] = Len(rows)
  BY <1>1 DEF Word
<1>6. /\ array \in Seq(Word) /\ Len(array) = 1 + Len(flat)
      /\ 1 \in DOMAIN array /\ array[1] = Len(rows)
      /\ \A k \in DOMAIN flat : 1 + k \in DOMAIN array /\ array[1 + k] = flat[k]
  BY <1>3, <1>4, <1>5, Concatenation
<1>7. words[at] = Len(rows)
  BY <1>6 DEF StandsAt
<1>8. ASSUME NEW i \in 1 .. Len(rows)
      PROVE  SubSeq(words, at + 1 + width * (i - 1), at + width * i) = rows[i]
  <2> DEFINE m == at + 1 + width * (i - 1)
             n == at + width * i
             row == SubSeq(words, m, n)
  <2>1. width * (i - 1) \in Nat /\ width * i = width * (i - 1) + width
    BY SMTT(30)
  <2>2. PICK before \in Nat : before = width * (i - 1)
    BY <2>1
  <2>3. before + width <= width * Len(rows)
    BY <1>1, <2>2, SMTT(30)
  <2>4. m = at + 1 + before /\ n = at + before + width
    BY <2>1, <2>2
  <2> HIDE DEF m, n
  <2>5. m \in Nat /\ n \in Nat /\ n - m + 1 = width
    BY <2>4
  <2>6. rows[i] \in Seq(Word) /\ Len(rows[i]) = width
    BY <1>2
  <2>7. ASSUME NEW j \in 1 .. width PROVE words[m + j - 1] = rows[i][j]
    <3>1. before + j \in 1 .. Len(flat) /\ before + j \in DOMAIN flat
      <4>1. before + j \in 1 .. Len(flat)
        BY <1>1, <1>3, <2>3
      <4> QED
        BY <1>3, <4>1
    <3>2. flat[before + j] = rows[i][j]
      BY <1>1, <1>3, <2>2
    <3>3. PICK k : k = 1 + (before + j)
      OBVIOUS
    <3>4. k \in DOMAIN array /\ array[k] = rows[i][j]
      BY <1>6, <3>1, <3>2, <3>3
    <3>5. m + j - 1 = at + k - 1
      BY <2>4, <3>3
    <3> QED
      BY <3>4, <3>5 DEF StandsAt
  <2>8. ASSUME NEW k \in m .. n PROVE words[k] \in Word
    <3>1. PICK j \in 1 .. width : k = m + j - 1
      <4>1. k - m + 1 \in 1 .. width /\ k = m + (k - m + 1) - 1
        BY <2>5
      <4> QED
        BY <4>1
    <3>2. rows[i][j] \in Word
      BY <2>6
    <3> QED
      BY <2>7, <3>1, <3>2
  <2>9. row \in Seq(Word) /\ Len(row) = width /\ \A j \in 1 .. width : row[j] = words[m + j - 1]
    <3>1. /\ row \in Seq(Word)
          /\ Len(row) = IF m <= n THEN n - m + 1 ELSE 0
          /\ \A j \in 1 .. n - m + 1 : row[j] = words[m + j - 1]
      BY <2>5, <2>8, SubSeqProperties
    <3>2. Len(row) = width
      BY <2>5, <3>1
    <3> QED
      BY <2>5, <3>1, <3>2
  <2> HIDE DEF row
  <2>10. row = rows[i]
    <3>1. PICK its \in Seq(Word) : its = rows[i]
      BY <2>6
    <3>2. Len(row) = Len(its) /\ \A j \in 1 .. Len(row) : row[j] = its[j]
      BY <2>6, <2>7, <2>9, <3>1
    <3>3. row = its
      BY <2>9, <3>1, <3>2, SeqEqual
    <3> QED
      BY <3>1, <3>3
  <2> QED
    BY <2>10 DEF row, m, n
<1>9. DecodeArray(words, at, width) = rows
  <2>1. DecodeArray(words, at, width) = [i \in 1 .. Len(rows) |-> rows[i]]
    BY <1>7, <1>8 DEF DecodeArray
  <2> QED
    BY <1>1, <2>1
<1> QED
  BY <1>9
-----------------------------------------------------------------------------
(* The items *)

LEMMA PointDecodes ==
  ASSUME NEW p \in PointResult
  PROVE  /\ EncodePoint(p) \in Seq(Word) /\ Len(EncodePoint(p)) = 5
         /\ DecodePoint(EncodePoint(p)) = p
<1>1. /\ p.gauge \in Word /\ p.epoch \in Word /\ p.bias \in Word
      /\ p.protocol_id \in Word /\ p.gauge_controller \in Word
  BY DEF PointResult, Word
<1>2. EncodePoint(p) \in Seq(Word) /\ Len(EncodePoint(p)) = 5
  BY <1>1 DEF EncodePoint
<1>3. DecodePoint(EncodePoint(p)) = p
  BY DEF DecodePoint, EncodePoint, PointResult
<1> QED
  BY <1>2, <1>3

LEMMA AccountDecodes ==
  ASSUME NEW a \in AccountResult
  PROVE  /\ EncodeAccount(a) \in Seq(Word) /\ Len(EncodeAccount(a)) = 8
         /\ DecodeAccount(EncodeAccount(a)) = a
<1>1. /\ a.account \in Word /\ a.gauge \in Word /\ a.epoch \in Word /\ a.slope \in Word
      /\ a.end \in Word /\ a.last_vote \in Word /\ a.protocol_id \in Word
      /\ a.gauge_controller \in Word
  BY DEF AccountResult, Word
<1>2. EncodeAccount(a) \in Seq(Word) /\ Len(EncodeAccount(a)) = 8
  BY <1>1 DEF EncodeAccount
<1>3. DecodeAccount(EncodeAccount(a)) = a
  BY DEF DecodeAccount, EncodeAccount, AccountResult
<1> QED
  BY <1>2, <1>3

LEMMA RowsOfPoints ==
  ASSUME NEW points \in Seq(PointResult),
         NEW rows, rows = [i \in DOMAIN points |-> EncodePoint(points[i])]
  PROVE  /\ rows \in Seq(Seq(Word)) /\ \A i \in DOMAIN rows : Len(rows[i]) = 5
         /\ [i \in DOMAIN rows |-> DecodePoint(rows[i])] = points
         /\ \A i \in DOMAIN points : points[i].epoch \in 0 .. MaxEpoch
<1>1. PICK n \in Nat : n = Len(points) /\ DOMAIN points = 1 .. n
  OBVIOUS
<1>2. /\ points = [i \in 1 .. n |-> points[i]] /\ \A i \in 1 .. n : points[i] \in PointResult
  BY <1>1
<1>3. PICK T : T = Seq(Word)
  OBVIOUS
<1>4. rows \in [1 .. n -> T] /\ \A i \in 1 .. n : rows[i] = EncodePoint(points[i])
  BY <1>1, <1>2, <1>3, PointDecodes
<1>5. rows \in Seq(T) /\ DOMAIN rows = 1 .. n
  BY <1>1, <1>4
<1>6. \A i \in 1 .. n : Len(rows[i]) = 5 /\ DecodePoint(rows[i]) = points[i]
  BY <1>2, <1>4, PointDecodes
<1>7. [i \in DOMAIN rows |-> DecodePoint(rows[i])] = [i \in 1 .. n |-> points[i]]
  BY <1>5, <1>6
<1>8. \A i \in 1 .. n : points[i].epoch \in 0 .. MaxEpoch
  BY <1>2 DEF PointResult
<1> QED
  BY <1>1, <1>2, <1>3, <1>5, <1>6, <1>7, <1>8

LEMMA RowsOfAccounts ==
  ASSUME NEW accounts \in Seq(AccountResult),
         NEW rows, rows = [i \in DOMAIN accounts |-> EncodeAccount(accounts[i])]
  PROVE  /\ rows \in Seq(Seq(Word)) /\ \A i \in DOMAIN rows : Len(rows[i]) = 8
         /\ [i \in DOMAIN rows |-> DecodeAccount(rows[i])] = accounts
         /\ \A i \in DOMAIN accounts : accounts[i].epoch \in 0 .. MaxEpoch
<1>1. PICK n \in Nat : n = Len(accounts) /\ DOMAIN accounts = 1 .. n
  OBVIOUS
<1>2. /\ accounts = [i \in 1 .. n |-> accounts[i]]
      /\ \A i \in 1 .. n : accounts[i] \in AccountResult
  BY <1>1
<1>3. PICK T : T = Seq(Word)
  OBVIOUS
<1>4. rows \in [1 .. n -> T] /\ \A i \in 1 .. n : rows[i] = EncodeAccount(accounts[i])
  BY <1>1, <1>2, <1>3, AccountDecodes
<1>5. rows \in Seq(T) /\ DOMAIN rows = 1 .. n
  BY <1>1, <1>4
<1>6. \A i \in 1 .. n : Len(rows[i]) = 8 /\ DecodeAccount(rows[i]) = accounts[i]
  BY <1>2, <1>4, AccountDecodes
<1>7. [i \in DOMAIN rows |-> DecodeAccount(rows[i])] = [i \in 1 .. n |-> accounts[i]]
  BY <1>5, <1>6
<1>8. \A i \in 1 .. n : accounts[i].epoch \in 0 .. MaxEpoch
  BY <1>2 DEF AccountResult
<1> QED
  BY <1>1, <1>2, <1>3, <1>5, <1>6, <1>7, <1>8
-----------------------------------------------------------------------------
(* The whole *)

\* The host goes by the offsets it finds.
LEMMA DecodeOf ==
  ASSUME NEW words, NEW head, head = words[1] + 1,
         NEW points, points = DecodeArray(words, head + words[head + 2], 5),
         NEW accounts, accounts = DecodeArray(words, head + words[head + 3], 8)
  PROVE  DecodeStruct(words) =
           [stateRoot |-> words[head], epoch |-> words[head + 1],
            points |-> [i \in DOMAIN points |-> DecodePoint(points[i])],
            accounts |-> [i \in DOMAIN accounts |-> DecodeAccount(accounts[i])]]
BY DEF DecodeStruct

\* Whatever the guest commits, the host reads back field by field and without an error
\* (decode_abi_public_values, against the encoding in the guest).
THEOREM DecodeInvertsEncode ==
  ASSUME NEW values \in Output
  PROVE  Decode(Encode(values)) = [ok |-> TRUE, output |-> values]
<1>1. /\ values.stateRoot \in Roots /\ values.epoch \in 0 .. MaxEpoch
      /\ values.points \in Seq(PointResult) /\ values.accounts \in Seq(AccountResult)
  BY DEF Output
<1>2. PICK sums, votes : sums = values.points /\ votes = values.accounts
  OBVIOUS
<1>3. PICK pointRows : pointRows = [i \in DOMAIN sums |-> EncodePoint(sums[i])]
  OBVIOUS
<1>4. PICK accountRows : accountRows = [i \in DOMAIN votes |-> EncodeAccount(votes[i])]
  OBVIOUS
<1>5. /\ pointRows \in Seq(Seq(Word)) /\ \A i \in DOMAIN pointRows : Len(pointRows[i]) = 5
      /\ [i \in DOMAIN pointRows |-> DecodePoint(pointRows[i])] = sums
      /\ \A i \in DOMAIN sums : sums[i].epoch \in 0 .. MaxEpoch
  <2>1. sums \in Seq(PointResult)
    BY <1>2, <1>1
  <2> QED
    BY <1>3, <2>1, RowsOfPoints
<1>6. /\ accountRows \in Seq(Seq(Word)) /\ \A i \in DOMAIN accountRows : Len(accountRows[i]) = 8
      /\ [i \in DOMAIN accountRows |-> DecodeAccount(accountRows[i])] = votes
      /\ \A i \in DOMAIN votes : votes[i].epoch \in 0 .. MaxEpoch
  <2>1. votes \in Seq(AccountResult)
    BY <1>2, <1>1
  <2> QED
    BY <1>4, <2>1, RowsOfAccounts
<1>7. PICK points, accounts, words :
        /\ points = EncodeArray(pointRows) /\ accounts = EncodeArray(accountRows)
        /\ words = Encode(values)
  OBVIOUS
<1>8. words = <<1, values.stateRoot, values.epoch, 4, 4 + Len(points)>> \o points \o accounts
  BY <1>2, <1>3, <1>4, <1>7 DEF Encode
<1>9. points \in Seq(Word) /\ Len(points) \in Nat
  BY <1>5, <1>7, ArrayIsOfWords
<1>10. accounts \in Seq(Word) /\ Len(accounts) \in Nat
  BY <1>6, <1>7, ArrayIsOfWords
<1>11. /\ words[1] = 1 /\ words[2] = values.stateRoot /\ words[3] = values.epoch
       /\ words[4] = 4 /\ words[5] = 4 + Len(points)
       /\ StandsAt(words, 6, points) /\ StandsAt(words, 6 + Len(points), accounts)
  <2>1. PICK head : head = <<1, values.stateRoot, values.epoch, 4, 4 + Len(points)>>
    OBVIOUS
  <2>2. head \in Seq(Word) /\ Len(head) = 5 /\ DOMAIN head = 1 .. 5
    BY <1>1, <1>9, <2>1 DEF Word
  <2>3. PICK front : front = head \o points
    OBVIOUS
  <2>4. /\ front \in Seq(Word) /\ Len(front) = 5 + Len(points)
        /\ \A k \in DOMAIN head : k \in DOMAIN front /\ front[k] = head[k]
        /\ \A k \in DOMAIN points : 5 + k \in DOMAIN front /\ front[5 + k] = points[k]
    <3>1. head \in Seq(Word) /\ points \in Seq(Word) /\ front = head \o points
      BY <1>9, <2>2, <2>3
    <3>2. /\ front \in Seq(Word) /\ Len(front) = Len(head) + Len(points)
          /\ \A k \in DOMAIN head : k \in DOMAIN front /\ front[k] = head[k]
          /\ \A k \in DOMAIN points :
               Len(head) + k \in DOMAIN front /\ front[Len(head) + k] = points[k]
      BY <3>1, Concatenation
    <3> QED
      BY <2>2, <3>2
  <2>5. words = front \o accounts
    BY <1>8, <2>1, <2>3
  <2>6. /\ \A k \in DOMAIN front : words[k] = front[k]
        /\ \A k \in DOMAIN accounts : words[5 + Len(points) + k] = accounts[k]
    BY <1>10, <2>4, <2>5, Concatenation
  <2>7. \A k \in 1 .. 5 : words[k] = head[k]
    BY <2>2, <2>4, <2>6
  <2>8. ASSUME NEW k \in DOMAIN points PROVE words[6 + k - 1] = points[k]
    <3>1. k \in Nat /\ 6 + k - 1 = 5 + k
      BY <1>9
    <3> QED
      BY <2>4, <2>6, <3>1
  <2>9. ASSUME NEW k \in DOMAIN accounts PROVE words[6 + Len(points) + k - 1] = accounts[k]
    <3>1. k \in Nat /\ 6 + Len(points) + k - 1 = 5 + Len(points) + k
      BY <1>9, <1>10
    <3> QED
      BY <2>6, <3>1
  <2>10. /\ words[1] = 1 /\ words[2] = values.stateRoot /\ words[3] = values.epoch
         /\ words[4] = 4 /\ words[5] = 4 + Len(points)
    BY <2>1, <2>7
  <2> QED
    BY <2>8, <2>9, <2>10 DEF StandsAt
<1>12. DecodeArray(words, 6, 5) = pointRows
  <2>1. PICK at \in Nat, width \in Nat : at = 6 /\ width = 5
    OBVIOUS
  <2>2. /\ pointRows \in Seq(Seq(Word)) /\ \A i \in DOMAIN pointRows : Len(pointRows[i]) = width
        /\ points = EncodeArray(pointRows) /\ StandsAt(words, at, points)
    BY <1>5, <1>7, <1>11, <2>1
  <2>3. DecodeArray(words, at, width) = pointRows
    BY <2>2, ArrayDecodes
  <2> QED
    BY <2>1, <2>3
<1>13. DecodeArray(words, 6 + Len(points), 8) = accountRows
  <2>1. PICK at \in Nat, width \in Nat : at = 6 + Len(points) /\ width = 8
    BY <1>9
  <2>2. /\ accountRows \in Seq(Seq(Word))
        /\ \A i \in DOMAIN accountRows : Len(accountRows[i]) = width
        /\ accounts = EncodeArray(accountRows) /\ StandsAt(words, at, accounts)
    BY <1>6, <1>7, <1>11, <2>1
  <2>3. DecodeArray(words, at, width) = accountRows
    BY <2>2, ArrayDecodes
  <2> QED
    BY <2>1, <2>3
<1>14. values = [stateRoot |-> values.stateRoot, epoch |-> values.epoch,
                 points |-> sums, accounts |-> votes]
  BY <1>2 DEF Output
<1>15. DecodeStruct(words) = values
  <2>1. words[1] + 1 = 2 /\ 2 + words[2 + 2] = 6 /\ 2 + words[2 + 3] = 6 + Len(points)
    BY <1>9, <1>11
  <2>2. words[2] = values.stateRoot /\ words[2 + 1] = values.epoch
    BY <1>11
  <2>3. PICK head : head = words[1] + 1
    OBVIOUS
  <2>4. /\ pointRows = DecodeArray(words, head + words[head + 2], 5)
        /\ accountRows = DecodeArray(words, head + words[head + 3], 8)
    BY <1>12, <1>13, <2>1, <2>3
  <2>5. DecodeStruct(words) =
          [stateRoot |-> words[head], epoch |-> words[head + 1],
           points |-> [i \in DOMAIN pointRows |-> DecodePoint(pointRows[i])],
           accounts |-> [i \in DOMAIN accountRows |-> DecodeAccount(accountRows[i])]]
    BY <2>3, <2>4, DecodeOf
  <2>6. words[head] = values.stateRoot /\ words[head + 1] = values.epoch
    BY <2>1, <2>2, <2>3
  <2> QED
    BY <1>5, <1>6, <1>14, <2>5, <2>6
<1>16. \A e \in Epochs(values) : e <= MaxEpoch
  <2>1. /\ \A i \in DOMAIN values.points : values.points[i].epoch \in 0 .. MaxEpoch
        /\ \A i \in DOMAIN values.accounts : values.accounts[i].epoch \in 0 .. MaxEpoch
    BY <1>2, <1>5, <1>6
  <2>2. Epochs(values) \subseteq 0 .. MaxEpoch
    BY <1>1, <2>1, Zenon DEF Epochs
  <2> QED
    BY <2>2, MaxEpochAssumption
<1> QED
  BY <1>7, <1>15, <1>16 DEF Decode

----------------------------------------------------------------------------
(* The runs and the files *)

Active == {"configured", "loaded", "proved", "saving", "saved", "writing json"}
Early == {"start", "key only", "configured", "loaded", "proved"}
Writing == {"saving", "saved", "writing json"}

\* What a run's proof is, once it has one.
Own(r) ==
  /\ proof[r].program = elf[r]
  /\ proof[r].kind = plan[r].kind
  /\ plan[r].verify => proof[r].valid
  /\ proof[r].values \in Values

Whole(r) == [is |-> "proof", proof |-> proof[r]]

\* What an artifact says of the proof it is made of.
Describes(json, pf) ==
  /\ json.program_vkey = pf.program
  /\ json.proof_kind = pf.kind
  /\ json.proof_bytes = IF pf.kind \in {"plonk", "groth16"} THEN pf ELSE None
  /\ json.output = pf.values

FunInv ==
  /\ pc = [r \in Runs |-> pc[r]]
  /\ plan = [r \in Runs |-> plan[r]]
  /\ elf = [r \in Runs |-> elf[r]]
  /\ proof = [r \in Runs |-> proof[r]]
  /\ files = [path \in DOMAIN files |-> files[path]]
  /\ writers = [path \in DOMAIN files |-> writers[path]]

\* A run is somewhere, and its plan is what its settings say.
PlanInv ==
  \A r \in Runs :
    /\ pc[r] \in Early \cup Writing \cup {"done", "stopped"}
    /\ plan[r] = None \/ plan[r] = Plan(Loaded(r))
    /\ pc[r] \in Active => plan[r] = Plan(Loaded(r))

\* Who has a file open is one of its writers, and a writer has come as far as saving.
OpenInv ==
  /\ \A r \in Runs : \A path : HasOpen(r, path) => path \in DOMAIN files /\ r \in writers[path]
  /\ \A path \in DOMAIN files : \A r \in writers[path] :
       r \in Runs /\ pc[r] \in Writing \cup {"done", "stopped"}

Written(r) == \E path \in DOMAIN files : r \in writers[path]

ProofInv ==
  \A r \in Runs :
    pc[r] \in Writing \cup {"proved"} \/ Written(r) =>
      plan[r] = Plan(Loaded(r)) /\ Own(r)

\* A file only one run has had open is what that run has made of it.
SavingOk(r) ==
  pc[r] = "saving" /\ writers[plan[r].proofPath] = {r} => files[plan[r].proofPath] = Empty

SavedOk(r) ==
  \/ pc[r] = "saved"
  \/ pc[r] = "writing json" /\ plan[r].proofPath # plan[r].jsonPath
  => /\ plan[r].proofPath \in DOMAIN files
     /\ writers[plan[r].proofPath] = {r} => files[plan[r].proofPath] = Whole(r)

SavingInv == \A r \in Runs : SavingOk(r)
SavedInv == \A r \in Runs : SavedOk(r)

\* An artifact, the run that wrote it, and the proof beside it.
StandsBeside(path, r) ==
  /\ r \in Runs /\ pc[r] = "done"
  /\ r \in writers[path]
  /\ Describes(files[path], proof[r])
  /\ plan[r].proofPath \in DOMAIN files
  /\ plan[r].proofPath # path /\ writers[plan[r].proofPath] = {r} =>
       files[plan[r].proofPath] = Whole(r)

JsonInv == \A path \in Saved : StandsBeside(path, files[path].by)

IInv == FunInv /\ PlanInv /\ OpenInv /\ ProofInv /\ SavingInv /\ SavedInv /\ JsonInv
-----------------------------------------------------------------------------
(* The disk *)

\* What a step of a run does to the disk: it opens one file, or writes to one it has open.
Touched(q, path) ==
  /\ DOMAIN files' = DOMAIN files \cup {path}
  /\ files' = [p \in DOMAIN files' |-> files'[p]]
  /\ writers' = [p \in DOMAIN files' |-> writers'[p]]
  /\ \A p \in DOMAIN files \ {path} : files'[p] = files[p] /\ writers'[p] = writers[p]
  /\ q \in writers'[path]
  /\ \/ files'[path] = Empty /\ writers'[path] = {q} \cup {r \in Runs : HasOpen(r, path)}
     \/ path \in DOMAIN files /\ writers'[path] = writers[path]

LEMMA TruncateTouches ==
  ASSUME FunInv, NEW r, NEW path, Truncate(r, path)
  PROVE  Touched(r, path) /\ files'[path] = Empty
<1>1. files' = [p \in DOMAIN files \cup {path} |-> IF p = path THEN Empty ELSE files[p]]
  BY DEF Truncate, Put, FunInv
<1>2. DOMAIN writers = DOMAIN files
  BY DEF FunInv
<1>3. writers' = [p \in DOMAIN files \cup {path} |->
        IF p = path THEN {r} \cup {q \in Runs : HasOpen(q, path)} ELSE writers[p]]
  BY <1>2 DEF Truncate, Put
<1> QED
  BY <1>1, <1>3 DEF Touched

\* Who writes is among the writers.
LEMMA WriteTouches ==
  ASSUME FunInv, OpenInv, NEW r \in Runs, NEW path, HasOpen(r, path), NEW content,
         files' = [files EXCEPT ![path] = content], UNCHANGED writers
  PROVE  Touched(r, path) /\ files'[path] = content
<1>1. path \in DOMAIN files /\ r \in writers[path]
  BY DEF OpenInv
<1>2. DOMAIN writers = DOMAIN files /\ DOMAIN files' = DOMAIN files
  BY DEF FunInv
<1> QED
  BY <1>1, <1>2 DEF FunInv, Touched

\* A file that only one other run has been in is as it was.
LEMMA Undisturbed ==
  ASSUME FunInv, NEW q \in Runs, NEW path, Touched(q, path),
         NEW r \in Runs \ {q}, NEW p \in DOMAIN files', writers'[p] = {r}
  PROVE  p \in DOMAIN files /\ p # path /\ writers[p] = {r} /\ files'[p] = files[p]
BY DEF Touched
-----------------------------------------------------------------------------
(* Steps before the proof is saved *)

\* The other runs are where they were, with what they had.
Frame(q) ==
  /\ start' = start
  /\ \A r \in Runs \ {q} :
       pc'[r] = pc[r] /\ plan'[r] = plan[r] /\ elf'[r] = elf[r] /\ proof'[r] = proof[r]
  /\ pc' = [r \in Runs |-> pc'[r]] /\ plan' = [r \in Runs |-> plan'[r]]
  /\ elf' = [r \in Runs |-> elf'[r]] /\ proof' = [r \in Runs |-> proof'[r]]

\* What a run has come to by itself.
Sound(r) ==
  /\ pc[r] \in Early \cup Writing \cup {"done", "stopped"}
  /\ plan[r] = None \/ plan[r] = Plan(Loaded(r))
  /\ pc[r] \in Active => plan[r] = Plan(Loaded(r))
  /\ pc[r] = "proved" => Own(r)

EarlyStep(q) ==
  /\ Frame(q) /\ UNCHANGED disk
  /\ pc[q] \in Early /\ pc'[q] \notin Writing
  /\ Sound(q)'

LEMMA EarlyKeeps ==
  ASSUME IInv, NEW q \in Runs, EarlyStep(q)
  PROVE  IInv'
<1> USE DEF IInv, EarlyStep, Frame, disk
<1>1. FunInv'
  BY DEF FunInv
<1>2. \A r \in Runs \ {q} : Loaded(r)' = Loaded(r)
  BY DEF Loaded
<1>3. \A r \in Runs \ {q} : Plan(Loaded(r))' = Plan(Loaded(r))
  BY <1>2
<1>4. PlanInv'
  BY <1>3 DEF PlanInv, Sound
<1>6. \A p \in DOMAIN files : q \notin writers[p]
  BY DEF OpenInv, Early, Writing
<1>7. \A r \in Runs : \A path : HasOpen(r, path)' => HasOpen(r, path)
  BY DEF HasOpen, Writing
<1>8. OpenInv'
  BY <1>6, <1>7 DEF OpenInv
<1>9. \A r \in Runs : Written(r)' => Written(r) /\ r # q
  BY <1>6 DEF Written
<1>10. \A r \in Runs \ {q} : Own(r)' <=> Own(r)
  BY DEF Own
<1>11. ProofInv'
  BY <1>3, <1>9, <1>10 DEF ProofInv, Sound, Active
<1>12. SavingInv'
  <2> SUFFICES ASSUME NEW r \in Runs, pc'[r] = "saving", writers'[plan'[r].proofPath] = {r}
               PROVE  files'[plan'[r].proofPath] = Empty
    BY DEF SavingInv, SavingOk, Empty
  <2>1. r # q
    BY DEF Writing
  <2> QED
    BY <2>1 DEF SavingInv, SavingOk
<1>13. SavedInv'
  <2> SUFFICES ASSUME NEW r \in Runs PROVE SavedOk(r)'
    BY DEF SavedInv
  <2>1. CASE r = q
    BY <2>1 DEF Writing, SavedOk
  <2>2. CASE r # q
    <3>1. Whole(r)' = Whole(r)
      BY <2>2 DEF Whole
    <3> QED
      BY <2>2, <3>1 DEF SavedInv, SavedOk
  <2> QED
    BY <2>1, <2>2
<1>14. JsonInv'
  <2> SUFFICES ASSUME NEW path \in Saved' PROVE StandsBeside(path, files[path].by)'
    BY DEF JsonInv
  <2> DEFINE r == files[path].by
  <2>1. path \in Saved /\ StandsBeside(path, r)
    BY DEF Saved, JsonInv
  <2>2. r \in Runs \ {q}
    BY <2>1 DEF StandsBeside, Early
  <2>3. Whole(r)' = Whole(r)
    BY <2>2 DEF Whole
  <2>4. Describes(files[path], proof[r])'
    BY <2>1, <2>2 DEF StandsBeside, Describes
  <2> QED
    BY <2>1, <2>2, <2>3, <2>4 DEF StandsBeside
<1> QED
  BY <1>1, <1>4, <1>8, <1>11, <1>12, <1>13, <1>14
-----------------------------------------------------------------------------
(* Steps that save it *)

LateStep(q) ==
  /\ Frame(q) /\ UNCHANGED <<plan, elf, proof>>
  /\ pc[q] \in Writing \cup {"proved"} /\ pc'[q] \in Writing \cup {"done", "stopped"}

\* The run answers for itself and for the file it touches; the others are not disturbed.
LEMMA LateKeeps ==
  ASSUME IInv, NEW q \in Runs, LateStep(q), NEW path,
         \/ UNCHANGED disk
         \/ Touched(q, path) /\ (path \in Saved' => StandsBeside(path, files[path].by)'),
         \A p : HasOpen(q, p)' => p \in DOMAIN files' /\ q \in writers'[p],
         SavingOk(q)', SavedOk(q)'
  PROVE  IInv'
<1> USE DEF IInv, LateStep, Frame
<1>1. FunInv'
  BY DEF FunInv, Touched, disk
<1>2. \A r \in Runs : Loaded(r)' = Loaded(r)
  BY DEF Loaded
<1>3. \A r \in Runs : Plan(Loaded(r))' = Plan(Loaded(r))
  BY <1>2
<1>4. PlanInv'
  BY <1>3 DEF PlanInv, Active, Writing
<1>5. \A r \in Runs \ {q} : \A p : HasOpen(r, p)' <=> HasOpen(r, p)
  BY DEF HasOpen
<1>6. \A p \in DOMAIN files' : \A r \in writers'[p] :
        \/ r = q
        \/ r \in Runs /\ HasOpen(r, p)
        \/ p \in DOMAIN files /\ r \in writers[p]
  BY DEF Touched, disk
<1>7. \A r \in Runs : \A p : HasOpen(r, p) => pc[r] \in Writing
  BY DEF HasOpen, Writing
<1>8. OpenInv'
  <2>1. \A r \in Runs \ {q} : \A p : HasOpen(r, p)' => p \in DOMAIN files' /\ r \in writers'[p]
    BY <1>5 DEF OpenInv, Touched, disk
  <2>2. \A p \in DOMAIN files' : \A r \in writers'[p] :
          r \in Runs /\ pc'[r] \in Writing \cup {"done", "stopped"}
    BY <1>6, <1>7 DEF OpenInv
  <2> QED
    BY <2>1, <2>2 DEF OpenInv, Writing
<1>9. \A r \in Runs \ {q} : Written(r)' => Written(r) \/ pc[r] \in Writing
  BY <1>6, <1>7 DEF Written
<1>10. \A r \in Runs : Own(r)' <=> Own(r)
  BY DEF Own
<1>11. ProofInv'
  BY <1>3, <1>9, <1>10 DEF ProofInv, Writing
<1>12. \A r \in Runs \ {q} : \A p \in DOMAIN files' : writers'[p] = {r} =>
         p \in DOMAIN files /\ writers[p] = {r} /\ files'[p] = files[p]
  BY Undisturbed DEF disk
<1>13. DOMAIN files \subseteq DOMAIN files'
  BY DEF Touched, disk
<1>14. \A r \in Runs : Whole(r)' = Whole(r)
  BY DEF Whole
<1>15. SavingInv'
  <2> SUFFICES ASSUME NEW r \in Runs \ {q}, pc'[r] = "saving", writers'[plan'[r].proofPath] = {r}
               PROVE  files'[plan'[r].proofPath] = Empty
    BY DEF SavingInv, SavingOk, Empty
  <2>1. plan[r].proofPath \in DOMAIN files
    BY DEF OpenInv, HasOpen
  <2> QED
    BY <1>12, <1>13, <2>1 DEF SavingInv, SavingOk
<1>16. SavedInv'
  <2> SUFFICES ASSUME NEW r \in Runs \ {q} PROVE SavedOk(r)'
    BY DEF SavedInv
  <2>1. SavedOk(r) /\ pc'[r] = pc[r] /\ plan' = plan /\ Whole(r)' = Whole(r)
    BY <1>14 DEF SavedInv
  <2> DEFINE beside == plan[r].proofPath
             due == \/ pc[r] = "saved"
                    \/ pc[r] = "writing json" /\ beside # plan[r].jsonPath
  <2>2. due => beside \in DOMAIN files /\ (writers[beside] = {r} => files[beside] = Whole(r))
    BY <2>1 DEF SavedOk
  <2>3. due' = due /\ beside' = beside
    BY <2>1
  <2>4. due => beside \in DOMAIN files' /\ (writers'[beside] = {r} => files'[beside] = Whole(r))
    BY <1>12, <1>13, <2>2
  <2>5. due' => /\ beside' \in DOMAIN files'
                /\ writers'[beside'] = {r} => files'[beside'] = Whole(r)'
    BY <2>1, <2>3, <2>4
  <2> QED
    BY <2>5 DEF SavedOk
<1>17. JsonInv'
  <2> SUFFICES ASSUME NEW p \in Saved' PROVE StandsBeside(p, files[p].by)'
    BY DEF JsonInv
  <2> DEFINE r == files[p].by
  <2>1. CASE ~UNCHANGED disk /\ p = path
    BY <2>1
  <2>2. CASE UNCHANGED disk \/ p # path
    <3>1. p \in DOMAIN files /\ files'[p] = files[p] /\ writers'[p] = writers[p]
      BY <2>2 DEF Saved, Touched, disk
    <3>2. StandsBeside(p, r)
      BY <3>1 DEF JsonInv, Saved
    <3>3. r \in Runs \ {q}
      BY <3>2 DEF StandsBeside, Writing
    <3>4. Describes(files[p], proof[r])'
      BY <3>1, <3>2, <3>3 DEF StandsBeside, Describes
    <3>5. r' = r
      BY <3>1
    <3> HIDE DEF r
    <3>6. StandsBeside(p, r)'
      BY <1>12, <1>13, <1>14, <3>1, <3>2, <3>3, <3>4, <3>5 DEF StandsBeside
    <3> QED
      BY <3>6 DEF r
  <2> QED
    BY <2>1, <2>2
<1> QED
  BY <1>1, <1>4, <1>8, <1>11, <1>15, <1>16, <1>17
-----------------------------------------------------------------------------
(* The actions *)

LEMMA InitIInv == Init => IInv
<1> SUFFICES ASSUME Init PROVE IInv
  OBVIOUS
<1> USE DEF Init
<1>1. DOMAIN files = {}
  OBVIOUS
<1>2. FunInv
  BY DEF FunInv
<1>3. PlanInv /\ OpenInv
  BY <1>1 DEF PlanInv, OpenInv, HasOpen, Active, Early
<1>4. ProofInv
  BY <1>1 DEF ProofInv, Written, Writing
<1>5. SavingInv /\ SavedInv
  BY DEF SavingInv, SavedInv, SavingOk, SavedOk
<1>6. JsonInv
  BY <1>1 DEF JsonInv, Saved
<1> QED
  BY <1>2, <1>3, <1>4, <1>5, <1>6 DEF IInv

LEMMA ConfigureKeeps ==
  ASSUME IInv, NEW q \in Runs, Configure(q)
  PROVE  IInv'
<1>1. FunInv /\ PlanInv
  BY DEF IInv
<1>2. start' = start /\ UNCHANGED disk /\ UNCHANGED <<elf, proof>>
  BY DEF Configure, world
<1>3. /\ pc[q] = "start" /\ pc'[q] \in {"key only", "configured"}
      /\ pc' = [pc EXCEPT ![q] = pc'[q]]
      /\ plan' = plan \/ plan' = [plan EXCEPT ![q] = Plan(Loaded(q))]
      /\ pc'[q] = "configured" => plan' = [plan EXCEPT ![q] = Plan(Loaded(q))]
  BY <1>1 DEF FunInv, Configure, At
<1>4. Frame(q)
  BY <1>1, <1>2, <1>3 DEF FunInv, Frame
<1>5. Plan(Loaded(q))' = Plan(Loaded(q))
  BY <1>2 DEF Loaded
<1>6. Sound(q)'
  BY <1>1, <1>3, <1>5 DEF FunInv, PlanInv, Sound, Active, Early
<1>7. EarlyStep(q)
  BY <1>2, <1>3, <1>4, <1>6 DEF EarlyStep, Early, Writing
<1> QED
  BY <1>7, EarlyKeeps

\* Steps that leave the plan of a run, and the proof unless it gets one.
LEMMA QuietKeeps ==
  ASSUME IInv, NEW q \in Runs, NEW from \in Early, NEW to, to \notin Writing,
         to \in Early \cup {"done", "stopped"}, to \in Active => from \in Active,
         At(q, from, to), UNCHANGED <<start, plan>>, UNCHANGED disk,
         elf' = [elf EXCEPT ![q] = elf'[q]], proof' = [proof EXCEPT ![q] = proof'[q]],
         to = "proved" => Own(q)'
  PROVE  IInv'
<1>1. FunInv /\ PlanInv
  BY DEF IInv
<1>2. pc[q] = from /\ pc'[q] = to /\ pc' = [pc EXCEPT ![q] = to]
  BY <1>1 DEF FunInv, At
<1>3. Frame(q)
  BY <1>1, <1>2 DEF FunInv, Frame
<1>4. Plan(Loaded(q))' = Plan(Loaded(q))
  BY DEF Loaded
<1>5. Sound(q)'
  BY <1>1, <1>2, <1>4 DEF PlanInv, Sound
<1>6. EarlyStep(q)
  BY <1>2, <1>3, <1>5 DEF EarlyStep
<1> QED
  BY <1>6, EarlyKeeps

LEMMA ReadElfKeeps ==
  ASSUME IInv, NEW q \in Runs, ReadElf(q)
  PROVE  IInv'
<1>1. FunInv
  BY DEF IInv
<1>2. PICK from \in {"key only", "configured"}, to \in {"done", "loaded"} :
        At(q, from, to) /\ (to = "loaded" => from = "configured")
  BY DEF ReadElf
<1>3. /\ UNCHANGED <<start, plan, proof>> /\ UNCHANGED disk
      /\ elf' = [elf EXCEPT ![q] = elf'[q]]
  BY <1>1 DEF FunInv, ReadElf, world
<1>4. proof' = [proof EXCEPT ![q] = proof'[q]]
  BY <1>1, <1>3 DEF FunInv
<1> QED
  BY <1>2, <1>3, <1>4, QuietKeeps DEF Early, Active, Writing

LEMMA ExecuteKeeps ==
  ASSUME IInv, NEW q \in Runs, Execute(q)
  PROVE  IInv'
<1>1. FunInv
  BY DEF IInv
<1>2. At(q, "loaded", "done") /\ UNCHANGED <<start, plan, elf, proof>> /\ UNCHANGED disk
  BY DEF Execute, world
<1>3. elf' = [elf EXCEPT ![q] = elf'[q]] /\ proof' = [proof EXCEPT ![q] = proof'[q]]
  BY <1>1, <1>2 DEF FunInv
<1> QED
  BY <1>2, <1>3, QuietKeeps DEF Early, Active, Writing

LEMMA ProveKeeps ==
  ASSUME IInv, NEW q \in Runs, Prove(q)
  PROVE  IInv'
<1>1. FunInv
  BY DEF IInv
<1>2. At(q, "loaded", "proved") /\ UNCHANGED <<start, plan, elf>> /\ UNCHANGED disk
  BY DEF Prove, world
<1>3. PICK values \in Values, valid \in BOOLEAN :
        proof' = [proof EXCEPT ![q] = [by |-> q, program |-> elf[q], kind |-> plan[q].kind,
                                       values |-> values, valid |-> valid]]
  BY DEF Prove
<1>4. elf' = [elf EXCEPT ![q] = elf'[q]] /\ proof' = [proof EXCEPT ![q] = proof'[q]]
  BY <1>1, <1>2, <1>3 DEF FunInv
<1>5. proof'[q].program = elf[q] /\ proof'[q].kind = plan[q].kind /\ proof'[q].values \in Values
  BY <1>1, <1>3 DEF FunInv
<1>6. plan[q].verify => proof'[q].valid
  BY DEF Prove, PassesVerification
<1>7. Own(q)'
  BY <1>2, <1>5, <1>6 DEF Own
<1> QED
  BY <1>2, <1>4, <1>7, QuietKeeps DEF Early, Active, Writing

\* A step of a run that leaves what it holds, and only moves on.
LEMMA LateFrame ==
  ASSUME FunInv, NEW q \in Runs, NEW from \in Writing \cup {"proved"},
         NEW to \in Writing \cup {"done", "stopped"},
         At(q, from, to), UNCHANGED <<start, plan, elf, proof>>
  PROVE  LateStep(q) /\ pc[q] = from /\ pc'[q] = to
<1>1. pc[q] = from /\ pc'[q] = to /\ \A r \in Runs \ {q} : pc'[r] = pc[r]
  BY DEF FunInv, At
<1>2. pc' = [r \in Runs |-> pc'[r]]
  BY DEF FunInv, At
<1>3. Frame(q)
  BY <1>1, <1>2 DEF FunInv, Frame
<1> QED
  BY <1>1, <1>3 DEF LateStep

LEMMA OpenProofKeeps ==
  ASSUME IInv, NEW q \in Runs, OpenProof(q)
  PROVE  IInv'
<1> DEFINE path == plan[q].proofPath
<1>1. FunInv
  BY DEF IInv
<1>2. At(q, "proved", "saving") /\ UNCHANGED <<start, plan, elf, proof>> /\ Truncate(q, path)
  BY DEF OpenProof, world
<1>3. LateStep(q) /\ pc'[q] = "saving"
  BY <1>1, <1>2, LateFrame DEF Writing
<1>4. Touched(q, path) /\ files'[path] = Empty
  BY <1>1, <1>2, TruncateTouches
<1>5. path \in DOMAIN files' /\ q \in writers'[path]
  BY <1>4 DEF Touched
<1>6. \A p : HasOpen(q, p)' => p \in DOMAIN files' /\ q \in writers'[p]
  BY <1>2, <1>3, <1>5 DEF HasOpen
<1>7. SavingOk(q)'
  BY <1>2, <1>4 DEF SavingOk, Empty
<1>8. SavedOk(q)'
  BY <1>3 DEF SavedOk
<1>9. path \notin Saved'
  BY <1>4 DEF Saved, Empty
<1> HIDE DEF path
<1> QED
  BY <1>3, <1>4, <1>6, <1>7, <1>8, <1>9, LateKeeps

LEMMA WriteProofKeeps ==
  ASSUME IInv, NEW q \in Runs, WriteProof(q)
  PROVE  IInv'
<1> DEFINE path == plan[q].proofPath
<1>1. FunInv /\ OpenInv /\ SavingOk(q)
  BY DEF IInv, SavingInv
<1>2. /\ At(q, "saving", "saved") /\ UNCHANGED <<start, plan, elf, proof>>
      /\ UNCHANGED writers /\ Write(path, Whole(q))
  BY DEF WriteProof, Write, Whole, world
<1>3. LateStep(q) /\ pc[q] = "saving" /\ pc'[q] = "saved"
  BY <1>1, <1>2, LateFrame DEF Writing
<1>4. HasOpen(q, path)
  BY <1>3 DEF HasOpen
<1>5. PICK content \in {Whole(q), Torn} :
        /\ files' = [files EXCEPT ![path] = content]
        /\ content = Whole(q) \/ files[path] # Empty
  <2> DEFINE whole == Whole(q)
             torn == Torn
  <2> HIDE DEF whole, torn, path
  <2>1. Write(path, whole)
    BY <1>2 DEF whole
  <2>2. CASE files' = [files EXCEPT ![path] = whole]
    BY <2>2 DEF whole
  <2>3. CASE files[path] # Empty /\ files' = [files EXCEPT ![path] = torn]
    BY <2>3 DEF torn
  <2> QED
    BY <2>1, <2>2, <2>3 DEF Write, torn
<1>6. Touched(q, path) /\ files'[path] = content
  BY <1>1, <1>2, <1>4, <1>5, WriteTouches
<1>7. \A p : ~HasOpen(q, p)'
  BY <1>3 DEF HasOpen
<1>8. path' = path /\ Whole(q)' = Whole(q)
  BY <1>2 DEF Whole
<1>9. SavingOk(q)'
  BY <1>3 DEF SavingOk
<1>10. writers'[path] = {q} => files'[path] = Whole(q)
  BY <1>1, <1>2, <1>3, <1>5, <1>6 DEF SavingOk
<1>11. path \in DOMAIN files'
  BY <1>6 DEF Touched
<1>12. SavedOk(q)'
  BY <1>3, <1>8, <1>10, <1>11 DEF SavedOk
<1>13. path \notin Saved'
  BY <1>5, <1>6 DEF Saved, Whole, Torn
<1> HIDE DEF path
<1> QED
  BY <1>3, <1>6, <1>7, <1>9, <1>12, <1>13, LateKeeps

LEMMA OpenJsonKeeps ==
  ASSUME IInv, NEW q \in Runs, OpenJson(q)
  PROVE  IInv'
<1> DEFINE path == plan[q].jsonPath
           beside == plan[q].proofPath
<1>1. FunInv /\ SavedOk(q)
  BY DEF IInv, SavedInv
<1>2. At(q, "saved", "writing json") /\ UNCHANGED <<start, plan, elf, proof>> /\ Truncate(q, path)
  BY DEF OpenJson, world
<1>3. LateStep(q) /\ pc[q] = "saved" /\ pc'[q] = "writing json"
  BY <1>1, <1>2, LateFrame DEF Writing
<1>4. Touched(q, path) /\ files'[path] = Empty
  BY <1>1, <1>2, TruncateTouches
<1>5. path \in DOMAIN files' /\ q \in writers'[path]
  BY <1>4 DEF Touched
<1>6. \A p : HasOpen(q, p)' => p \in DOMAIN files' /\ q \in writers'[p]
  BY <1>2, <1>3, <1>5 DEF HasOpen
<1>7. SavingOk(q)'
  BY <1>3 DEF SavingOk
<1>8. beside \in DOMAIN files /\ (writers[beside] = {q} => files[beside] = Whole(q))
  BY <1>1, <1>3 DEF SavedOk
<1>9. beside # path =>
        beside \in DOMAIN files' /\ (writers'[beside] = {q} => files'[beside] = Whole(q))
  BY <1>4, <1>8 DEF Touched
<1>10. path' = path /\ beside' = beside /\ Whole(q)' = Whole(q)
  BY <1>2 DEF Whole
<1>11. SavedOk(q)'
  BY <1>3, <1>9, <1>10 DEF SavedOk
<1>12. path \notin Saved'
  BY <1>4 DEF Saved, Empty
<1> HIDE DEF path
<1> QED
  BY <1>3, <1>4, <1>6, <1>7, <1>11, <1>12, LateKeeps

LEMMA WriteJsonKeeps ==
  ASSUME IInv, NEW q \in Runs, WriteJson(q)
  PROVE  IInv'
<1> DEFINE beside == plan[q].proofPath
<1>0. PICK path : path = plan[q].jsonPath
  OBVIOUS
<1>1. FunInv /\ OpenInv /\ SavedOk(q) /\ ProofInv
  BY DEF IInv, SavedInv
<1>2. /\ At(q, "writing json", "done") /\ UNCHANGED <<start, plan, elf, proof>>
      /\ UNCHANGED writers /\ Write(path, ProofArtifact(q))
  BY <1>0 DEF WriteJson, Write, world
<1>3. LateStep(q) /\ pc[q] = "writing json" /\ pc'[q] = "done"
  BY <1>1, <1>2, LateFrame DEF Writing
<1>4. HasOpen(q, path)
  BY <1>0, <1>3 DEF HasOpen
<1>5. PICK content :
        /\ files' = [files EXCEPT ![path] = content]
        /\ content = ProofArtifact(q) \/ content = Torn
  BY <1>2 DEF Write
<1>6. Touched(q, path) /\ files'[path] = content
  BY <1>1, <1>2, <1>4, <1>5, WriteTouches
<1>7. \A p : ~HasOpen(q, p)'
  BY <1>3 DEF HasOpen
<1>8. SavingOk(q)' /\ SavedOk(q)'
  BY <1>3 DEF SavingOk, SavedOk
<1>9. ASSUME path \in Saved' PROVE StandsBeside(path, files[path].by)'
  <2>1. files'[path] = ProofArtifact(q)
    BY <1>5, <1>6, <1>9 DEF Saved, Torn
  <2>2. files'[path].by = q
    BY <2>1 DEF ProofArtifact
  <2>3. Own(q)
    BY <1>1, <1>3 DEF ProofInv, Writing
  <2>4. Describes(ProofArtifact(q), proof[q])
    <3>1. Decode(Encode(proof[q].values)).output = proof[q].values
      BY <2>3, ValuesAssumption, DecodeInvertsEncode DEF Own
    <3> QED
      BY <2>3, <3>1 DEF Describes, Own, ProofArtifact
  <2>5. Describes(files'[path], proof'[q])
    BY <1>2, <2>1, <2>4
  <2>6. q \in writers'[path] /\ DOMAIN files' = DOMAIN files \cup {path}
    BY <1>6 DEF Touched
  <2>7. Whole(q)' = Whole(q) /\ beside' = beside
    BY <1>2 DEF Whole
  <2>8. beside # path =>
          beside \in DOMAIN files /\ (writers[beside] = {q} => files[beside] = Whole(q))
    BY <1>0, <1>1, <1>3 DEF SavedOk
  <2>9. beside \in DOMAIN files' /\
          (beside # path /\ writers'[beside] = {q} => files'[beside] = Whole(q))
    BY <1>6, <2>6, <2>8 DEF Touched
  <2>10. Describes(files[path], proof[q])'
    BY <2>5 DEF Describes
  <2>11. StandsBeside(path, q)'
    BY <1>3, <1>2, <2>6, <2>7, <2>9, <2>10 DEF StandsBeside
  <2> QED
    BY <2>2, <2>11
<1> QED
  BY <1>3, <1>6, <1>7, <1>8, <1>9, LateKeeps

LEMMA StopKeeps ==
  ASSUME IInv, NEW q \in Runs, Stop(q)
  PROVE  IInv'
<1>1. FunInv /\ OpenInv
  BY DEF IInv
<1>0. pc[q] \in Early \cup Writing
  BY DEF IInv, PlanInv, Stop
<1>2. At(q, pc[q], "stopped") /\ UNCHANGED <<start, plan, elf, proof>>
  BY DEF Stop, At, world
<1>3. elf' = [elf EXCEPT ![q] = elf'[q]] /\ proof' = [proof EXCEPT ![q] = proof'[q]]
  BY <1>1, <1>2 DEF FunInv
<1>4. CASE pc[q] \in Early
  <2>1. UNCHANGED disk
    BY <1>4 DEF Stop, Early
  <2> QED
    BY <1>2, <1>3, <1>4, <2>1, QuietKeeps DEF Active, Writing
<1>5. CASE pc[q] \in Writing
  <2>1. LateStep(q) /\ pc'[q] = "stopped"
    BY <1>1, <1>2, <1>5, LateFrame
  <2>2. \A p : ~HasOpen(q, p)'
    BY <2>1 DEF HasOpen
  <2>3. SavingOk(q)' /\ SavedOk(q)'
    BY <2>1 DEF SavingOk, SavedOk
  <2>4. CASE UNCHANGED disk
    BY <2>1, <2>2, <2>3, <2>4, LateKeeps
  <2>5. CASE ~UNCHANGED disk
    <3>1. PICK path : HasOpen(q, path) /\ files' = [files EXCEPT ![path] = Torn]
      BY <2>5 DEF Stop, HasOpen
    <3>2. UNCHANGED writers
      BY <2>5 DEF Stop
    <3>3. Touched(q, path) /\ files'[path] = Torn
      BY <1>1, <3>1, <3>2, WriteTouches
    <3>4. path \notin Saved'
      BY <3>3 DEF Saved, Torn
    <3> QED
      BY <2>1, <2>2, <2>3, <3>3, <3>4, LateKeeps
  <2> QED
    BY <2>4, <2>5
<1> QED
  BY <1>0, <1>4, <1>5

LEMMA OthersKeep ==
  ASSUME IInv, UNCHANGED <<start, pc, plan, elf, proof, disk>>
  PROVE  IInv'
<1> USE DEF IInv, disk
<1>1. \A r \in Runs : Plan(Loaded(r))' = Plan(Loaded(r))
  BY DEF Loaded
<1>2. FunInv' /\ PlanInv'
  BY <1>1 DEF FunInv, PlanInv
<1>3. OpenInv'
  BY DEF OpenInv, HasOpen
<1>4. ProofInv'
  BY <1>1 DEF ProofInv, Written, Own
<1>5. \A r \in Runs : Whole(r)' = Whole(r)
  BY DEF Whole
<1>6. SavingInv' /\ SavedInv'
  BY <1>5 DEF SavingInv, SavedInv, SavingOk, SavedOk, Empty
<1>7. JsonInv'
  BY <1>5 DEF JsonInv, Saved, StandsBeside, Describes
<1> QED
  BY <1>2, <1>3, <1>4, <1>6, <1>7
-----------------------------------------------------------------------------
(* The theorems *)

LEMMA NextIInv == IInv /\ [Next]_vars => IInv'
<1> SUFFICES ASSUME IInv, [Next]_vars PROVE IInv'
  OBVIOUS
<1>1. ASSUME NEW r \in Runs, Configure(r) PROVE IInv'
  BY <1>1, ConfigureKeeps
<1>2. ASSUME NEW r \in Runs, ReadElf(r) PROVE IInv'
  BY <1>2, ReadElfKeeps
<1>3. ASSUME NEW r \in Runs, Execute(r) PROVE IInv'
  BY <1>3, ExecuteKeeps
<1>4. ASSUME NEW r \in Runs, Prove(r) PROVE IInv'
  BY <1>4, ProveKeeps
<1>5. ASSUME NEW r \in Runs, OpenProof(r) PROVE IInv'
  BY <1>5, OpenProofKeeps
<1>6. ASSUME NEW r \in Runs, WriteProof(r) PROVE IInv'
  BY <1>6, WriteProofKeeps
<1>7. ASSUME NEW r \in Runs, OpenJson(r) PROVE IInv'
  BY <1>7, OpenJsonKeeps
<1>8. ASSUME NEW r \in Runs, WriteJson(r) PROVE IInv'
  BY <1>8, WriteJsonKeeps
<1>9. ASSUME NEW r \in Runs, Stop(r) PROVE IInv'
  BY <1>9, StopKeeps
<1>10. ASSUME NEW path \in ToSet(ElfFiles), NEW build \in Builds \cup {None}, Rebuild(path, build)
       PROVE  IInv'
  BY <1>10, OthersKeep DEF Rebuild
<1>11. CASE Ended \/ UNCHANGED vars
  BY <1>11, OthersKeep DEF Ended, vars, disk
<1> QED
  BY <1>1, <1>2, <1>3, <1>4, <1>5, <1>6, <1>7, <1>8, <1>9, <1>10, <1>11 DEF Next

THEOREM Invariance == Spec => []IInv
<1>1. Init => IInv
  BY InitIInv
<1>2. IInv /\ [Next]_vars => IInv'
  BY NextIInv
<1> QED
  BY <1>1, <1>2, PTL DEF Spec

\* For any number of runs, any output directories, and wherever each of them is cut off: an
\* artifact stands beside the whole proof of its run, unless another run has had that file
\* open too (persist_proof).
THEOREM ArtifactStandsBesideItsProof == Spec => []JsonFollowsItsProof
<1>1. IInv => JsonFollowsItsProof
  BY DEF IInv, JsonInv, StandsBeside, Whole, JsonFollowsItsProof
<1> QED
  BY <1>1, Invariance, PTL

\* However often the ELF files are rebuilt, the key, the kind and the bytes in an artifact are
\* those of one proof (run_host).
THEOREM ArtifactIsConsistent == Spec => []ArtifactIsOfOneProof
<1>1. IInv => ArtifactIsOfOneProof
  BY DEF IInv, JsonInv, StandsBeside, Describes, ArtifactIsOfOneProof
<1> QED
  BY <1>1, Invariance, PTL

\* Whatever a guest commits, the output in an artifact says the same, field by field
\* (decode_abi_public_values).
THEOREM OutputIsDecodedAsCommitted == Spec => []OutputIsWhatWasCommitted
<1>1. IInv => OutputIsWhatWasCommitted
  BY DEF IInv, JsonInv, StandsBeside, Describes, OutputIsWhatWasCommitted
<1> QED
  BY <1>1, Invariance, PTL

\* What VERIFY_PROOF says in the settings of a run is what its plan says.
LEMMA VerifyIsRead ==
  ASSUME NEW env, VarOr(env, "VERIFY_PROOF", <<>>) = <<"true">>
  PROVE  Plan(env).verify
<1>1. Lower(<<"true">>) = <<"true">>
  BY DEF Lower, LowerCase
<1>2. Flag(env, "VERIFY_PROOF")
  BY <1>1 DEF Flag
<1> QED
  BY <1>2 DEF Plan

\* Whoever the prover is, a run that is told to verify has begun to save nothing that does not
\* (run_host).
THEOREM NothingUnverifiedIsSaved == Spec => []VerifiedBeforeItIsSaved
<1>1. ASSUME IInv, NEW path \in DOMAIN files, NEW r \in writers[path],
             VarOr(Loaded(r), "VERIFY_PROOF", <<>>) = <<"true">>
      PROVE  proof[r].valid
  <2>1. r \in Runs /\ Written(r)
    BY <1>1 DEF IInv, OpenInv, Written
  <2>2. plan[r] = Plan(Loaded(r)) /\ Own(r)
    BY <1>1, <2>1 DEF IInv, ProofInv
  <2> QED
    BY <1>1, <2>2, VerifyIsRead DEF Own
<1>2. IInv => VerifiedBeforeItIsSaved
  BY <1>1 DEF VerifiedBeforeItIsSaved
<1> QED
  BY <1>2, Invariance, PTL
-----------------------------------------------------------------------------
(* What a run holds *)

Kinds == {"empty", "torn", "proof", "json"}

\* A run has a program once it has read one and a proof once it has made one, and goes by
\* settings that parse.
HoldOk(r) ==
  /\ elf[r] \in Builds \cup {None}
  /\ pc[r] \in Writing \cup {"loaded", "proved"} => elf[r] \in Builds
  /\ pc[r] \in {"start", "key only", "configured", "loaded"} => proof[r] = None
  /\ proof[r] # None => plan[r].mode = "prove"
  /\ plan[r] # None => Usable(Loaded(r))

FilesOk == \A path \in DOMAIN files : files[path].is \in Kinds

HoldInv ==
  /\ start \in Starts
  /\ images \in [ToSet(ElfFiles) -> Builds \cup {None}]
  /\ rebuilds \in 0 .. MaxRebuilds
  /\ FilesOk
  /\ \A r \in Runs : HoldOk(r)

LEMMA InitHoldInv == Init => HoldInv
<1> SUFFICES ASSUME Init PROVE HoldInv
  OBVIOUS
<1>1. FilesOk
  BY DEF Init, FilesOk
<1>2. 0 \in 0 .. MaxRebuilds
  BY RebuildsAssumption
<1>3. \A r \in Runs : HoldOk(r)
  BY DEF Init, HoldOk, Writing
<1> QED
  BY <1>1, <1>2, <1>3 DEF Init, HoldInv

\* A step of a run, as seen from what it holds.
LEMMA HoldKeeps ==
  ASSUME HoldInv, NEW q \in Runs, Frame(q), UNCHANGED <<images, rebuilds>>,
         HoldOk(q)', FilesOk'
  PROVE  HoldInv'
<1>1. \A r \in Runs : Loaded(r)' = Loaded(r)
  BY DEF Loaded, Frame
<1>2. ASSUME NEW r \in Runs \ {q} PROVE HoldOk(r)'
  BY <1>1, <1>2 DEF HoldInv, HoldOk, Frame
<1> QED
  BY <1>2 DEF HoldInv, Frame

\* A step that leaves the plan, the program and the proof.
LEMMA HoldStays ==
  ASSUME IInv, HoldInv, NEW q \in Runs, NEW from, NEW to, At(q, from, to),
         UNCHANGED <<start, plan, elf, proof, images, rebuilds>>, FilesOk',
         to \in Writing => from \in Writing \cup {"proved"},
         to \in Writing \cup {"done", "stopped"}
  PROVE  HoldInv'
<1>1. FunInv
  BY DEF IInv
<1>2. /\ pc[q] = from /\ pc'[q] = to /\ pc' = [r \in Runs |-> pc'[r]]
      /\ \A r \in Runs \ {q} : pc'[r] = pc[r]
  BY <1>1 DEF FunInv, At
<1>3. Frame(q)
  BY <1>1, <1>2 DEF FunInv, Frame
<1>4. Loaded(q)' = Loaded(q)
  BY DEF Loaded
<1>5. HoldOk(q)'
  BY <1>2, <1>4 DEF HoldInv, HoldOk, Writing
<1> QED
  BY <1>3, <1>5, HoldKeeps

\* Steps before the proof is saved leave the disk.
LEMMA FilesStay ==
  ASSUME HoldInv, UNCHANGED disk
  PROVE  FilesOk'
BY DEF HoldInv, FilesOk, disk

LEMMA TruncateFits ==
  ASSUME IInv, HoldInv, NEW r, NEW path, Truncate(r, path)
  PROVE  FilesOk'
<1>1. Touched(r, path) /\ files'[path] = Empty
  BY TruncateTouches DEF IInv
<1> QED
  BY <1>1 DEF HoldInv, FilesOk, Touched, Empty, Kinds

LEMMA WriteFits ==
  ASSUME IInv, HoldInv, NEW path, NEW content, content.is \in Kinds,
         \/ files' = [files EXCEPT ![path] = content]
         \/ files' = [files EXCEPT ![path] = Torn]
  PROVE  FilesOk'
<1>1. files = [p \in DOMAIN files |-> files[p]]
  BY DEF IInv, FunInv
<1> QED
  BY <1>1 DEF HoldInv, FilesOk, Torn, Kinds

\* The program a run reads is a build.
LEMMA FoundIsABuild ==
  ASSUME HoldInv, NEW env, Readable(env) # {}
  PROVE  Found(env) \in Builds
<1>1. Len(ElfFiles) \in Nat
  BY ElfFilesAssumption
<1>2. DOMAIN Candidates(env) \subseteq Nat
  <2>1. CASE VarOr(env, "SP1_ELF_PATH", Malformed) = Malformed
    BY <1>1, <2>1, ElfFilesAssumption DEF Candidates
  <2>2. CASE VarOr(env, "SP1_ELF_PATH", Malformed) # Malformed
    BY <1>1, <2>2, ElfFilesAssumption DEF Candidates
  <2> QED
    BY <2>1, <2>2
<1>3. PICK T : T = Readable(env)
  OBVIOUS
<1>4. Min(T) \in T
  <2>1. T \in SUBSET Nat /\ T # {}
    BY <1>2, <1>3 DEF Readable
  <2> QED
    BY <2>1, LeastIsMin
<1>5. PICK path : path = Candidates(env)[Min(T)]
  OBVIOUS
<1>6. path \in DOMAIN images /\ images[path] # None
  BY <1>3, <1>4, <1>5 DEF Readable
<1>7. Found(env) = images[path]
  BY <1>3, <1>5 DEF Found
<1> QED
  BY <1>6, <1>7 DEF HoldInv

LEMMA ConfigureHolds ==
  ASSUME IInv, HoldInv, NEW q \in Runs, Configure(q)
  PROVE  HoldInv'
<1>1. FunInv
  BY DEF IInv
<1>2. /\ start' = start /\ UNCHANGED <<elf, proof, images, rebuilds>> /\ UNCHANGED disk
  BY DEF Configure, world
<1>3. /\ pc[q] = "start" /\ pc'[q] \in {"key only", "configured"}
      /\ pc' = [pc EXCEPT ![q] = pc'[q]]
      /\ \/ plan' = plan
         \/ plan' = [plan EXCEPT ![q] = Plan(Loaded(q))] /\ Usable(Loaded(q))
  BY <1>1 DEF FunInv, Configure, At
<1>4. Frame(q)
  BY <1>1, <1>2, <1>3 DEF FunInv, Frame
<1>5. Loaded(q)' = Loaded(q)
  BY <1>2 DEF Loaded
<1>6. plan'[q] # None => Usable(Loaded(q))
  BY <1>3 DEF HoldInv, HoldOk
<1>7. HoldOk(q)'
  BY <1>2, <1>3, <1>5, <1>6 DEF HoldInv, HoldOk, Writing
<1> QED
  BY <1>2, <1>4, <1>7, FilesStay, HoldKeeps

LEMMA ReadElfHolds ==
  ASSUME IInv, HoldInv, NEW q \in Runs, ReadElf(q)
  PROVE  HoldInv'
<1>1. FunInv
  BY DEF IInv
<1>2. /\ start' = start /\ UNCHANGED <<plan, proof, images, rebuilds>> /\ UNCHANGED disk
      /\ elf' = [elf EXCEPT ![q] = Found(Loaded(q))]
  BY DEF ReadElf, world
<1>3. /\ pc[q] \in {"key only", "configured"} /\ pc'[q] \in {"done", "loaded"}
      /\ pc' = [pc EXCEPT ![q] = pc'[q]]
  BY <1>1 DEF FunInv, ReadElf, At
<1>4. Frame(q)
  BY <1>1, <1>2, <1>3 DEF FunInv, Frame
<1>5. Loaded(q)' = Loaded(q)
  BY <1>2 DEF Loaded
<1>6. elf'[q] \in Builds
  BY <1>1, <1>2, FoundIsABuild DEF FunInv, ReadElf
<1>7. HoldOk(q)'
  BY <1>2, <1>3, <1>5, <1>6 DEF HoldInv, HoldOk, Writing
<1> QED
  BY <1>2, <1>4, <1>7, FilesStay, HoldKeeps

LEMMA ProveHolds ==
  ASSUME IInv, HoldInv, NEW q \in Runs, Prove(q)
  PROVE  HoldInv'
<1>1. FunInv
  BY DEF IInv
<1>2. /\ start' = start /\ UNCHANGED <<plan, elf, images, rebuilds>> /\ UNCHANGED disk
      /\ plan[q].mode = "prove"
  BY DEF Prove, world
<1>3. /\ pc[q] = "loaded" /\ pc'[q] = "proved" /\ pc' = [pc EXCEPT ![q] = pc'[q]]
  BY <1>1 DEF FunInv, Prove, At
<1>4. proof' = [proof EXCEPT ![q] = proof'[q]]
  <2>1. PICK pf : proof' = [proof EXCEPT ![q] = pf]
    BY DEF Prove
  <2> QED
    BY <1>1, <2>1 DEF FunInv
<1>5. Frame(q)
  BY <1>1, <1>2, <1>3, <1>4 DEF FunInv, Frame
<1>6. Loaded(q)' = Loaded(q)
  BY <1>2 DEF Loaded
<1>7. HoldOk(q)'
  BY <1>2, <1>3, <1>6 DEF HoldInv, HoldOk, Writing
<1> QED
  BY <1>2, <1>5, <1>7, FilesStay, HoldKeeps

LEMMA StopHolds ==
  ASSUME IInv, HoldInv, NEW q \in Runs, Stop(q)
  PROVE  HoldInv'
<1>1. At(q, pc[q], "stopped") /\ UNCHANGED <<start, plan, elf, proof, images, rebuilds>>
  BY DEF Stop, At, world
<1>2. FilesOk'
  <2>1. CASE UNCHANGED disk
    BY <2>1, FilesStay
  <2>2. CASE ~UNCHANGED disk
    <3>1. PICK path : files' = [files EXCEPT ![path] = Torn]
      BY <2>2 DEF Stop
    <3>2. Torn.is \in Kinds
      BY DEF Torn, Kinds
    <3> QED
      BY <3>1, <3>2, WriteFits
  <2> QED
    BY <2>1, <2>2
<1> QED
  BY <1>1, <1>2, HoldStays DEF Writing

LEMMA RebuildHolds ==
  ASSUME HoldInv, NEW path \in ToSet(ElfFiles), NEW build \in Builds \cup {None},
         Rebuild(path, build)
  PROVE  HoldInv'
<1>1. UNCHANGED <<start, pc, plan, elf, proof>> /\ UNCHANGED disk
  BY DEF Rebuild
<1>2. images' \in [ToSet(ElfFiles) -> Builds \cup {None}]
  BY DEF Rebuild, HoldInv
<1>3. rebuilds' \in 0 .. MaxRebuilds
  BY RebuildsAssumption DEF Rebuild, HoldInv
<1>4. \A r \in Runs : Loaded(r)' = Loaded(r)
  BY <1>1 DEF Loaded
<1>5. \A r \in Runs : HoldOk(r)'
  BY <1>1, <1>4 DEF HoldInv, HoldOk
<1> QED
  BY <1>1, <1>2, <1>3, <1>5, FilesStay DEF HoldInv

LEMMA NextHoldInv == IInv /\ HoldInv /\ [Next]_vars => HoldInv'
<1> SUFFICES ASSUME IInv, HoldInv, [Next]_vars PROVE HoldInv'
  OBVIOUS
<1>1. ASSUME NEW r \in Runs, Configure(r) PROVE HoldInv'
  BY <1>1, ConfigureHolds
<1>2. ASSUME NEW r \in Runs, ReadElf(r) PROVE HoldInv'
  BY <1>2, ReadElfHolds
<1>3. ASSUME NEW r \in Runs, Execute(r) PROVE HoldInv'
  <2>1. /\ At(r, "loaded", "done") /\ UNCHANGED disk
        /\ UNCHANGED <<start, plan, elf, proof, images, rebuilds>>
    BY <1>3 DEF Execute, world
  <2> QED
    BY <2>1, FilesStay, HoldStays DEF Writing
<1>4. ASSUME NEW r \in Runs, Prove(r) PROVE HoldInv'
  BY <1>4, ProveHolds
<1>5. ASSUME NEW r \in Runs, OpenProof(r) PROVE HoldInv'
  <2>1. /\ At(r, "proved", "saving") /\ Truncate(r, plan[r].proofPath)
        /\ UNCHANGED <<start, plan, elf, proof, images, rebuilds>>
    BY <1>5 DEF OpenProof, world
  <2> QED
    BY <2>1, TruncateFits, HoldStays DEF Writing
<1>6. ASSUME NEW r \in Runs, WriteProof(r) PROVE HoldInv'
  <2>1. /\ At(r, "saving", "saved") /\ Write(plan[r].proofPath, Whole(r))
        /\ UNCHANGED <<start, plan, elf, proof, images, rebuilds>>
    BY <1>6 DEF WriteProof, Whole, world
  <2>2. Whole(r).is \in Kinds
    BY DEF Whole, Kinds
  <2>3. FilesOk'
    BY <2>1, <2>2, WriteFits DEF Write
  <2> QED
    BY <2>1, <2>3, HoldStays DEF Writing
<1>7. ASSUME NEW r \in Runs, OpenJson(r) PROVE HoldInv'
  <2>1. /\ At(r, "saved", "writing json") /\ Truncate(r, plan[r].jsonPath)
        /\ UNCHANGED <<start, plan, elf, proof, images, rebuilds>>
    BY <1>7 DEF OpenJson, world
  <2> QED
    BY <2>1, TruncateFits, HoldStays DEF Writing
<1>8. ASSUME NEW r \in Runs, WriteJson(r) PROVE HoldInv'
  <2>1. /\ At(r, "writing json", "done") /\ Write(plan[r].jsonPath, ProofArtifact(r))
        /\ UNCHANGED <<start, plan, elf, proof, images, rebuilds>>
    BY <1>8 DEF WriteJson, world
  <2>2. ProofArtifact(r).is \in Kinds
    BY DEF ProofArtifact, Kinds
  <2>3. FilesOk'
    BY <2>1, <2>2, WriteFits DEF Write
  <2> QED
    BY <2>1, <2>3, HoldStays DEF Writing
<1>9. ASSUME NEW r \in Runs, Stop(r) PROVE HoldInv'
  BY <1>9, StopHolds
<1>10. ASSUME NEW path \in ToSet(ElfFiles), NEW build \in Builds \cup {None}, Rebuild(path, build)
       PROVE  HoldInv'
  BY <1>10, RebuildHolds
<1>11. CASE Ended \/ UNCHANGED vars
  <2>1. UNCHANGED <<start, pc, plan, elf, proof, images, rebuilds, files>>
    BY <1>11 DEF Ended, vars
  <2>2. \A r \in Runs : Loaded(r)' = Loaded(r)
    BY <2>1 DEF Loaded
  <2>3. \A r \in Runs : HoldOk(r)'
    BY <2>1, <2>2 DEF HoldInv, HoldOk
  <2> QED
    BY <2>1, <2>3 DEF HoldInv, FilesOk
<1> QED
  BY <1>1, <1>2, <1>3, <1>4, <1>5, <1>6, <1>7, <1>8, <1>9, <1>10, <1>11 DEF Next

THEOREM Holds == Spec => [](IInv /\ HoldInv)
<1>1. Init => IInv /\ HoldInv
  BY InitIInv, InitHoldInv
<1>2. (IInv /\ HoldInv) /\ [Next]_vars => (IInv /\ HoldInv)'
  BY NextIInv, NextHoldInv
<1> QED
  BY <1>1, <1>2, PTL DEF Spec

\* For any settings, builds and interleaving: a run that has got so far has the plan that its
\* settings say and a program that is a build, and only a run that is to prove holds a proof.
THEOREM ArtifactsTypeCorrect == Spec => []TypeOK
<1>1. IInv /\ HoldInv => TypeOK
  <2> SUFFICES ASSUME IInv, HoldInv PROVE TypeOK
    OBVIOUS
  <2>1. FunInv /\ PlanInv /\ OpenInv
    BY DEF IInv
  <2>2. pc \in [Runs -> {"start", "key only", "configured", "loaded", "proved", "saving", "saved",
                         "writing json", "done", "stopped"}]
    BY <2>1 DEF FunInv, PlanInv, Early, Writing
  <2>3. DOMAIN writers = DOMAIN files
    BY <2>1 DEF FunInv
  <2>4. \A path \in DOMAIN files :
          files[path].is \in {"empty", "torn", "proof", "json"} /\ writers[path] \subseteq Runs
    BY <2>1 DEF HoldInv, FilesOk, Kinds, OpenInv
  <2>5. ASSUME NEW r \in Runs
        PROVE  /\ elf[r] \in Builds \cup {None}
               /\ plan[r] = None \/ plan[r] = Plan(Loaded(r))
               /\ pc[r] \in Active => plan[r] = Plan(Loaded(r))
               /\ pc[r] \in {"loaded", "proved", "saving", "saved", "writing json"} =>
                    elf[r] \in Builds
               /\ proof[r] # None => plan[r].mode = "prove"
    BY <2>1 DEF PlanInv, HoldInv, HoldOk, Writing
  <2> QED
    BY <2>2, <2>3, <2>4, <2>5 DEF TypeOK, HoldInv, Active
<1> QED
  BY <1>1, Holds, PTL
-----------------------------------------------------------------------------
(* The settings *)

\* The function by which LoadDotenv goes through the lines.
Loads(f, env, lines, n) ==
  f = [i \in 0 .. n |->
         IF i = 0 THEN env
         ELSE IF \E j \in 1 .. i : lines[j].name = "" THEN f[i - 1]
         ELSE AfterLine(f[i - 1], lines[i])]

LEMMA LoadsExists ==
  ASSUME NEW env, NEW lines, NEW n \in Nat
  PROVE  \E f : Loads(f, env, lines, n)
<1> DEFINE T == {m \in Nat : \E f : Loads(f, env, lines, m)}
           next(i, g) == IF i = 0 THEN env
                         ELSE IF \E j \in 1 .. i : lines[j].name = "" THEN g[i - 1]
                         ELSE AfterLine(g[i - 1], lines[i])
<1>1. 0 \in T
  <2> DEFINE f == [i \in 0 .. 0 |-> env]
  <2>1. f = [i \in 0 .. 0 |-> f[i]] /\ \A i \in 0 .. 0 : f[i] = next(i, f)
    OBVIOUS
  <2> HIDE DEF f
  <2>2. Loads(f, env, lines, 0)
    BY <2>1 DEF Loads
  <2> QED
    BY <2>2
<1>2. ASSUME NEW m \in T PROVE m + 1 \in T
  <2>1. PICK f : Loads(f, env, lines, m)
    OBVIOUS
  <2> DEFINE g == [i \in 0 .. m + 1 |-> IF i \in 0 .. m THEN f[i] ELSE next(i, f)]
  <2>2. ASSUME NEW i \in 0 .. m + 1 PROVE g[i] = next(i, g)
    <3>1. i \in Nat /\ m \in Nat
      OBVIOUS
    <3>2. i # 0 => i - 1 \in 0 .. m /\ i - 1 \in 0 .. m + 1
      BY <3>1
    <3>3. i # 0 => g[i - 1] = f[i - 1]
      BY <3>2
    <3>4. i \in 0 .. m => f[i] = next(i, f)
      BY <2>1 DEF Loads
    <3>5. g[i] = next(i, f)
      BY <3>4
    <3> HIDE DEF g
    <3>6. next(i, g) = next(i, f)
      BY <3>3, Zenon
    <3> QED
      BY <3>5, <3>6
  <2>3. Loads(g, env, lines, m + 1)
    <3>1. g = [i \in 0 .. m + 1 |-> g[i]]
      OBVIOUS
    <3> HIDE DEF g
    <3> QED
      BY <2>2, <3>1 DEF Loads
  <2> HIDE DEF g
  <2>4. m + 1 \in Nat
    OBVIOUS
  <2> QED
    BY <2>3, <2>4
<1> HIDE DEF T
<1>3. T = Nat
  <2>1. T \in SUBSET Nat
    BY DEF T
  <2> QED
    BY <1>1, <1>2, <2>1, Induction
<1> QED
  BY <1>3 DEF T

LEMMA LoadDotenvIsRecursive ==
  ASSUME NEW env, NEW lines, Len(lines) \in Nat
  PROVE  \E f : Loads(f, env, lines, Len(lines)) /\ LoadDotenv(env, lines) = f[Len(lines)]
<1> DEFINE f == CHOOSE g : Loads(g, env, lines, Len(lines))
<1>1. Loads(f, env, lines, Len(lines))
  BY LoadsExists
<1>2. LoadDotenv(env, lines) = f[Len(lines)]
  BY Zenon DEF LoadDotenv, Loads
<1> QED
  BY <1>1, <1>2

IsText(env, name) == name \in DOMAIN env /\ env[name] # NotUnicode

\* What a name is set to after so many lines: a text of the environment stays, or else the first
\* line that has the name gives it, or else nothing has changed.
SetBy(after, env, lines, n, name) ==
  /\ IsText(env, name) => name \in DOMAIN after /\ after[name] = env[name]
  /\ ~IsText(env, name) =>
       \A k \in 1 .. n :
         lines[k].name = name /\ (\A j \in 1 .. k - 1 : lines[j].name # name) =>
           name \in DOMAIN after /\ after[name] = lines[k].text
  /\ ~IsText(env, name) /\ (\A j \in 1 .. n : lines[j].name # name) =>
       /\ name \in DOMAIN after <=> name \in DOMAIN env
       /\ name \in DOMAIN env => after[name] = env[name]

LEMMA LineSets ==
  ASSUME NEW after, NEW env, NEW lines, NEW n \in Nat, NEW name,
         SetBy(after, env, lines, n, name),
         \A k \in 1 .. n + 1 : lines[k].text # NotUnicode
  PROVE  SetBy(AfterLine(after, lines[n + 1]), env, lines, n + 1, name)
<1> DEFINE line == lines[n + 1]
           next == AfterLine(after, line)
<1>0. n + 1 \in 1 .. n + 1 /\ 1 .. n \subseteq 1 .. n + 1 /\ n + 1 - 1 = n
  OBVIOUS
<1>1. DOMAIN next = DOMAIN after \cup {line.name}
  BY DEF AfterLine
<1>2. CASE name # line.name
  <2>1. /\ name \in DOMAIN next <=> name \in DOMAIN after
        /\ name \in DOMAIN after => next[name] = after[name]
    BY <1>2 DEF AfterLine
  <2>2. \A k \in 1 .. n + 1 : lines[k].name = name => k \in 1 .. n
    BY <1>2
  <2> HIDE DEF next
  <2>3. SetBy(next, env, lines, n + 1, name)
    BY <1>0, <2>1, <2>2 DEF SetBy, IsText
  <2> QED
    BY <2>3 DEF next
<1>3. CASE name = line.name
  <2>1. name \in DOMAIN next /\ next[name] = VarOr(after, name, line.text)
    BY <1>3 DEF AfterLine
  <2>2. IsText(after, name) => next[name] = after[name]
    BY <2>1 DEF VarOr, IsText
  <2>3. ~IsText(after, name) => next[name] = line.text
    BY <2>1 DEF VarOr, IsText
  <2>4. IsText(env, name) => next[name] = env[name]
    BY <2>2 DEF SetBy, IsText
  <2>5. ASSUME ~IsText(env, name), NEW k \in 1 .. n + 1, lines[k].name = name,
               \A j \in 1 .. k - 1 : lines[j].name # name
        PROVE  next[name] = lines[k].text
    <3>1. CASE k \in 1 .. n
      <4>1. name \in DOMAIN after /\ after[name] = lines[k].text
        BY <2>5, <3>1 DEF SetBy
      <4> QED
        BY <1>0, <2>2, <4>1 DEF IsText
    <3>2. CASE k = n + 1
      <4>1. \A j \in 1 .. n : lines[j].name # name
        BY <1>0, <2>5, <3>2
      <4>2. ~IsText(after, name)
        BY <2>5, <4>1 DEF SetBy, IsText
      <4> QED
        BY <2>3, <3>2, <4>2
    <3> QED
      BY <3>1, <3>2
  <2>6. ~ \A j \in 1 .. n + 1 : lines[j].name # name
    BY <1>0, <1>3
  <2> HIDE DEF next
  <2>7. SetBy(next, env, lines, n + 1, name)
    BY <2>1, <2>4, <2>5, <2>6 DEF SetBy
  <2> QED
    BY <2>7 DEF next
<1> QED
  BY <1>2, <1>3

\* So many lines of a file are well formed.
WellFormed(lines, n) ==
  \A k \in 1 .. n : lines[k].name # "" /\ lines[k].text # NotUnicode

\* The file as a whole, when every line of it parses.
LEMMA LinesSet ==
  ASSUME NEW env, NEW lines, NEW n \in Nat, WellFormed(lines, n),
         NEW f, Loads(f, env, lines, n), NEW name
  PROVE  SetBy(f[n], env, lines, n, name)
<1>1. \A i \in 0 .. n :
        f[i] = IF i = 0 THEN env
               ELSE IF \E j \in 1 .. i : lines[j].name = "" THEN f[i - 1]
               ELSE AfterLine(f[i - 1], lines[i])
  BY DEF Loads
<1>2. f[0] = env
  <2>1. 0 \in 0 .. n
    OBVIOUS
  <2> QED
    BY <1>1, <2>1
<1>3. ASSUME NEW m \in Nat, m + 1 <= n PROVE f[m + 1] = AfterLine(f[m], lines[m + 1])
  <2>1. PICK i \in 0 .. n : i = m + 1 /\ i # 0 /\ i - 1 = m
    <3>1. m + 1 \in 0 .. n /\ m + 1 # 0 /\ m + 1 - 1 = m
      BY <1>3
    <3> QED
      BY <3>1
  <2>2. 1 .. i \subseteq 1 .. n
    BY <2>1
  <2>3. ~ \E j \in 1 .. i : lines[j].name = ""
    BY <2>2 DEF WellFormed
  <2>4. f[i] = AfterLine(f[i - 1], lines[i])
    BY <1>1, <2>1, <2>3
  <2> QED
    BY <2>1, <2>4
<1> DEFINE T == {m \in Nat : m <= n => SetBy(f[m], env, lines, m, name)}
<1>4. 0 \in T
  <2>1. SetBy(env, env, lines, 0, name)
    <3>1. \A k \in 1 .. 0 : FALSE
      OBVIOUS
    <3> QED
      BY <3>1, Zenon DEF SetBy, IsText
  <2> QED
    BY <1>2, <2>1
<1>5. ASSUME NEW m \in T PROVE m + 1 \in T
  <2>1. m \in Nat /\ m + 1 \in Nat
    OBVIOUS
  <2>2. ASSUME m + 1 <= n PROVE SetBy(f[m + 1], env, lines, m + 1, name)
    <3>1. m <= n /\ 1 .. m + 1 \subseteq 1 .. n
      BY <2>1, <2>2
    <3>2. SetBy(f[m], env, lines, m, name)
      BY <3>1
    <3>3. \A k \in 1 .. m + 1 : lines[k].text # NotUnicode
      BY <3>1 DEF WellFormed
    <3>4. PICK after : after = f[m]
      OBVIOUS
    <3>5. SetBy(AfterLine(after, lines[m + 1]), env, lines, m + 1, name)
      BY <2>1, <3>2, <3>3, <3>4, LineSets
    <3> QED
      BY <1>3, <2>1, <2>2, <3>4, <3>5
  <2> QED
    BY <2>1, <2>2
<1> HIDE DEF T
<1>6. T = Nat
  <2>1. T \in SUBSET Nat
    BY DEF T
  <2> QED
    BY <1>4, <1>5, <2>1, Induction
<1> QED
  BY <1>6 DEF T

LEMMA DotenvSets ==
  ASSUME NEW env, NEW lines, NEW n \in Nat, n = Len(lines), WellFormed(lines, n), NEW name
  PROVE  SetBy(LoadDotenv(env, lines), env, lines, n, name)
<1>1. PICK f : Loads(f, env, lines, n) /\ LoadDotenv(env, lines) = f[n]
  BY LoadDotenvIsRecursive
<1> QED
  BY <1>1, LinesSet

\* What the operator asks for is what a run finds under the name, if anything.
LEMMA AskedIsLoaded ==
  ASSUME NEW begun, NEW env, NEW lines, env = begun.env, lines = begun.file,
         NEW n \in Nat, n = Len(lines), DOMAIN lines = 1 .. n, WellFormed(lines, n),
         NEW name, NEW loaded, loaded = LoadDotenv(env, lines)
  PROVE  IF name \in DOMAIN loaded THEN loaded[name] = Asked(begun, name)
         ELSE Asked(begun, name) = <<>>
<1>1. SetBy(loaded, env, lines, n, name)
  BY DotenvSets
<1>2. PICK its : its = {i \in DOMAIN lines : lines[i].name = name}
  OBVIOUS
<1>3. Asked(begun, name) =
        IF IsText(env, name) THEN env[name]
        ELSE IF its # {} THEN lines[Min(its)].text
        ELSE IF name \in DOMAIN env THEN NotUnicode
        ELSE <<>>
  BY <1>2, Zenon DEF Asked, IsText
<1>4. CASE IsText(env, name)
  BY <1>1, <1>3, <1>4 DEF SetBy
<1>5. CASE ~IsText(env, name) /\ its # {}
  <2>1. its \in SUBSET Nat /\ its \subseteq 1 .. n
    BY <1>2
  <2>2. PICK k : k = Min(its)
    OBVIOUS
  <2>3. k \in its /\ \A m \in its : k <= m
    BY <1>5, <2>1, <2>2, LeastIsMin
  <2>4. k \in 1 .. n /\ lines[k].name = name
    BY <1>2, <2>1, <2>3
  <2>5. ASSUME NEW j \in 1 .. k - 1 PROVE lines[j].name # name
    <3>1. j \in 1 .. n /\ ~(k <= j)
      BY <2>4
    <3>2. j \notin its
      BY <2>3, <3>1
    <3> QED
      BY <1>2, <3>1, <3>2
  <2>6. name \in DOMAIN loaded /\ loaded[name] = lines[k].text
    BY <1>1, <1>5, <2>4, <2>5 DEF SetBy
  <2> QED
    BY <1>3, <1>5, <2>2, <2>6
<1>6. CASE ~IsText(env, name) /\ its = {}
  <2>1. \A j \in 1 .. n : lines[j].name # name
    BY <1>2, <1>6
  <2>2. CASE name \in DOMAIN env
    <3>1. env[name] = NotUnicode
      BY <1>6, <2>2 DEF IsText
    <3>2. name \in DOMAIN loaded /\ loaded[name] = NotUnicode
      BY <1>1, <1>6, <2>1, <2>2, <3>1 DEF SetBy
    <3> QED
      BY <1>3, <1>6, <2>2, <3>2
  <2>3. CASE name \notin DOMAIN env
    <3>1. name \notin DOMAIN loaded
      BY <1>1, <1>6, <2>1, <2>3 DEF SetBy
    <3> QED
      BY <1>3, <1>6, <2>3, <3>1
  <2> QED
    BY <2>2, <2>3
<1> QED
  BY <1>4, <1>5, <1>6
-----------------------------------------------------------------------------
(* The texts of the settings: what the parsers make of them is what a person reads there. *)

\* A number for each step, by a product and a sum with the one before.
Recurs(f, n, a, c, d) ==
  /\ f \in [0 .. n -> Nat] /\ f[0] = a
  /\ \A i \in 1 .. n : f[i] = c[i] * f[i - 1] + d[i]

LEMMA RecurrenceExists ==
  ASSUME NEW n \in Nat, NEW a \in Nat, NEW c \in [Nat -> Nat], NEW d \in [Nat -> Nat]
  PROVE  \E f : Recurs(f, n, a, c, d)
<1> DEFINE T == {m \in Nat : \E f : Recurs(f, m, a, c, d)}
<1>1. 0 \in T
  <2>1. Recurs([i \in 0 .. 0 |-> a], 0, a, c, d)
    BY DEF Recurs
  <2> QED
    BY <2>1
<1>2. ASSUME NEW m \in T PROVE m + 1 \in T
  <2>1. m \in Nat /\ m + 1 \in Nat /\ m \in 0 .. m
    OBVIOUS
  <2>2. PICK f : Recurs(f, m, a, c, d)
    OBVIOUS
  <2>3. /\ f[m] \in Nat /\ c[m + 1] \in Nat /\ d[m + 1] \in Nat
        /\ f \in [0 .. m -> Nat] /\ f[0] = a
    BY <2>1, <2>2 DEF Recurs
  <2>4. PICK v \in Nat : v = c[m + 1] * f[m] + d[m + 1]
    <3>1. PICK x \in Nat, y \in Nat, z \in Nat : x = c[m + 1] /\ y = f[m] /\ z = d[m + 1]
      BY <2>3
    <3>2. x * y + z \in Nat
      OBVIOUS
    <3> QED
      BY <3>1, <3>2
  <2> DEFINE g == [i \in 0 .. m + 1 |-> IF i = m + 1 THEN v ELSE f[i]]
  <2>5. \A i \in 0 .. m : g[i] = f[i]
    BY <2>1
  <2>6. g[m + 1] = v /\ g[0] = a
    BY <2>1, <2>3 DEF Recurs
  <2>7. g \in [0 .. m + 1 -> Nat]
    <3>1. \A i \in 0 .. m + 1 : i # m + 1 => i \in 0 .. m
      BY <2>1
    <3> QED
      BY <2>3, <3>1
  <2> HIDE DEF g
  <2>8. ASSUME NEW i \in 1 .. m + 1 PROVE g[i] = c[i] * g[i - 1] + d[i]
    <3>1. CASE i = m + 1
      <4>1. i - 1 = m /\ g[m] = f[m]
        BY <2>1, <2>5, <3>1
      <4> QED
        BY <2>4, <2>6, <3>1, <4>1
    <3>2. CASE i # m + 1
      <4>1. i \in 1 .. m /\ i - 1 \in 0 .. m /\ i \in 0 .. m
        BY <2>1, <3>2
      <4>2. f[i] = c[i] * f[i - 1] + d[i]
        BY <2>2, <4>1 DEF Recurs
      <4> QED
        BY <2>5, <4>1, <4>2
    <3> QED
      BY <3>1, <3>2
  <2>9. Recurs(g, m + 1, a, c, d)
    BY <2>6, <2>7, <2>8 DEF Recurs
  <2> QED
    BY <2>1, <2>9
<1>3. T = Nat
  <2>1. T \in SUBSET Nat
    OBVIOUS
  <2> HIDE DEF T
  <2> QED
    BY <1>1, <1>2, <2>1, Induction
<1>4. PICK f : Recurs(f, n, a, c, d)
  BY <1>3
<1> QED
  BY <1>4

LEMMA NaturalUpTo ==
  ASSUME NEW n \in Nat, NEW f, f[0] \in Nat, \A i \in 1 .. n : f[i - 1] \in Nat => f[i] \in Nat
  PROVE  \A i \in 0 .. n : f[i] \in Nat
<1> DEFINE T == {m \in Nat : m <= n => f[m] \in Nat}
<1>1. 0 \in T
  OBVIOUS
<1>2. ASSUME NEW m \in T PROVE m + 1 \in T
  <2>1. m \in Nat /\ m + 1 \in Nat /\ (m <= n => f[m] \in Nat)
    OBVIOUS
  <2>2. ASSUME m + 1 <= n PROVE f[m + 1] \in Nat
    <3>1. PICK i \in 1 .. n : i = m + 1 /\ i - 1 = m
      BY <2>1, <2>2
    <3>2. f[i - 1] \in Nat
      BY <2>1, <2>2, <3>1
    <3> QED
      BY <3>1, <3>2
  <2> QED
    BY <2>1, <2>2
<1> HIDE DEF T
<1>3. T = Nat
  <2>1. T \in SUBSET Nat
    BY DEF T
  <2> QED
    BY <1>1, <1>2, <2>1, Induction
<1> QED
  BY <1>3 DEF T

\* The functions by which FromStrRadix and PlaceValue go through the digits.
FirstDigits(f, digits, radix, m) ==
  f = [n \in 0 .. m |-> IF n = 0 THEN 0 ELSE radix * f[n - 1] + DigitValue(digits[n])]
Powers(f, radix, m) == f = [k \in 0 .. m |-> IF k = 0 THEN 1 ELSE radix * f[k - 1]]
LastDigits(f, digits, power, m) ==
  f = [k \in 0 .. m |->
         IF k = 0 THEN 0 ELSE DigitValue(digits[m - k + 1]) * power[k - 1] + f[k - 1]]

\* The letters from 1 to n are digits.
HasDigits(digits, n) == \A i \in 1 .. n : DigitValue(digits[i]) \in Nat

LEMMA DigitHasValue ==
  ASSUME NEW letter, NEW radix \in {10, 16}, \E d \in 1 .. radix : letter = Digits[d]
  PROVE  DigitValue(letter) \in Nat
<1>1. PICK d \in 1 .. radix : letter = Digits[d]
  OBVIOUS
<1>2. d - 1 \in 0 .. 15 /\ d - 1 + 1 = d
  OBVIOUS
<1>3. DigitValue(letter) \in 0 .. 15
  BY <1>1, <1>2 DEF DigitValue
<1> QED
  BY <1>3

LEMMA FirstDigitsExist ==
  ASSUME NEW digits, NEW radix \in Nat, NEW m \in Nat, HasDigits(digits, m)
  PROVE  \E f : FirstDigits(f, digits, radix, m)
<1>1. PICK c \in [Nat -> Nat], d \in [Nat -> Nat] :
        \A i \in 1 .. m : c[i] = radix /\ d[i] = DigitValue(digits[i])
  <2> DEFINE cc == [i \in Nat |-> radix]
             dd == [i \in Nat |-> IF i \in 1 .. m THEN DigitValue(digits[i]) ELSE 0]
  <2>1. cc \in [Nat -> Nat] /\ dd \in [Nat -> Nat]
    BY DEF HasDigits
  <2>2. \A i \in 1 .. m : cc[i] = radix /\ dd[i] = DigitValue(digits[i])
    OBVIOUS
  <2> HIDE DEF cc, dd
  <2> QED
    BY <2>1, <2>2
<1>2. m \in Nat /\ 0 \in Nat /\ 1 \in Nat
  OBVIOUS
<1>3. PICK f : Recurs(f, m, 0, c, d)
  BY <1>1, <1>2, RecurrenceExists
<1>4. \A i \in 1 .. m : f[i] = radix * f[i - 1] + DigitValue(digits[i])
  BY <1>1, <1>3 DEF Recurs
<1>5. \A n \in 0 .. m : f[n] = IF n = 0 THEN 0 ELSE radix * f[n - 1] + DigitValue(digits[n])
  BY <1>3, <1>4 DEF Recurs
<1>6. f = [n \in 0 .. m |-> f[n]]
  BY <1>3 DEF Recurs
<1>7. FirstDigits(f, digits, radix, m)
  BY <1>5, <1>6, Zenon DEF FirstDigits
<1> QED
  BY <1>7

LEMMA FirstDigitsStep ==
  ASSUME NEW digits, NEW radix \in Nat, NEW m \in Nat, HasDigits(digits, m),
         NEW f, FirstDigits(f, digits, radix, m)
  PROVE  /\ f[0] = 0 /\ \A n \in 0 .. m : f[n] \in Nat
         /\ \A n \in 1 .. m : f[n] = radix * f[n - 1] + DigitValue(digits[n])
<1>1. f[0] = 0 /\ \A n \in 1 .. m : f[n] = radix * f[n - 1] + DigitValue(digits[n])
  BY DEF FirstDigits
<1>2. ASSUME NEW n \in 1 .. m, f[n - 1] \in Nat PROVE f[n] \in Nat
  BY <1>1, <1>2 DEF HasDigits
<1>3. f[0] \in Nat
  BY <1>1
<1>4. \A n \in 0 .. m : f[n] \in Nat
  BY <1>2, <1>3, NaturalUpTo
<1> QED
  BY <1>1, <1>4

LEMMA PowersStep ==
  ASSUME NEW radix \in Nat, NEW m \in Nat
  PROVE  /\ \E f : Powers(f, radix, m)
         /\ \A f : Powers(f, radix, m) =>
              /\ f[0] = 1 /\ \A k \in 0 .. m : f[k] \in Nat
              /\ \A k \in 1 .. m : f[k] = radix * f[k - 1]
<1>1. \E f : Powers(f, radix, m)
  <2>1. PICK c \in [Nat -> Nat], d \in [Nat -> Nat] : \A i \in 1 .. m : c[i] = radix /\ d[i] = 0
    <3> DEFINE cc == [i \in Nat |-> radix]
               dd == [i \in Nat |-> 0]
    <3>1. cc \in [Nat -> Nat] /\ dd \in [Nat -> Nat]
      OBVIOUS
    <3>2. \A i \in 1 .. m : cc[i] = radix /\ dd[i] = 0
      OBVIOUS
    <3> HIDE DEF cc, dd
    <3> QED
      BY <3>1, <3>2
  <2>2. m \in Nat /\ 0 \in Nat /\ 1 \in Nat
    OBVIOUS
  <2>3. PICK f : Recurs(f, m, 1, c, d)
    BY <2>1, <2>2, RecurrenceExists
  <2>4. \A i \in 1 .. m : f[i] = radix * f[i - 1]
    <3> SUFFICES ASSUME NEW i \in 1 .. m PROVE f[i] = radix * f[i - 1]
      OBVIOUS
    <3>1. i - 1 \in 0 .. m
      OBVIOUS
    <3>2. f[i - 1] \in Nat /\ f[i] = radix * f[i - 1] + 0
      BY <2>1, <2>3, <3>1 DEF Recurs
    <3> QED
      BY <3>2
  <2>5. \A k \in 0 .. m : f[k] = IF k = 0 THEN 1 ELSE radix * f[k - 1]
    BY <2>3, <2>4 DEF Recurs
  <2>6. f = [k \in 0 .. m |-> f[k]]
    BY <2>3 DEF Recurs
  <2>7. Powers(f, radix, m)
    BY <2>5, <2>6, Zenon DEF Powers
  <2> QED
    BY <2>7
<1>2. ASSUME NEW f, Powers(f, radix, m)
      PROVE  /\ f[0] = 1 /\ \A k \in 0 .. m : f[k] \in Nat
             /\ \A k \in 1 .. m : f[k] = radix * f[k - 1]
  <2>1. f[0] = 1 /\ \A k \in 1 .. m : f[k] = radix * f[k - 1]
    BY <1>2 DEF Powers
  <2>2. ASSUME NEW k \in 1 .. m, f[k - 1] \in Nat PROVE f[k] \in Nat
    BY <2>1, <2>2
  <2>3. f[0] \in Nat
    BY <2>1
  <2>4. \A k \in 0 .. m : f[k] \in Nat
    BY <2>2, <2>3, NaturalUpTo
  <2> QED
    BY <2>1, <2>4
<1> QED
  BY <1>1, <1>2

LEMMA LastDigitsStep ==
  ASSUME NEW digits, NEW m \in Nat, HasDigits(digits, m), NEW power, \A k \in 0 .. m : power[k] \in Nat
  PROVE  /\ \E f : LastDigits(f, digits, power, m)
         /\ \A f : LastDigits(f, digits, power, m) =>
              /\ f[0] = 0 /\ \A k \in 0 .. m : f[k] \in Nat
              /\ \A k \in 1 .. m :
                   f[k] = DigitValue(digits[m - k + 1]) * power[k - 1] + f[k - 1]
<1>1. \A k \in 1 .. m : DigitValue(digits[m - k + 1]) \in Nat /\ power[k - 1] \in Nat
  <2> SUFFICES ASSUME NEW k \in 1 .. m
               PROVE  DigitValue(digits[m - k + 1]) \in Nat /\ power[k - 1] \in Nat
    OBVIOUS
  <2>1. m - k + 1 \in 1 .. m /\ k - 1 \in 0 .. m
    OBVIOUS
  <2> QED
    BY <2>1 DEF HasDigits
<1>2. \A k \in 1 .. m : DigitValue(digits[m - k + 1]) * power[k - 1] \in Nat
  BY <1>1
<1>3. \E f : LastDigits(f, digits, power, m)
  <2>1. PICK c \in [Nat -> Nat], d \in [Nat -> Nat] :
          \A i \in 1 .. m : c[i] = 1 /\ d[i] = DigitValue(digits[m - i + 1]) * power[i - 1]
    <3> DEFINE cc == [i \in Nat |-> 1]
               dd == [i \in Nat |-> IF i \in 1 .. m
                                       THEN DigitValue(digits[m - i + 1]) * power[i - 1] ELSE 0]
    <3>1. cc \in [Nat -> Nat] /\ dd \in [Nat -> Nat]
      BY <1>2
    <3>2. \A i \in 1 .. m : cc[i] = 1 /\ dd[i] = DigitValue(digits[m - i + 1]) * power[i - 1]
      OBVIOUS
    <3> HIDE DEF cc, dd
    <3> QED
      BY <3>1, <3>2
  <2>2. m \in Nat /\ 0 \in Nat /\ 1 \in Nat
    OBVIOUS
  <2>3. PICK f : Recurs(f, m, 0, c, d)
    BY <2>1, <2>2, RecurrenceExists
  <2>4. \A i \in 1 .. m : f[i] = DigitValue(digits[m - i + 1]) * power[i - 1] + f[i - 1]
    <3> SUFFICES ASSUME NEW i \in 1 .. m
                 PROVE  f[i] = DigitValue(digits[m - i + 1]) * power[i - 1] + f[i - 1]
      OBVIOUS
    <3>1. PICK e \in Nat : e = DigitValue(digits[m - i + 1]) * power[i - 1]
      BY <1>2
    <3>2. i - 1 \in 0 .. m
      OBVIOUS
    <3>3. f[i - 1] \in Nat /\ f[i] = 1 * f[i - 1] + e
      BY <2>1, <2>3, <3>1, <3>2 DEF Recurs
    <3>4. f[i] = e + f[i - 1]
      BY <3>3
    <3> QED
      BY <3>1, <3>4
  <2>5. \A k \in 0 .. m :
          f[k] = IF k = 0 THEN 0 ELSE DigitValue(digits[m - k + 1]) * power[k - 1] + f[k - 1]
    BY <2>3, <2>4 DEF Recurs
  <2>6. f = [k \in 0 .. m |-> f[k]]
    BY <2>3 DEF Recurs
  <2>7. LastDigits(f, digits, power, m)
    BY <2>5, <2>6, Zenon DEF LastDigits
  <2> QED
    BY <2>7
<1>4. ASSUME NEW f, LastDigits(f, digits, power, m)
      PROVE  /\ f[0] = 0 /\ \A k \in 0 .. m : f[k] \in Nat
             /\ \A k \in 1 .. m : f[k] = DigitValue(digits[m - k + 1]) * power[k - 1] + f[k - 1]
  <2>1. /\ f[0] = 0
        /\ \A k \in 1 .. m : f[k] = DigitValue(digits[m - k + 1]) * power[k - 1] + f[k - 1]
    BY <1>4 DEF LastDigits
  <2>2. ASSUME NEW k \in 1 .. m, f[k - 1] \in Nat PROVE f[k] \in Nat
    <3>1. PICK e \in Nat : e = DigitValue(digits[m - k + 1]) * power[k - 1]
      BY <1>2
    <3>2. f[k] = e + f[k - 1]
      BY <2>1, <3>1
    <3> QED
      BY <2>2, <3>2
  <2>3. f[0] \in Nat
    BY <2>1
  <2>4. \A k \in 0 .. m : f[k] \in Nat
    BY <2>2, <2>3, NaturalUpTo
  <2> QED
    BY <2>1, <2>4
<1> QED
  BY <1>3, <1>4

LEMMA ShiftedPlace ==
  ASSUME NEW r \in Nat, NEW u \in Nat, NEW d \in Nat, NEW p \in Nat, NEW l \in Nat
  PROVE  (r * u + d) * p + l = u * (r * p) + (d * p + l)
<1>1. (r * u + d) * p = (r * u) * p + d * p
  OBVIOUS
<1>2. (r * u) * p = u * (r * p)
  OBVIOUS
<1>3. PICK a \in Int, b \in Int, c \in Int : a = (r * u) * p /\ b = u * (r * p) /\ c = d * p
  OBVIOUS
<1>4. (r * u + d) * p = a + c
  BY <1>1, <1>3
<1> QED
  BY <1>2, <1>3, <1>4

\* Reading digits from the left comes to what they are worth by their places: what is read so
\* far counts for the places of those that are left.
LEMMA ReadByPlaces ==
  ASSUME NEW digits, NEW radix \in Nat, NEW m \in Nat, HasDigits(digits, m),
         NEW upTo, FirstDigits(upTo, digits, radix, m), NEW power, Powers(power, radix, m),
         NEW last, LastDigits(last, digits, power, m)
  PROVE  upTo[m] = last[m]
<1>1. /\ upTo[0] = 0 /\ \A n \in 0 .. m : upTo[n] \in Nat
      /\ \A n \in 1 .. m : upTo[n] = radix * upTo[n - 1] + DigitValue(digits[n])
  <2>1. \A n \in 0 .. m : upTo[n] \in Nat
    BY FirstDigitsStep, Zenon
  <2>2. upTo[0] = 0 /\ \A n \in 1 .. m : upTo[n] = radix * upTo[n - 1] + DigitValue(digits[n])
    BY DEF FirstDigits
  <2> QED
    BY <2>1, <2>2
<1>2. /\ power[0] = 1 /\ \A k \in 0 .. m : power[k] \in Nat
      /\ \A k \in 1 .. m : power[k] = radix * power[k - 1]
  BY PowersStep
<1>3. /\ last[0] = 0 /\ \A k \in 0 .. m : last[k] \in Nat
      /\ \A k \in 1 .. m : last[k] = DigitValue(digits[m - k + 1]) * power[k - 1] + last[k - 1]
  BY <1>2, LastDigitsStep
<1> DEFINE Sum(n) == upTo[n] * power[m - n] + last[m - n]
           T == {n \in Nat : n <= m => Sum(n) = last[m]}
<1>4. 0 \in T
  <2>1. PICK p \in Nat, l \in Nat : p = power[m] /\ l = last[m]
    BY <1>2, <1>3
  <2>2. 0 * p + l = l
    OBVIOUS
  <2>3. m - 0 = m
    OBVIOUS
  <2>4. Sum(0) = 0 * p + l
    BY <1>1, <2>1, <2>3
  <2> QED
    BY <2>1, <2>2, <2>4
<1>5. ASSUME NEW n \in T PROVE n + 1 \in T
  <2>1. n \in Nat /\ n + 1 \in Nat /\ (n <= m => Sum(n) = last[m])
    OBVIOUS
  <2>2. ASSUME n + 1 <= m PROVE Sum(n + 1) = last[m]
    <3>1. PICK i \in 1 .. m, k \in 1 .. m : i = n + 1 /\ k = m - n
      BY <2>1, <2>2
    <3>2. i - 1 = n /\ k - 1 = m - (n + 1) /\ m - k + 1 = i /\ n <= m
      BY <2>1, <2>2, <3>1
    <3>3. i - 1 \in 0 .. m /\ k - 1 \in 0 .. m
      BY <3>1
    <3>4. PICK u \in Nat, d \in Nat, p \in Nat, l \in Nat :
            u = upTo[i - 1] /\ d = DigitValue(digits[i]) /\ p = power[k - 1] /\ l = last[k - 1]
      BY <1>1, <1>2, <1>3, <3>1, <3>3 DEF HasDigits
    <3>5. upTo[i] = radix * u + d
      BY <1>1, <3>1, <3>4
    <3>6. power[k] = radix * p
      BY <1>2, <3>1, <3>4
    <3>7. last[k] = d * p + l
      BY <1>3, <3>1, <3>2, <3>4
    <3>8. Sum(n) = u * (radix * p) + (d * p + l)
      BY <3>1, <3>2, <3>4, <3>6, <3>7
    <3>9. Sum(n + 1) = (radix * u + d) * p + l
      BY <3>1, <3>2, <3>4, <3>5
    <3>10. (radix * u + d) * p + l = u * (radix * p) + (d * p + l)
      BY ShiftedPlace
    <3> HIDE DEF Sum
    <3>11. Sum(n) = last[m]
      BY <2>1, <3>2
    <3> QED
      BY <3>8, <3>9, <3>10, <3>11, Zenon
  <2> HIDE DEF Sum
  <2> QED
    BY <2>1, <2>2
<1> HIDE DEF Sum
<1>6. T = Nat
  <2>1. T \in SUBSET Nat
    OBVIOUS
  <2> HIDE DEF T
  <2> QED
    BY <1>4, <1>5, <2>1, Induction
<1>7. Sum(m) = last[m]
  BY <1>6
<1>8. PICK u \in Nat : u = upTo[m]
  BY <1>1
<1>9. Sum(m) = u * 1 + 0
  <2>1. m - m = 0
    OBVIOUS
  <2> QED
    BY <1>2, <1>3, <1>8, <2>1 DEF Sum
<1>10. u * 1 + 0 = u
  OBVIOUS
<1> QED
  BY <1>7, <1>8, <1>9, <1>10

\* What is left of a text when a sign is taken off, and a number that parses is that of its digits.
Unsigned(text) == IF text # <<>> /\ text[1] = "+" THEN Tail(text) ELSE text

LEMMA RadixReads ==
  ASSUME NEW text, NEW radix \in {10, 16}, FromStrRadix(text, radix) # Malformed,
         Len(Unsigned(text)) \in Nat, DOMAIN Unsigned(text) = 1 .. Len(Unsigned(text))
  PROVE  /\ IsNumeral(Unsigned(text), radix)
         /\ FromStrRadix(text, radix) = PlaceValue(Unsigned(text), radix)
         /\ FromStrRadix(text, radix) \in Nat
<1> DEFINE digits == Unsigned(text)
<1>1. PICK m \in Nat : m = Len(digits)
  OBVIOUS
<1> DEFINE upTo == CHOOSE f : FirstDigits(f, digits, radix, Len(digits))
           power == CHOOSE f : Powers(f, radix, Len(digits))
           last == CHOOSE f : LastDigits(f, digits, power, Len(digits))
<1>2. FromStrRadix(text, radix) =
        IF digits = <<>> \/ ~ \A i \in DOMAIN digits : \E d \in 1 .. radix : digits[i] = Digits[d]
          THEN Malformed
        ELSE IF upTo[Len(digits)] > MaxU64 THEN Malformed
        ELSE upTo[Len(digits)]
  BY Zenon DEF FromStrRadix, FirstDigits, Unsigned
<1>3. PlaceValue(digits, radix) = last[Len(digits)]
  BY Zenon DEF PlaceValue, Powers, LastDigits
<1> HIDE DEF upTo, power, last, digits
<1>4. DOMAIN digits = 1 .. m /\ IsNumeral(digits, radix) /\ FromStrRadix(text, radix) = upTo[m]
  BY <1>1, <1>2 DEF IsNumeral, digits
<1>5. HasDigits(digits, m)
  <2> SUFFICES ASSUME NEW i \in 1 .. m PROVE DigitValue(digits[i]) \in Nat
    BY DEF HasDigits
  <2>1. \E d \in 1 .. radix : digits[i] = Digits[d]
    BY <1>1, <1>4 DEF IsNumeral
  <2> QED
    BY <2>1, DigitHasValue
<1>6. radix \in Nat
  OBVIOUS
<1>7. FirstDigits(upTo, digits, radix, m)
  <2>1. \E f : FirstDigits(f, digits, radix, m)
    BY <1>5, <1>6, FirstDigitsExist
  <2> QED
    BY <1>1, <2>1 DEF upTo
<1>8. Powers(power, radix, m)
  <2>1. \E f : Powers(f, radix, m)
    BY <1>6, PowersStep
  <2> QED
    BY <1>1, <2>1 DEF power
<1>9. \A k \in 0 .. m : power[k] \in Nat
  BY <1>6, <1>8, PowersStep
<1>10. LastDigits(last, digits, power, m)
  <2>1. \E f : LastDigits(f, digits, power, m)
    BY <1>5, <1>9, LastDigitsStep
  <2> QED
    BY <1>1, <2>1 DEF last
<1>11. upTo[m] = last[m]
  BY <1>5, <1>6, <1>7, <1>8, <1>10, ReadByPlaces
<1>12. upTo[m] \in Nat
  <2>1. \A n \in 0 .. m : upTo[n] \in Nat
    BY <1>5, <1>6, <1>7, FirstDigitsStep
  <2>2. m \in 0 .. m
    OBVIOUS
  <2> QED
    BY <2>1, <2>2
<1> QED
  BY <1>1, <1>3, <1>4, <1>11, <1>12, Zenon DEF digits

\* The letters after the first a of a text, up to the kth, and blanks around them.
Part(text, a, k) == SubSeq(text, a + 1, k)
BlankAround(text, i, k) == \A n \in (1 .. i) \cup (k + 1 .. Len(text)) : text[n] = " "

LEMMA PartOf ==
  ASSUME NEW S, NEW text \in Seq(S), NEW a \in 0 .. Len(text), NEW k \in a .. Len(text)
  PROVE  /\ Part(text, a, k) \in Seq(S) /\ Len(Part(text, a, k)) = k - a /\ k - a \in Nat
         /\ \A n \in 1 .. k - a : Part(text, a, k)[n] = text[a + n]
<1>1. \A n \in a + 1 .. k : text[n] \in S
  OBVIOUS
<1>2. a + 1 \in Int /\ k \in Int
  OBVIOUS
<1>3. PICK m \in Int : m = a + 1
  BY <1>2
<1>4. \A n \in m .. k : text[n] \in S
  BY <1>1, <1>3
<1>5. /\ SubSeq(text, m, k) \in Seq(S)
      /\ Len(SubSeq(text, m, k)) = IF m <= k THEN k - m + 1 ELSE 0
      /\ \A n \in 1 .. k - m + 1 : SubSeq(text, m, k)[n] = text[m + n - 1]
  BY <1>2, <1>4, SubSeqProperties
<1>6. k - m + 1 = k - a /\ (IF m <= k THEN k - m + 1 ELSE 0) = k - a
  BY <1>3
<1>7. \A n \in 1 .. k - a : m + n - 1 = a + n
  BY <1>3
<1> QED
  BY <1>3, <1>5, <1>6, <1>7 DEF Part

\* What is parsed is a part of the text; its digits are all of it but the sign.
LEMMA PartReads ==
  ASSUME NEW S, NEW text \in Seq(S), NEW a \in 0 .. Len(text), NEW k \in a .. Len(text),
         NEW radix \in {10, 16}, NEW part, part = Part(text, a, k),
         FromStrRadix(part, radix) # Malformed
  PROVE  /\ FromStrRadix(part, radix) \in Nat
         /\ \E j \in 0 .. Len(text) :
              /\ j = a \/ (j = a + 1 /\ text[j] = "+")
              /\ IsNumeral(Part(text, j, k), radix)
              /\ FromStrRadix(part, radix) = PlaceValue(Part(text, j, k), radix)
<1>1. part \in Seq(S) /\ Len(part) = k - a /\ \A n \in 1 .. k - a : part[n] = text[a + n]
  BY PartOf
<1>2. CASE part # <<>> /\ part[1] = "+"
  <2>1. Len(part) \in Nat \ {0}
    BY <1>1, <1>2
  <2>2. PICK j \in 0 .. Len(text) : j = a + 1 /\ j \in 1 .. k
    BY <1>1, <2>1
  <2>3. text[j] = "+"
    BY <1>1, <1>2, <2>1, <2>2
  <2>4. PICK digits : digits = Part(text, j, k)
    OBVIOUS
  <2>5. k \in j .. Len(text)
    BY <2>2
  <2>6. digits \in Seq(S) /\ Len(digits) = k - j
    BY <2>4, <2>5, PartOf
  <2>7. Tail(part) = digits
    <3>1. j \in 1 .. Len(text) /\ part = SubSeq(text, j, k)
      BY <2>2 DEF Part
    <3> QED
      BY <2>4, <2>5, <3>1, HeadTailOfSubSeq DEF Part
  <2>8. Unsigned(part) = digits
    BY <1>2, <2>7 DEF Unsigned
  <2>9. Len(digits) \in Nat /\ DOMAIN digits = 1 .. Len(digits)
    BY <2>2, <2>6
  <2>10. /\ IsNumeral(digits, radix) /\ FromStrRadix(part, radix) = PlaceValue(digits, radix)
         /\ FromStrRadix(part, radix) \in Nat
    BY <2>8, <2>9, RadixReads
  <2> QED
    BY <2>2, <2>3, <2>4, <2>10
<1>3. CASE ~(part # <<>> /\ part[1] = "+")
  <2>1. Unsigned(part) = part
    BY <1>3 DEF Unsigned
  <2>2. Len(part) \in Nat /\ DOMAIN part = 1 .. Len(part)
    BY <1>1
  <2>3. /\ IsNumeral(part, radix) /\ FromStrRadix(part, radix) = PlaceValue(part, radix)
        /\ FromStrRadix(part, radix) \in Nat
    BY <2>1, <2>2, RadixReads
  <2> QED
    BY <2>3
<1> QED
  BY <1>2, <1>3

\* A number between blanks is read.
LEMMA DecimalIsRead ==
  ASSUME NEW S, NEW text \in Seq(S), NEW i \in 0 .. Len(text), NEW k \in i .. Len(text),
         BlankAround(text, i, k),
         NEW value, value = FromStrRadix(Part(text, i, k), 10), value # Malformed
  PROVE  value \in Nat /\ Reads(text, value)
<1>1. PICK radix \in {10, 16} : radix = 10
  OBVIOUS
<1>2. PICK j \in 0 .. Len(text) :
        /\ j = i \/ (j = i + 1 /\ text[j] = "+")
        /\ IsNumeral(Part(text, j, k), radix)
        /\ value = PlaceValue(Part(text, j, k), radix)
  BY <1>1, PartReads
<1>3. Part(text, i, j) \in Leads(radix)
  <2>1. CASE j = i
    <3>1. Part(text, i, j) = <<>>
      BY <2>1, PartOf
    <3> QED
      BY <1>1, <3>1 DEF Leads
  <2>2. CASE j = i + 1 /\ text[j] = "+"
    <3>1. PICK lead : lead = Part(text, i, j)
      OBVIOUS
    <3>2. j \in i .. Len(text) /\ j - i = 1
      BY <1>2, <2>2
    <3>3. lead \in Seq(S) /\ Len(lead) = j - i /\ \A n \in 1 .. j - i : lead[n] = text[i + n]
      BY <3>1, <3>2, PartOf
    <3>4. Len(lead) = 1 /\ lead[1] = "+"
      BY <2>2, <3>2, <3>3
    <3>5. lead = <<"+">>
      BY <3>3, <3>4
    <3> QED
      BY <1>1, <3>1, <3>5 DEF Leads
  <2> QED
    BY <1>2, <2>1, <2>2
<1>4. k \in 0 .. Len(text)
  OBVIOUS
<1>5. i \in 0 .. Len(text)
  OBVIOUS
<1>6. value \in Nat
  BY <1>1, PartReads
<1>7. Reads(text, value)
  BY <1>2, <1>3, <1>4, <1>5, Zenon DEF Reads, Part, BlankAround
<1> QED
  BY <1>6, <1>7

LEMMA AllIsInside ==
  ASSUME NEW S, NEW text \in Seq(S)
  PROVE  BlankAround(text, 0, Len(text))
<1>1. PICK m \in Nat : m = Len(text)
  OBVIOUS
<1>2. (1 .. 0) \cup (m + 1 .. m) = {}
  OBVIOUS
<1> QED
  BY <1>1, <1>2 DEF BlankAround

LEMMA HexadecimalIsRead ==
  ASSUME NEW S, NEW text \in Seq(S), HasPrefix(text, <<"0", "x">>),
         NEW value, value = FromStrRadix(Part(text, 2, Len(text)), 16), value # Malformed
  PROVE  value \in Nat /\ Reads(text, value)
<1>1. PICK radix \in {10, 16}, a \in Nat, k \in Nat :
        radix = 16 /\ a = 2 /\ k = Len(text)
  OBVIOUS
<1>2. Len(text) >= 2 /\ Part(text, 0, 2) = <<"0", "x">>
  BY DEF HasPrefix, Part
<1>3. a \in 0 .. Len(text) /\ k \in a .. Len(text) /\ k \in 0 .. Len(text) /\ 0 \in 0 .. Len(text)
  BY <1>1, <1>2
<1>4. PICK part : part = Part(text, a, k) /\ value = FromStrRadix(part, radix)
  BY <1>1
<1>5. PICK j \in 0 .. Len(text) :
        /\ j = a \/ (j = a + 1 /\ text[j] = "+")
        /\ IsNumeral(Part(text, j, k), radix)
        /\ value = PlaceValue(Part(text, j, k), radix)
  BY <1>3, <1>4, PartReads
<1>6. Part(text, 0, j) \in Leads(radix)
  <2>1. CASE j = a
    BY <1>1, <1>2, <2>1 DEF Leads
  <2>2. CASE j = a + 1 /\ text[j] = "+"
    <3>1. PICK z \in 0 .. Len(text) : z = 0
      OBVIOUS
    <3>2. z \in 0 .. Len(text)
      BY <3>1
    <3>3. PICK lead, both : lead = Part(text, z, j) /\ both = Part(text, z, a)
      OBVIOUS
    <3>4. j \in z .. Len(text) /\ a \in z .. Len(text) /\ j - z = 3 /\ a - z = 2
      BY <1>1, <1>3, <1>5, <2>2, <3>1
    <3>5. lead \in Seq(S) /\ Len(lead) = j - z /\ \A n \in 1 .. j - z : lead[n] = text[z + n]
      BY <3>2, <3>3, <3>4, PartOf
    <3>6. both \in Seq(S) /\ Len(both) = a - z /\ \A n \in 1 .. a - z : both[n] = text[z + n]
      BY <3>2, <3>3, <3>4, PartOf
    <3>7. both = <<"0", "x">>
      BY <1>1, <1>2, <3>1, <3>3
    <3>8. both[1] = lead[1] /\ both[2] = lead[2] /\ lead[3] = text[j] /\ Len(lead) = 3
      BY <1>1, <2>2, <3>1, <3>4, <3>5, <3>6
    <3>9. lead = <<"0", "x", "+">>
      BY <2>2, <3>5, <3>7, <3>8
    <3> QED
      BY <1>1, <3>1, <3>3, <3>9 DEF Leads
  <2> QED
    BY <1>5, <2>1, <2>2
<1>7. BlankAround(text, 0, k)
  BY <1>1, AllIsInside
<1>8. value \in Nat
  BY <1>3, <1>4, PartReads
<1>9. Reads(text, value)
  BY <1>3, <1>5, <1>6, <1>7, Zenon DEF Reads, Part, BlankAround
<1> QED
  BY <1>8, <1>9

\* Blanks are all that trimming takes off.
LEMMA TrimTakesBlanks ==
  ASSUME NEW S, NEW text \in Seq(S), Trim(text) # <<>>
  PROVE  \E i \in 0 .. Len(text) : \E k \in i .. Len(text) :
           /\ Trim(text) = Part(text, i, k)
           /\ BlankAround(text, i, k)
<1>1. PICK inked : inked = {n \in DOMAIN text : text[n] # " "}
  OBVIOUS
<1>2. Trim(text) = IF inked = {} THEN <<>> ELSE SubSeq(text, Min(inked), Max(inked))
  BY <1>1, Zenon DEF Trim
<1>3. PICK m \in Nat : m = Len(text) /\ DOMAIN text = 1 .. m
  OBVIOUS
<1>4. inked # {} /\ inked \in SUBSET Nat /\ inked \in SUBSET (0 .. m) /\ inked \subseteq 1 .. m
  <2>1. inked # {}
    BY <1>2, Zenon
  <2>2. inked \subseteq 1 .. m
    BY <1>1, <1>3, Zenon
  <2> QED
    BY <2>1, <2>2
<1>5. PICK first, final : first = Min(inked) /\ final = Max(inked)
  OBVIOUS
<1>6. first \in inked /\ \A n \in inked : first <= n
  BY <1>4, <1>5, LeastIsMin
<1>7. final \in inked /\ \A n \in inked : n <= final
  <2>1. final \in inked
    BY <1>3, <1>4, <1>5, GreatestIsMax
  <2>2. \A n \in inked : final >= n
    BY <1>3, <1>4, <1>5, GreatestIsMax
  <2> QED
    BY <1>4, <2>1, <2>2
<1>8. PICK i \in 0 .. m, k \in 1 .. m : i + 1 = first /\ k = final /\ i <= k
  <2>1. first \in 1 .. m /\ final \in 1 .. m /\ first <= final
    BY <1>4, <1>6, <1>7
  <2>2. first - 1 \in 0 .. m /\ first - 1 <= final /\ first - 1 + 1 = first
    BY <2>1
  <2> QED
    BY <2>1, <2>2
<1>9. ASSUME NEW n \in (1 .. i) \cup (k + 1 .. m) PROVE text[n] = " "
  <2>1. n \in 1 .. m /\ ~(first <= n /\ n <= final)
    BY <1>3, <1>8
  <2>2. n \notin inked
    BY <1>6, <1>7, <2>1
  <2> QED
    BY <1>1, <1>3, <2>1, <2>2
<1>10. Trim(text) = Part(text, i, k)
  BY <1>2, <1>4, <1>5, <1>8 DEF Part
<1>11. k \in i .. m
  BY <1>8
<1> QED
  BY <1>3, <1>9, <1>10, <1>11 DEF BlankAround

\* What an override is parsed to is what is read in its text.
LEMMA ParsedAsRead ==
  ASSUME NEW text, IsSequence(text), NEW name \in Overrides, Parse(name, text) # Malformed
  PROVE  /\ Reads(text, Parse(name, text))
         /\ name \in Numbers => Parse(name, text) \in Nat
<1>1. PICK S : text \in Seq(S)
  BY DEF IsSequence
<1>2. PICK value : value = Parse(name, text)
  OBVIOUS
<1>3. CASE name \in Numbers
  <2>1. value = ParseU64(text)
    <3>1. name \notin Deadlines
      BY <1>3 DEF Deadlines, Numbers
    <3> QED
      BY <1>2, <1>3, <3>1 DEF Parse
  <2>2. CASE HasPrefix(text, <<"0", "x">>)
    <3>1. value = FromStrRadix(Part(text, 2, Len(text)), 16)
      BY <2>1, <2>2 DEF ParseU64, Part
    <3> QED
      BY <1>1, <1>2, <2>2, <3>1, HexadecimalIsRead
  <2>3. CASE ~HasPrefix(text, <<"0", "x">>)
    <3>1. value = FromStrRadix(text, 10)
      BY <2>1, <2>3 DEF ParseU64
    <3>2. PICK i, k : i = 0 /\ k = Len(text)
      OBVIOUS
    <3>3. /\ i \in 0 .. Len(text) /\ k \in i .. Len(text)
          /\ BlankAround(text, i, k)
      BY <1>1, <3>2, AllIsInside
    <3>4. Part(text, i, k) = text
      BY <1>1, <3>2, SubSeqFull DEF Part
    <3> QED
      BY <1>1, <1>2, <3>1, <3>3, <3>4, DecimalIsRead
  <2> QED
    BY <2>2, <2>3
<1>4. CASE name \in Deadlines
  <2>1. name \notin Numbers
    BY <1>4 DEF Deadlines, Numbers
  <2>2. value = ParsePositive(text)
    BY <1>2, <1>4, <2>1 DEF Parse
  <2>3. value = FromStrRadix(Trim(text), 10)
    BY <1>2, <2>2 DEF ParsePositive
  <2>4. Trim(text) # <<>>
    <3>1. FromStrRadix(<<>>, 10) = Malformed
      BY Zenon DEF FromStrRadix
    <3> QED
      BY <1>2, <2>3, <3>1
  <2>5. PICK i \in 0 .. Len(text) : \E k \in i .. Len(text) :
          /\ Trim(text) = Part(text, i, k)
          /\ BlankAround(text, i, k)
    BY <1>1, <2>4, TrimTakesBlanks
  <2>6. PICK k \in i .. Len(text) :
          /\ Trim(text) = Part(text, i, k)
          /\ BlankAround(text, i, k)
    BY <2>5
  <2>7. value = FromStrRadix(Part(text, i, k), 10)
    BY <2>3, <2>6
  <2> QED
    BY <1>1, <1>2, <2>1, <2>5, <2>6, <2>7, DecimalIsRead
<1>5. CASE name \notin Numbers \cup Deadlines
  <2>1. value = ParseAddress(text)
    BY <1>2, <1>5 DEF Parse
  <2>2. text \in {<<a>> : a \in Addresses} /\ value = text[1]
    BY <1>2, <2>1 DEF ParseAddress
  <2>3. value \in Addresses /\ text = <<value>>
    BY <2>2
  <2> QED
    BY <1>2, <1>5, <2>3 DEF Reads
<1> QED
  BY <1>3, <1>4, <1>5

\* What is asked for is a sequence of letters.
LEMMA AskedIsSequence ==
  ASSUME NEW begun, NEW env, NEW lines, env = begun.env, lines = begun.file,
         \A n \in DOMAIN env : env[n] # NotUnicode => IsSequence(env[n]),
         NEW m \in Nat, DOMAIN lines = 1 .. m,
         \A i \in DOMAIN lines : IsSequence(lines[i].text),
         NEW name, Asked(begun, name) \notin {<<>>, NotUnicode}
  PROVE  IsSequence(Asked(begun, name))
<1>1. PICK its : its = {i \in DOMAIN lines : lines[i].name = name}
  OBVIOUS
<1>2. Asked(begun, name) =
        IF IsText(env, name) THEN env[name]
        ELSE IF its # {} THEN lines[Min(its)].text
        ELSE IF name \in DOMAIN env THEN NotUnicode
        ELSE <<>>
  BY <1>1, Zenon DEF Asked, IsText
<1>3. CASE IsText(env, name)
  BY <1>2, <1>3, Zenon DEF IsText
<1>4. CASE ~IsText(env, name) /\ its # {}
  <2>1. its \in SUBSET Nat
    BY <1>1
  <2>2. Min(its) \in its
    BY <1>4, <2>1, LeastIsMin
  <2>3. Min(its) \in DOMAIN lines
    BY <1>1, <2>2, Zenon
  <2> QED
    BY <1>2, <1>4, <2>3, Zenon
<1>5. CASE ~IsText(env, name) /\ its = {}
  BY <1>2, <1>5, Zenon
<1> QED
  BY <1>3, <1>4, <1>5

\* The .env file of a run parses.
Parses(r) == \A i \in DOMAIN start[r].file : start[r].file[i].name # ""

\* What is asked for is what a run has loaded, a text being a sequence.
LEMMA LoadedAsAsked ==
  ASSUME HoldInv, NEW r \in Runs, Parses(r), NEW name
  PROVE  /\ IF name \in DOMAIN Loaded(r) THEN Loaded(r)[name] = Asked(start[r], name)
            ELSE Asked(start[r], name) = <<>>
         /\ Asked(start[r], name) \notin {<<>>, NotUnicode} => IsSequence(Asked(start[r], name))
<1>1. start \in Starts
  BY DEF HoldInv
<1>2. PICK begun, lines, before : begun = start[r] /\ lines = begun.file /\ before = begun.env
  OBVIOUS
<1>3. /\ Len(lines) \in Nat /\ DOMAIN lines = 1 .. Len(lines)
      /\ \A i \in DOMAIN lines : lines[i].text # NotUnicode /\ IsSequence(lines[i].text)
      /\ \A m \in DOMAIN before : before[m] # NotUnicode => IsSequence(before[m])
  BY <1>1, <1>2, StartsAssumption
<1>4. PICK n \in Nat : n = Len(lines)
  BY <1>3
<1>5. DOMAIN lines = 1 .. n /\ WellFormed(lines, n)
  BY <1>2, <1>3, <1>4 DEF Parses, WellFormed
<1>6. PICK env : env = Loaded(r) /\ env = LoadDotenv(before, lines)
  BY <1>2 DEF Loaded
<1>7. IF name \in DOMAIN env THEN env[name] = Asked(begun, name) ELSE Asked(begun, name) = <<>>
  BY <1>2, <1>4, <1>5, <1>6, AskedIsLoaded
<1>8. Asked(begun, name) \notin {<<>>, NotUnicode} => IsSequence(Asked(begun, name))
  <2>1. \A i \in DOMAIN lines : IsSequence(lines[i].text)
    BY <1>3
  <2> QED
    BY <1>2, <1>3, <1>5, <2>1, AskedIsSequence
<1> QED
  BY <1>2, <1>6, <1>7, <1>8

\* An override that is not set is at its default, and one that is has been read.
LEMMA OverrideAsAsked ==
  ASSUME HoldInv, NEW r \in Runs, Parses(r), NEW name \in Overrides,
         Override(Loaded(r), name) # Malformed, Asked(start[r], name) # <<>>
  PROVE  /\ Asked(start[r], name) # NotUnicode
         /\ Reads(Asked(start[r], name), Override(Loaded(r), name))
         /\ name \in Numbers => Override(Loaded(r), name) \in Nat
<1>1. PICK env, text : env = Loaded(r) /\ text = Asked(start[r], name)
  OBVIOUS
<1>2. name \in DOMAIN env /\ env[name] = text
  BY <1>1, LoadedAsAsked
<1>3. text \notin {<<>>, NotUnicode}
  BY <1>1, <1>2 DEF Override
<1>4. Override(env, name) = Parse(name, text)
  BY <1>2, <1>3 DEF Override
<1>5. IsSequence(text)
  BY <1>1, <1>3, LoadedAsAsked
<1>6. Reads(text, Parse(name, text)) /\ (name \in Numbers => Parse(name, text) \in Nat)
  BY <1>1, <1>4, <1>5, ParsedAsRead
<1> QED
  BY <1>1, <1>3, <1>4, <1>6

\* For any environment and any .env file that parses: a run that goes on goes by every override
\* that is set in either, at the value that is read in its text, and none is dropped on the way or
\* hidden by an empty or a later line (dotenv, parse_optional_u64_env and its like).
THEOREM NothingThatIsSetIsDropped == Spec => []NoOverrideIsDropped
<1>1. ASSUME IInv, HoldInv, NEW r \in Runs, plan[r] # None, Parses(r),
             NEW name \in DOMAIN plan[r].overrides, Asked(start[r], name) # <<>>
      PROVE  /\ Asked(start[r], name) # NotUnicode
             /\ Reads(Asked(start[r], name), plan[r].overrides[name])
  <2>1. PICK env : env = Loaded(r)
    OBVIOUS
  <2>2. plan[r] = Plan(env) /\ Usable(env)
    BY <1>1, <2>1 DEF IInv, PlanInv, HoldInv, HoldOk
  <2>3. name \in Read(env) /\ plan[r].overrides[name] = Override(env, name)
    <3>1. plan[r].overrides = [n \in Read(env) |-> Override(env, n)]
      BY <2>2 DEF Plan
    <3> QED
      BY <1>1, <3>1
  <2>4. Override(env, name) # Malformed /\ name \in Overrides
    BY <2>2, <2>3 DEF Usable, Read, Overrides
  <2> QED
    BY <1>1, <2>1, <2>3, <2>4, OverrideAsAsked
<1>2. IInv /\ HoldInv => NoOverrideIsDropped
  BY <1>1, Zenon DEF NoOverrideIsDropped, Parses
<1> QED
  BY <1>2, Holds, PTL

\* The chain a run goes by is the one that is asked for.
LEMMA ChainAsAsked ==
  ASSUME HoldInv, NEW r \in Runs, Parses(r), Usable(Loaded(r))
  PROVE  ChainAsked(start[r], Chain(Loaded(r)))
<1>1. PICK env, path, text :
        /\ env = Loaded(r)
        /\ path = Asked(start[r], "INPUT_JSON") /\ text = Asked(start[r], "CHAIN_ID")
  OBVIOUS
<1>2. IF "INPUT_JSON" \in DOMAIN env THEN env["INPUT_JSON"] = path ELSE path = <<>>
  BY <1>1, LoadedAsAsked
<1>3. CASE FromFile(env)
  <2>1. path \in DOMAIN InputJson
    BY <1>1, <1>2, <1>3 DEF FromFile, Usable
  <2>2. Chain(env) = InputJson[path]
    BY <1>2, <1>3 DEF FromFile, Chain
  <2> QED
    BY <1>1, <2>1, <2>2 DEF ChainAsked
<1>4. CASE ~FromFile(env)
  <2>1. path \notin DOMAIN InputJson
    BY <1>2, <1>4, InputAssumption DEF FromFile
  <2>2. "CHAIN_ID" \in Read(env) /\ "CHAIN_ID" \in Numbers \cap Overrides
    BY <1>4 DEF Read, Overrides, Numbers, Deadlines
  <2>3. Override(env, "CHAIN_ID") # Malformed
    BY <1>1, <2>2 DEF Usable
  <2>4. PICK value : value = Override(env, "CHAIN_ID")
    OBVIOUS
  <2>5. Chain(env) = IF value = Default THEN 1 ELSE value
    BY <1>4, <2>4 DEF Chain
  <2>6. CASE text = <<>>
    <3>1. IF "CHAIN_ID" \in DOMAIN env THEN env["CHAIN_ID"] = <<>> ELSE TRUE
      BY <1>1, <2>6, LoadedAsAsked
    <3>2. value = Default
      <4>1. <<>> # NotUnicode \/ "CHAIN_ID" \notin DOMAIN env
        BY <2>3, <3>1 DEF Override
      <4>2. "CHAIN_ID" \notin Deadlines
        BY DEF Deadlines
      <4> QED
        BY <2>4, <3>1, <4>1, <4>2 DEF Override
    <3> QED
      BY <1>1, <2>1, <2>5, <2>6, <3>2 DEF ChainAsked
  <2>7. CASE text # <<>>
    <3>1. Reads(text, value) /\ value \in Nat
      BY <1>1, <2>2, <2>3, <2>4, <2>7, OverrideAsAsked
    <3>2. Chain(env) = value
      BY <2>5, <3>1, SettingsAssumption
    <3> QED
      BY <1>1, <2>1, <2>7, <3>1, <3>2 DEF ChainAsked
  <2> QED
    BY <2>6, <2>7
<1> QED
  BY <1>1, <1>3, <1>4

\* For any environment, request and .env file that parses: host and toolkit ask the node that is
\* set for the chain that is asked for, and a run without one does not go on (resolve_rpc_url,
\* allowlisted_child_env).
THEOREM NodeIsTheOneSet == Spec => []NodeIsTheOneAskedFor
<1>1. ASSUME IInv, HoldInv, NEW r \in Runs, plan[r] # None, Parses(r)
      PROVE  \E chain \in SupportedChains :
               LET name == ToolkitRpcEnvName(chain) IN
                 /\ ChainAsked(start[r], chain)
                 /\ plan[r].url = Asked(start[r], name)
                 /\ name \in DOMAIN plan[r].child /\ plan[r].child[name] = Asked(start[r], name)
  <2>1. PICK env, chain : env = Loaded(r) /\ chain = Chain(env)
    OBVIOUS
  <2>2. plan[r] = Plan(env) /\ Usable(env)
    BY <1>1, <2>1 DEF IInv, PlanInv, HoldInv, HoldOk
  <2>3. PICK url, name : url = ResolveRpcUrl(env, chain) /\ name = ToolkitRpcEnvName(chain)
    OBVIOUS
  <2>4. /\ chain \in SupportedChains
        /\ name \in DOMAIN env /\ env[name] # NotUnicode /\ url = env[name]
    BY <2>1, <2>2, <2>3 DEF Usable, ResolveRpcUrl, VarOr
  <2>5. env[name] = Asked(start[r], name)
    BY <1>1, <2>1, <2>4, LoadedAsAsked
  <2>6. plan[r].url = url /\ plan[r].child = ChildEnv(env, chain)
    BY <2>1, <2>2, <2>3 DEF Plan
  <2>7. name \in DOMAIN ChildEnv(env, chain) /\ ChildEnv(env, chain)[name] = url
    <3>1. name # "PYTHONPATH"
      BY <2>3 DEF ToolkitRpcEnvName
    <3> QED
      BY <2>3, <3>1 DEF ChildEnv
  <2>8. ChainAsked(start[r], chain)
    BY <1>1, <2>1, <2>2, ChainAsAsked
  <2> QED
    BY <2>3, <2>4, <2>5, <2>6, <2>7, <2>8
<1>2. IInv /\ HoldInv => NodeIsTheOneAskedFor
  BY <1>1, Zenon DEF NodeIsTheOneAskedFor, Parses
<1> QED
  BY <1>2, Holds, PTL
=============================================================================
