--------------------------- MODULE LevFormulaDb ----------------------------
(***************************************************************************)
(* LevFormulaDb keeps the hits in a LevelDB database, a map ordered by the *)
(* bytes of its keys.  The key of a hit is the text "<formulaId>!<counter>"*)
(* with a counter common to all formulas, so hits of one formula are       *)
(* enumerated in the order of the decimal texts of their counters, not in  *)
(* the order of insertion.  The value stored (crawl id and formula path)   *)
(* is abstracted to the number of the insertion.                           *)
(***************************************************************************)
EXTENDS Integers, Sequences, FiniteSets, SequencesExt

CONSTANTS
  FormulaIds,  \* formula ids in use (positive integers)
  MaxInserts,  \* bound: number of hits inserted
  MaxLimit     \* bound: largest limitMin and limitSize of a query

VARIABLES
  mDatabase,   \* the entries [key, hit], in key order
  mCounter     \* number of hits inserted by this object

vars == <<mDatabase, mCounter>>

(***************************************************************************)
(* std::to_string, and the byte order of std::string and LevelDB keys.     *)
(***************************************************************************)
to_string(n) ==
  LET digits[m \in 0..n] ==
        IF m < 10 THEN <<48 + m>> ELSE Append(digits[m \div 10], 48 + (m % 10))
  IN  digits[n]

Bang == <<33>>    \* "!"
Xff  == <<255>>   \* "\xff"

StringLess(s, t) ==
  \/ IsStrictPrefix(s, t)
  \/ \E i \in DOMAIN s \cap DOMAIN t :
        s[i] < t[i] /\ \A j \in 1..(i-1) : s[j] = t[j]

\* Mutant: the counter is left out of the key.
KeyOfFormula(id, counter) == to_string(id) \o Bang

Key(id, counter) == to_string(id) \o Bang \o to_string(counter)

\* Number of entries before a key: the position Seek moves an iterator to.
Rank(key) == Cardinality({ i \in DOMAIN mDatabase : StringLess(mDatabase[i].key, key) })

Init == mDatabase = <<>> /\ mCounter = 0

\* leveldb::DB::Put: the entry of a key, new or not, gets the value.
Put(key, hit) ==
  LET i == Rank(key) + 1
  IN  mDatabase' = IF \E e \in ToSet(mDatabase) : e.key = key
                     THEN [mDatabase EXCEPT ![i].hit = hit]
                     ELSE InsertAt(mDatabase, i, [key |-> key, hit |-> hit])

insertFormula(id) ==
  /\ mCounter < MaxInserts
  /\ mCounter' = mCounter + 1
  /\ Put(Key(id, mCounter + 1), mCounter + 1)

Next == \E id \in FormulaIds : insertFormula(id)

Spec == Init /\ [][Next]_vars

(***************************************************************************)
(* queryFormula: Seek to "<id>!", skip limitMin entries as long as the     *)
(* iterator is valid, then read up to limitSize entries below "<id>!\xff". *)
(***************************************************************************)
HitsIn(entries) == [i \in DOMAIN entries |-> entries[i].hit]

\* Mutant: the formula id alone is the prefix sought.
queryFormulaById(id, limitMin, limitSize) ==
  LET start == Rank(to_string(id)) + limitMin
      stop  == Rank(to_string(id) \o Xff)
  IN  HitsIn(SubSeq(mDatabase, start + 1,
                    IF start + limitSize < stop THEN start + limitSize ELSE stop))

queryFormula(id, limitMin, limitSize) ==
  LET fmId  == to_string(id) \o Bang
      start == Rank(fmId) + limitMin
      stop  == Rank(fmId \o Xff)
  IN  HitsIn(SubSeq(mDatabase, start + 1,
                    IF start + limitSize < stop THEN start + limitSize ELSE stop))

-----------------------------------------------------------------------------
\* The hits of a formula, in the order of its entries.
ListOf(id) ==
  LET fmId == to_string(id) \o Bang
      hits[n \in 0..Len(mDatabase)] ==
        IF n = 0 THEN <<>>
        ELSE IF IsPrefix(fmId, mDatabase[n].key) THEN Append(hits[n - 1], mDatabase[n].hit)
        ELSE hits[n - 1]
  IN  hits[Len(mDatabase)]

Contract == INSTANCE FormulaDb WITH
  Hits <- 1..MaxInserts, lists <- [id \in FormulaIds |-> ListOf(id)]

\* insertFormula keeps the FormulaDb contract: an insertion changes the list
\* of its own formula only, by that one hit, whatever the texts of the keys.
InsertKeepsContract == Contract!Spec

\* queryFormula keeps the FormulaDb contract: a query never shows the hits of
\* another formula whose key text is near, and consecutive pages show each hit
\* of its own formula exactly once.
QueryKeepsContract ==
  \A id \in FormulaIds, limitMin, limitSize \in 0..MaxLimit :
    queryFormula(id, limitMin, limitSize) = Contract!queryFormula(id, limitMin, limitSize)
=============================================================================
