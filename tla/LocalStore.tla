------------------------------ MODULE LocalStore ------------------------------
(***************************************************************************)
(* The append-only store of storage/local/local.go, down to the layout of  *)
(* its log, because what New reads back after a torn write is decided by   *)
(* how the bytes are parsed.                                               *)
(*                                                                         *)
(* The file is a sequence of small numbers.  A record is a header of three *)
(* (type, key length, value length) instead of the nine bytes of the code, *)
(* then the key and the value.  A Put is three writes and a Delete two,    *)
(* all under s.mu; only a crash or a failing write shows the difference,   *)
(* and then any proper prefix of the record may be in the file.            *)
(*                                                                         *)
(* A definition marked Slip is a mistake the code could have made in the   *)
(* definition that follows it; nothing here uses it.                       *)
(***************************************************************************)
EXTENDS Naturals, Sequences, SequencesExt

CONSTANTS
    Keys,      \* document ids, one number each
    Values,    \* encoded documents: sequences of numbers
    NoValue,   \* what Get returns for a missing key
    Unknown,   \* ghost value: the last write of the key was cut short
    MaxFile,   \* bound: length of the log
    MaxTears   \* bound: writes cut short

ASSUME KeysAssumption == Keys \subseteq Nat /\ Values \subseteq Seq(Nat)
ASSUME NoValueAssumption == NoValue \notin Values /\ Unknown \notin Values
ASSUME FileAssumption == MaxFile \in Nat /\ MaxTears \in Nat

VARIABLES
    file,      \* the log
    entries,   \* key -> where its last Put starts, and its size
    status,    \* "open"; "down" = no process; "stuck" = s.file is closed
    tears,     \* writes cut short so far
    tail,      \* ghost: the key whose torn record ends the file, or none: a set
    damaged,   \* ghost: something was appended after a torn record
    acked      \* ghost: what the last completed write of each key wrote

storeVars == <<file, entries, status, tears, tail, damaged, acked>>

typePut == 1
\* Slip: a deletion is logged with the type of a Put.
typeDeleteAsPut == 1
typeDelete == 2
headerSize == 3

-----------------------------------------------------------------------------
(* Reading.                                                                *)

KeyLen(f, offset) == f[offset + 2]
ValLen(f, offset) == f[offset + 3]

\* loadEntries: the records the loop of New finds from an offset on.  It
\* stops at a header or key the file is too short for, but not at a value:
\* seeking past the end succeeds.
Records(f) ==
    LET from[offset \in 0..Len(f)] ==
          IF offset + headerSize > Len(f) THEN <<>>
          ELSE LET keyEnd == offset + headerSize + KeyLen(f, offset)
                   next   == keyEnd + ValLen(f, offset)
                   record == [type   |-> f[offset + 1],
                              key    |-> SubSeq(f, offset + headerSize + 1, keyEnd),
                              offset |-> offset,
                              size   |-> next - offset]
               IN  IF keyEnd > Len(f) THEN <<>>
                   ELSE <<record>> \o (IF next > Len(f) THEN <<>> ELSE from[next])
    IN  from[0]

\* Slip: deletions in the log are skipped.
LoadPutsOnly(f) ==
    LET records == Records(f)
        puts    == {i \in DOMAIN records : records[i].type = typePut}
        last(key) == CHOOSE i \in puts :
                         /\ records[i].key = key
                         /\ \A j \in puts : j > i => records[j].key # key
    IN  [key \in {records[i].key : i \in puts} |->
            [offset |-> records[last(key)].offset, size |-> records[last(key)].size]]

\* The last record of a key decides; any type but typePut deletes.
Load(f) ==
    LET records == Records(f)
        last    == {i \in DOMAIN records :
                       \A j \in DOMAIN records : j > i => records[j].key # records[i].key}
        puts    == {i \in last : records[i].type = typePut}
        at(key) == CHOOSE i \in puts : records[i].key = key
    IN  [key \in {records[i].key : i \in puts} |->
            [offset |-> records[at(key)].offset, size |-> records[at(key)].size]]

\* get: reads the entry's bytes, which fails past the end of the file, and
\* cuts the value out as the header found there says.
Read(f, idx, key) ==
    IF key \notin DOMAIN idx THEN NoValue
    ELSE LET offset == idx[key].offset
             start  == offset + headerSize + KeyLen(f, offset)
         IN  IF \/ offset + idx[key].size > Len(f)
                \/ f[offset + 1] # typePut
             THEN NoValue
             ELSE SubSeq(f, start + 1, start + ValLen(f, offset))

Get(k) == IF status = "open" THEN Read(file, entries, <<k>>) ELSE NoValue

\* What Get would return after a restart.
Recovered == LET idx == Load(file) IN [k \in Keys |-> Read(file, idx, <<k>>)]

-----------------------------------------------------------------------------
(* Writing.                                                                *)

Record(type, key, value) == <<type, Len(key), Len(value)>> \o key \o value

StoreInit ==
    /\ file = <<>> /\ entries = << >>
    /\ status = "open"
    /\ tears = 0
    /\ tail = {} /\ damaged = FALSE
    /\ acked = [k \in Keys |-> NoValue]

\* Slip: no seek to the end before writing.
WriteAtStart(record) ==
    /\ Len(file) + Len(record) <= MaxFile
    /\ file' = record \o SubSeq(file, Len(record) + 1, Len(file))
    /\ damaged' = (damaged \/ tail # {})

WriteAtEnd(record) ==
    /\ Len(file) + Len(record) <= MaxFile
    /\ file' = file \o record
    /\ damaged' = (damaged \/ tail # {})

Put(k, v) ==
    /\ status = "open"
    /\ LET record == Record(typePut, <<k>>, v)
       IN  /\ WriteAtEnd(record)
           /\ entries' = [key \in DOMAIN entries \cup {<<k>>} |->
                  IF key = <<k>> THEN [offset |-> Len(file), size |-> Len(record)]
                  ELSE entries[key]]
    /\ acked' = [acked EXCEPT ![k] = v]
    /\ tail' = {}
    /\ UNCHANGED <<status, tears>>

Delete(k) ==
    /\ status = "open"
    /\ WriteAtEnd(Record(typeDelete, <<k>>, <<>>))
    /\ entries' = [key \in DOMAIN entries \ {<<k>>} |-> entries[key]]
    /\ acked' = [acked EXCEPT ![k] = NoValue]
    /\ tail' = {}
    /\ UNCHANGED <<status, tears>>

\* A write of the record fails, and the call returns the error with the index
\* untouched, or the process dies in it.
Torn(k, record) ==
    /\ status = "open"
    /\ tears < MaxTears
    /\ \E n \in 1..Len(record) - 1 : WriteAtEnd(SubSeq(record, 1, n))
    /\ tears' = tears + 1
    /\ tail' = {k}
    /\ acked' = [acked EXCEPT ![k] = Unknown]
    /\ \/ status' = "open" /\ UNCHANGED entries
       \/ status' = "down" /\ entries' = << >>

TornPut(k, v) == Torn(k, Record(typePut, <<k>>, v))
TornDelete(k) == Torn(k, Record(typeDelete, <<k>>, <<>>))

\* Slip: an entry is said to start where it ends.
PlaceAfter(records, i) ==
    [offset |-> Len(FlattenSeq(SubSeq(records, 1, i))), size |-> Len(records[i])]

\* Where the i-th of these records starts in a log of nothing else.
Place(records, i) ==
    [offset |-> Len(FlattenSeq(SubSeq(records, 1, i - 1))), size |-> Len(records[i])]

\* Compact: the readable entries, in the order a range over the map yields,
\* become the whole log, by a rename.  The old file is closed before: when the
\* new one cannot be opened, every later read and write of this process fails.
Compact ==
    /\ status = "open"
    /\ \E order \in SetToSeqs({key \in DOMAIN entries :
                                  Read(file, entries, key) # NoValue}) :
         LET records == [i \in DOMAIN order |->
                 Record(typePut, order[i], Read(file, entries, order[i]))]
         IN  /\ file' = FlattenSeq(records)
             /\ \/ /\ entries' = [key \in Range(order) |->
                         Place(records, CHOOSE i \in DOMAIN order : order[i] = key)]
                   /\ UNCHANGED status
                \/ status' = "stuck" /\ UNCHANGED entries
    /\ tail' = {}
    /\ UNCHANGED <<tears, damaged, acked>>

\* The rename fails, with the same consequence and the old log in place.
CompactFails ==
    /\ status = "open"
    /\ status' = "stuck"
    /\ UNCHANGED <<file, entries, tears, tail, damaged, acked>>

\* Close, or a crash between two operations.
Stop ==
    /\ status # "down"
    /\ status' = "down" /\ entries' = << >>
    /\ UNCHANGED <<file, tears, tail, damaged, acked>>

\* New: the index is rebuilt; the file, a torn tail included, stays as it is.
New ==
    /\ status = "down"
    /\ status' = "open" /\ entries' = Load(file)
    /\ UNCHANGED <<file, tears, tail, damaged, acked>>

StoreNext ==
    \/ \E k \in Keys :
         \/ \E v \in Values : Put(k, v) \/ TornPut(k, v)
         \/ Delete(k) \/ TornDelete(k)
    \/ Compact \/ CompactFails
    \/ Stop \/ New

StoreSpec == StoreInit /\ [][StoreNext]_storeVars

-----------------------------------------------------------------------------
(* Properties.                                                             *)

\* Types, and that every entry of the index in use starts at a whole header and
\* key; only a value may be missing at the end of the log.
StoreTypeOK ==
    /\ file \in Seq(Nat)
    /\ status = "open" => \A key \in DOMAIN entries :
         /\ entries[key].offset \in Nat /\ entries[key].size \in Nat
         /\ entries[key].offset + headerSize + Len(key) <= Len(file)
    /\ status \in {"open", "down", "stuck"}
    /\ tears \in 0..MaxTears
    /\ tail \in SUBSET Keys /\ damaged \in BOOLEAN
    /\ acked \in [Keys -> Values \cup {NoValue, Unknown}]

\* The index a process built write by write answers as the one New rebuilds
\* from the log: a restart changes no answer, except about the key of a torn
\* last record.
RestartChangesNothing ==
    status = "open" /\ ~ damaged =>
        LET after == Recovered IN \A k \in Keys \ tail : Get(k) = after[k]

\* A step that rewrites the log instead of extending it (compaction, of a
\* damaged log too) changes no answer of the process that goes on.
RewriteKeepsReads ==
    [][~ IsPrefix(file, file') /\ status' = "open" =>
          \A k \in Keys : Get(k)' = Get(k)]_storeVars

\* "Returns ("", false) if the key does not exist or has been deleted"
\* (storage/storage.go:18): a key whose last write returned without error
\* reads back.  The code keeps a torn record in the log and appends behind
\* it, where the next restart no longer finds the new records.
AckedReadsBack ==
    status = "open" => \A k \in Keys : acked[k] # Unknown => Get(k) = acked[k]

\* A key whose last write returned without error reads back as long as
\* nothing was written behind a torn record.
UndamagedReadsBack == ~ damaged => AckedReadsBack

\* What a restart would find on disk is the map of storage.go: every key holds
\* what its last completed Put or Delete wrote, at every step, and only a write
\* that was cut short makes a key uncertain, its own.
KV == INSTANCE KVStore WITH map <- Recovered, written <- acked

ImplementsKV == KV!Spec
=============================================================================
