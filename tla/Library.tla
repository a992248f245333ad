------------------------------ MODULE Library ------------------------------
(***************************************************************************)
(* The data base of src-tauri/src/storage/mod.rs: the history, and the     *)
(* dictionary with its correction rules.  HistoryStore and DictionaryStore *)
(* have a connection each, with a lock of its own, to one SQLite file in   *)
(* WAL mode.  A backup (commands/backup.rs) is restored into all tables on *)
(* the connection of the history; an import (dictionary_io.rs) and the     *)
(* commands of the settings page use the other one.  The program may stop  *)
(* between any two steps.                                                  *)
(***************************************************************************)
EXTENDS Naturals, Sequences, FiniteSets, SequencesExt, FiniteSetsExt

CONSTANTS
  Policies,    \* retention policies: [enabled, max, days]
  Backups,     \* what a backup may hold, for each section it has
  Files,       \* sequences of the rows of a file to import
  MaxOps,      \* bound on the operations
  MaxDays, MaxStarts

ASSUME LibraryAssumption ==
  /\ {MaxOps, MaxDays, MaxStarts} \subseteq Nat
  /\ Policies # {}
  /\ \A p \in Policies : p.enabled \in BOOLEAN /\ p.max \in Nat \ {0} /\ p.days \in Nat

Lists    == {"dictionary", "rules"}
Sections == {"history"} \cup Lists
Adders   == {"dictation", "ask"}
Texts    == {"foo", "Foo", "=foo", "'=foo", "bad"}   \* of a word, or of the two phrases of a rule

\* What a backup brings has no id yet and, of an entry that is valid, no name of
\* an application (into_storage, From<BackupDictionaryEntry>).
NewRows    == [id : {0}, text : Texts, on : BOOLEAN]
NewEntries == [id : {0}, day : Nat, app : {"none", "bad"}]
FileRows   == [list : Lists, text : Texts, on : BOOLEAN]

ASSUME InputAssumption ==
  /\ \A b \in Backups : /\ DOMAIN b \subseteq Sections
                        /\ "history" \in DOMAIN b => b["history"] \in Seq(NewEntries)
                        /\ \A l \in Lists \cap DOMAIN b : b[l] \in Seq(NewRows)
  /\ \A f \in Files : f.marked \in BOOLEAN /\ f.rows \in Seq(FileRows)

VARIABLES
  base,      \* the data base: its tables, and which of them the backup has replaced
  work,      \* the transaction of a restore
  command,   \* the command on the connection of the dictionary
  adder,     \* add_with_policy
  running,   \* the program is up
  day, ids, ops, starts,
  newest,    \* history: the id of the entry added last, 0 after a clear or a restore
  raced,     \* history: a restore came between the check of a text and its insertion
  unpruned   \* history: entries whose pruning has failed or was cut off since one succeeded

libraryVars == <<base, work, command, adder, running, day, ids, ops, starts, newest, raced, unpruned>>

NoWork    == [pc |-> 0]
NoAdder   == [pc |-> "idle"]
\* stale: the other connection has committed since; replaced: a restore has
NoCommand == [pc |-> "idle", stale |-> FALSE, replaced |-> FALSE]
-----------------------------------------------------------------------------
(* Texts and rows                                                            *)

\* normalized_dictionary_identity
Identified(text) == IF text = "Foo" THEN "foo" ELSE text

\* validate_dictionary_text, clean_required_text
IsText(text) == text # "bad"

Row(id, text, on) == [id |-> id, text |-> text, on |-> on]
Has(list, text, excluding) ==
  \E i \in DOMAIN list : /\ Identified(list[i].text) = Identified(text)
                         /\ excluding # 0 => list[i].id # excluding

\* The members of the sequence that are in the set, in their order.
Among(seq, S) == FoldLeft(LAMBDA acc, x : IF x \in S THEN Append(acc, x) ELSE acc, <<>>, seq)

\* The rows of a file or a backup that are new in the list: their texts.
News(list, rows) ==
  FoldLeft(LAMBDA acc, row : IF Has(acc, row.text, 0) THEN acc ELSE Append(acc, row), list, rows)

Numbered(rows, from) == [i \in DOMAIN rows |-> [rows[i] EXCEPT !.id = IF @ = 0 THEN from + i ELSE @]]

\* safe_csv_cell, restore_exported_csv_cell
Cell(text)     == IF text = "=foo" THEN "'=foo" ELSE text
FromCell(cell) == IF cell = "'=foo" THEN "=foo" ELSE cell

LibraryInit ==
  /\ base = [history |-> << [id |-> 1, day |-> 0, app |-> "mail"] >>, dictionary |-> << Row(2, "foo", TRUE) >>,
             rules |-> <<>>, restored |-> {}]
  /\ work = NoWork /\ command = NoCommand /\ adder = [a \in Adders |-> NoAdder]
  /\ running = FALSE /\ day = 0 /\ ids = 2 /\ ops = 0 /\ starts = 0
  /\ newest = 1 /\ raced = FALSE /\ unpruned = 0
-----------------------------------------------------------------------------
(* HistoryStore                                                              *)

\* new(): migrate_legacy_history_context, in a transaction
Starts ==
  /\ ~running /\ running' = TRUE
  /\ base' = [base EXCEPT !.history = [i \in DOMAIN @ |-> [@[i] EXCEPT !.app = "none"]]]
  /\ UNCHANGED <<work, command, adder, day, ids, ops, starts, newest, raced, unpruned>>

\* An entry is in the history, and what is over the limit is still to go.
Pruning(a) == IF adder[a].pc = "prune" THEN 1 ELSE 0

\* The steps that were to follow are lost, and so is an open transaction.
Crashes ==
  /\ running /\ starts < MaxStarts
  /\ running' = FALSE /\ starts' = starts + 1
  /\ work' = NoWork /\ command' = NoCommand /\ adder' = [a \in Adders |-> NoAdder]
  /\ unpruned' = unpruned + Pruning("dictation") + Pruning("ask")
  /\ UNCHANGED <<base, day, ids, ops, newest, raced>>

DayPasses ==
  /\ day < MaxDays /\ day' = day + 1
  /\ UNCHANGED <<base, work, command, adder, running, ids, ops, starts, newest, raced, unpruned>>

\* The lock of the connection is held by a restore until its end, and from one
\* deletion of a pruning to the next.
HistoryFree == running /\ work.pc = 0 /\ \A a \in Adders : adder[a].pc # "expire"

OpBegins == ops < MaxOps /\ ops' = ops + 1

\* A commit of the connection of the history
Outdates == command' = [command EXCEPT !.stale = command.pc # "idle"]

\* add_with_policy
HistoryInserts(a, policy) ==
  /\ HistoryFree /\ adder[a].pc = "idle" /\ OpBegins
  /\ policy.enabled
  /\ ids' = ids + 1 /\ newest' = ids + 1
  /\ base' = [base EXCEPT !.history = Append(@, [id |-> ids + 1, day |-> day, app |-> "none"])]
  /\ adder' = [adder EXCEPT ![a] = [pc |-> "prune", policy |-> policy, now |-> day]]
  /\ Outdates
  /\ UNCHANGED <<work, running, day, starts, raced, unpruned>>

KeepsFirst(rows, max) == SubSeq(rows, 1, Min({max, Len(rows)}))        \* mutant

\* ORDER BY id DESC LIMIT max
LastOnes(rows, max) == SubSeq(rows, Len(rows) + 1 - Min({max, Len(rows)}), Len(rows))

\* Rows from before the retention days; 0 keeps all.
Recent(rows, policy, now) ==
  Among(rows, { r \in ToSet(rows) : policy.days > 0 => r.day + policy.days >= now })

\* prune_with_policy, with the policy and the time of the entry: two deletions,
\* each of which is committed, or fails and is the last step.
HistoryPrunes(a) ==
  /\ HistoryFree /\ adder[a].pc = "prune"
  /\ \/ /\ base' = [base EXCEPT !.history = LastOnes(@, adder[a].policy.max)]
        /\ adder' = [adder EXCEPT ![a] = IF @.policy.days > 0 THEN [@ EXCEPT !.pc = "expire"] ELSE NoAdder]
        /\ unpruned' = 0 /\ Outdates
     \/ /\ adder' = [adder EXCEPT ![a] = NoAdder]
        /\ unpruned' = unpruned + 1 /\ UNCHANGED <<base, command>>
  /\ UNCHANGED <<work, running, day, ids, ops, starts, newest, raced>>

HistoryExpires(a) ==
  /\ running /\ work.pc = 0 /\ adder[a].pc = "expire"
  /\ \/ /\ base' = [base EXCEPT !.history = Recent(@, adder[a].policy, adder[a].now)]
        /\ Outdates
     \/ UNCHANGED <<base, command>>
  /\ adder' = [adder EXCEPT ![a] = NoAdder]
  /\ UNCHANGED <<work, running, day, ids, ops, starts, newest, raced, unpruned>>

ClearsHistory ==
  /\ HistoryFree /\ OpBegins
  /\ base' = [base EXCEPT !.history = <<>>] /\ newest' = 0 /\ unpruned' = 0
  /\ Outdates
  /\ UNCHANGED <<work, adder, running, day, ids, starts, raced>>
-----------------------------------------------------------------------------
(* restore_backup_data: one transaction                                      *)

\* An entry that is not valid, like a section that is too large, refuses the
\* backup before anything is done.
Accepts(backup) ==
  \A s \in DOMAIN backup : \A i \in DOMAIN backup[s] :
    IF s = "history" THEN backup[s][i].app # "bad" ELSE IsText(backup[s][i].text)

Order == <<"history", "dictionary", "rules">>

BackupBegins(backup, policy) ==
  /\ HistoryFree /\ OpBegins /\ base.restored = {}
  /\ Accepts(backup)
  /\ work' = [pc |-> 1, base |-> base, backup |-> backup, policy |-> policy]
  /\ UNCHANGED <<base, command, adder, running, day, ids, starts, newest, raced, unpruned>>

\* The history of a backup has its newest entry first.
Restored(section, rows, policy) ==
  LET recent == Recent(rows, policy, day)
  IN  IF section # "history" THEN Numbered(News(<<>>, rows), ids)
      ELSE IF policy.enabled THEN Numbered(Reverse(SubSeq(recent, 1, Min({policy.max, Len(recent)}))), ids)
      ELSE <<>>

WritesThrough(next) == base' = next /\ work' = [work EXCEPT !.base = next, !.pc = @ + 1]  \* mutant

\* Until the commit, only the transaction sees what it has written.
Writes(next) == work' = [work EXCEPT !.base = next, !.pc = @ + 1] /\ UNCHANGED base

BackupWrites ==
  /\ work.pc \in DOMAIN Order
  /\ LET s == Order[work.pc]
     IN  \/ /\ s \in DOMAIN work.backup
            /\ Writes([work.base EXCEPT ![s] = Restored(s, work.backup[s], work.policy), !.restored = @ \cup {s}])
            /\ ids' = ids + Len(work.backup[s])
         \/ /\ s \notin DOMAIN work.backup
            /\ Writes(work.base) /\ UNCHANGED ids
  /\ UNCHANGED <<command, adder, running, day, ops, starts, newest, raced, unpruned>>

BackupFails ==
  /\ work.pc # 0
  /\ work' = NoWork
  /\ UNCHANGED <<base, command, adder, running, day, ids, ops, starts, newest, raced, unpruned>>

BackupCommits ==
  /\ work.pc = Len(Order) + 1
  /\ base' = work.base /\ work' = NoWork
  /\ newest' = IF "history" \in work.base.restored THEN 0 ELSE newest
  /\ command' = [command EXCEPT !.stale = command.pc # "idle", !.replaced = command.pc # "idle"]
  /\ UNCHANGED <<adder, running, day, ids, ops, starts, raced, unpruned>>
-----------------------------------------------------------------------------
(* DictionaryStore: add, update, remove, set_enabled                         *)

\* A restore that has begun to write keeps the other writers waiting.
MayWrite    == running /\ work.pc = 0
CommandFree == running /\ command.pc = "idle"

\* The check reads what is committed; the row has the id 0 when it is to be added.
CommandChecks(list, row) ==
  /\ CommandFree /\ OpBegins
  /\ IsText(row.text)
  /\ ~Has(base[list], row.text, row.id)
  /\ command' = [pc |-> "write", list |-> list, row |-> row, stale |-> FALSE, replaced |-> FALSE]
  /\ UNCHANGED <<base, work, adder, running, day, ids, starts, newest, raced, unpruned>>

CommandWrites ==
  /\ command.pc = "write" /\ MayWrite
  /\ LET row == command.row
     IN  base' = [base EXCEPT ![command.list] =
                    IF row.id = 0 THEN Append(@, [row EXCEPT !.id = ids + 1])
                    ELSE [i \in DOMAIN @ |-> IF @[i].id = row.id THEN row ELSE @[i]]]
  /\ ids' = ids + 1
  /\ raced' = (raced \/ command.replaced)
  /\ command' = NoCommand
  /\ UNCHANGED <<work, adder, running, day, ops, starts, newest, unpruned>>

\* set_correction_enabled
Toggled(list, i) == [list EXCEPT ![i].on = ~@]

\* remove, remove_correction
RowChanges(list, i) ==
  /\ CommandFree /\ MayWrite /\ OpBegins /\ i \in DOMAIN base[list]
  /\ \/ base' = [base EXCEPT ![list] = RemoveAt(@, i)]
     \/ list = "rules" /\ base' = [base EXCEPT !.rules = Toggled(@, i)]
  /\ UNCHANGED <<work, command, adder, running, day, ids, starts, newest, raced, unpruned>>
-----------------------------------------------------------------------------
(* commit_dictionary_import: a transaction that reads both lists first       *)

\* The rows of a file; those that are not valid are skipped.  An export of the
\* program's own marks its cells.
Parsed(file) ==
  LET rows == [i \in DOMAIN file.rows |->
                 [file.rows[i] EXCEPT !.text = IF file.marked THEN FromCell(@) ELSE @]]
  IN  Among(rows, { r \in ToSet(rows) : IsText(r.text) })

ImportReads(file) ==
  /\ CommandFree /\ OpBegins
  /\ command' = [pc |-> "import", rows |-> Parsed(file), read |-> base, stale |-> FALSE, replaced |-> FALSE]
  /\ UNCHANGED <<base, work, adder, running, day, ids, starts, newest, raced, unpruned>>

RowsFor(rows, list) == Among(rows, { r \in ToSet(rows) : r.list = list })
Plain(rows) == [i \in DOMAIN rows |-> Row(0, rows[i].text, rows[i].on)]

\* What another connection has committed since makes the snapshot stale: SQLite
\* refuses the first insertion, and nothing is imported.
ImportWrites ==
  /\ command.pc = "import" /\ MayWrite
  /\ \E done \in BOOLEAN :
       LET new == [l \in Lists |-> News(command.read[l], Plain(RowsFor(command.rows, l)))]
       IN  IF done /\ ~command.stale
           THEN base' = [base EXCEPT !.dictionary = Numbered(new["dictionary"], ids),
                                     !.rules = Numbered(new["rules"], ids + Len(new["dictionary"]))]
           ELSE UNCHANGED base
  /\ ids' = ids + Len(command.rows) + Len(base.dictionary) + Len(base.rules)
  /\ command' = NoCommand
  /\ UNCHANGED <<work, adder, running, day, ops, starts, newest, raced, unpruned>>

\* export_dictionary_csv
Exported(list) == [i \in DOMAIN list |-> Cell(list[i].text)]
-----------------------------------------------------------------------------
LibraryNext ==
  \/ Starts \/ Crashes \/ DayPasses \/ ClearsHistory
  \/ \E p \in Policies : \/ \E a \in Adders : HistoryInserts(a, p)
                         \/ \E b \in Backups : BackupBegins(b, p)
  \/ \E a \in Adders : HistoryPrunes(a) \/ HistoryExpires(a)
  \/ BackupWrites \/ BackupFails \/ BackupCommits
  \/ \E l \in Lists : \/ \E t \in Texts, id \in {0} \cup { r.id : r \in ToSet(base[l]) } :
                           CommandChecks(l, Row(id, t, TRUE))
                      \/ \E i \in 1..2 : RowChanges(l, i)
  \/ CommandWrites
  \/ (\E f \in Files : ImportReads(f)) \/ ImportWrites

LibrarySpec == LibraryInit /\ [][LibraryNext]_libraryVars
-----------------------------------------------------------------------------
(* Properties                                                                *)

\* A backup may come from a computer whose clock is ahead.
BackupDays ==
  UNION { { b["history"][i].day : i \in DOMAIN b["history"] } : b \in { c \in Backups : "history" \in DOMAIN c } }

LibraryTypeOK ==
  /\ \A l \in Lists : \A i \in DOMAIN base[l] :
       base[l][i].id \in 1..ids /\ IsText(base[l][i].text) /\ base[l][i].on \in BOOLEAN
  /\ \A i \in DOMAIN base.history :
       base.history[i].id \in 1..ids /\ base.history[i].day \in (0..day) \cup BackupDays
  /\ base.restored \subseteq ToSet(Order) /\ work.pc \in 0..Len(Order) + 1
  /\ command.pc \in {"idle", "write", "import"}

\* No two rows of a list have the same identity.  (A restore that commits
\* between the check of a text and its insertion can make such twins.)
NoTwins ==
  ~raced => \A l \in Lists : \A i, j \in DOMAIN base[l] :
              Identified(base[l][i].text) = Identified(base[l][j].text) => i = j

\* A backup replaces all the sections that it has, or none of them.
RestoredTogether == base.restored = {} \/ \E b \in Backups : base.restored = DOMAIN b

\* The history keeps the dictation that was saved last, and no more entries than
\* the settings allow once those that save have pruned it.  The code accepts one
\* exception: a pruning that fails, or that a stop of the program cuts off, leaves
\* one entry more each time, until a later one succeeds.
HistoryKeeps ==
  /\ newest # 0 => base.history # <<>> /\ Last(base.history).id = newest
  /\ (\A a \in Adders : adder[a].pc # "prune")
       => \E p \in Policies : Len(base.history) <= p.max + unpruned
  /\ running => \A i \in DOMAIN base.history : base.history[i].app = "none"

\* A dictionary that was exported and is imported again brings nothing new.
\* (A text that begins with a quote before a formula character loses the quote.)
ExportReadsBack ==
  LET d    == base.dictionary
      back == [i \in DOMAIN d |-> Row(0, FromCell(Exported(d)[i]), TRUE)]
  IN  (\A i \in DOMAIN d : d[i].text # "'=foo") => News(d, back) = d

\* What the program keeps for the user stays whole: each of these, whatever
\* overlaps, fails or is cut off in between.
LibraryIsWhole == NoTwins /\ RestoredTogether /\ HistoryKeeps /\ ExportReadsBack
=============================================================================
