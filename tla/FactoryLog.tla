----------------------------- MODULE FactoryLog -----------------------------
(***************************************************************************)
(* The page with the factory test's results.  At every start, before the   *)
(* web server accepts anybody, platform_init_fs writes the file            *)
(* factest_results.html on the SD card from the log in the QSPI flash      *)
(* (qspi_retrieve_logfile).  Flash and card may fail, the power may go at  *)
(* any moment, and another log may be in the flash at the next start.  One *)
(* read of the flash is one step here, as Qspi shows that it may be.  What *)
(* qspi_setup returns is not looked at: a read that it did not prepare     *)
(* gives anything.  FlashStart says when that is.                          *)
(***************************************************************************)
EXTENDS Integers

CONSTANTS
  Log,                  \* what the flash may hold after the size word
  SizeWord,             \* what the size word may be
  MAX_LOGFILE_SIZE

\* What else a file may hold: FACTEST_NOT_FOUND_STR, or less than it should.
Sentence == "sentence"
Nothing  == "nothing"
Part     == "part"

ASSUME LogAssumption == Log \cap {Sentence, Nothing, Part} = {}
ASSUME SizeAssumption == MAX_LOGFILE_SIZE \in Nat /\ SizeWord \subseteq Nat

Content == Log \union {Sentence, Nothing, Part}

VARIABLES
  pc,                   \* where main_thread is
  log, size,            \* the flash
  logfile_size,
  LogfileBuffer,
  cached,               \* what f_write has taken and f_close will store
  file,                 \* factest_results.html
  \* History variables, read by no guard, of what happened since the start:
  retrieved,            \* the log has been read
  failed,               \* a read has returned an error
  misread               \* a read gave something else than what is in the flash

flash == <<log, size>>
history == <<retrieved, failed, misread>>
vars  == <<pc, flash, logfile_size, LogfileBuffer, cached, file, history>>

\* A log that is being read fits into its buffer.
TypeOK ==
  /\ pc \in {"setup", "mount", "create", "size", "log", "sentence", "write", "close",
             "abandon", "list", "serve", "return"}
  /\ log \in Log /\ size \in SizeWord
  /\ logfile_size \in SizeWord \union {0}
  /\ pc = "log" => logfile_size \in 1 .. MAX_LOGFILE_SIZE
  /\ LogfileBuffer \in Content
  /\ cached \in Content
  /\ file \in Content
  /\ retrieved \in BOOLEAN /\ failed \in BOOLEAN /\ misread \in BOOLEAN

Init ==
  /\ pc = "setup"
  /\ log \in Log /\ size \in SizeWord
  /\ logfile_size = 0
  /\ LogfileBuffer = Nothing
  /\ cached = Nothing
  /\ file \in Content
  /\ retrieved = FALSE /\ failed = FALSE /\ misread = FALSE

-----------------------------------------------------------------------------
(* platform_init_fs and create_factest_logfile.                            *)

\* main_thread goes from one step to the next, or to its error path.
Goto(here, next) == pc = here /\ pc' = next

\* qspi_setup has returned.
SetUp ==
  /\ Goto("setup", "mount")
  /\ UNCHANGED <<flash, logfile_size, LogfileBuffer, cached, file, history>>

Mount ==
  /\ Goto("mount", "create") \/ Goto("mount", "return")
  /\ UNCHANGED <<flash, logfile_size, LogfileBuffer, cached, file, history>>

\* Fault: an existing file keeps its contents (FA_OPEN_ALWAYS).
OpenedAlways == file

\* FA_CREATE_ALWAYS empties the file.
Created == Nothing

Create ==
  /\ \/ Goto("create", "size") /\ file' = Created
     \/ Goto("create", "return") /\ UNCHANGED file
  /\ UNCHANGED <<flash, logfile_size, LogfileBuffer, cached, history>>

\* Fault: a log longer than the buffer is read.
AnySize(n) == n # 0

ValidSize(n) == n # 0 /\ n <= MAX_LOGFILE_SIZE

\* A read gives what is in the flash, or, after a set-up that went wrong, any
\* of the values.
Gives(value, got, values) ==
  \/ got = value /\ UNCHANGED misread
  \/ got \in values /\ misread' = TRUE

\* The size word is read, and is the size of a log, or not.
ReadSize ==
  /\ \/ /\ \E n \in SizeWord : logfile_size' = n /\ Gives(size, n, SizeWord)
        /\ IF ValidSize(logfile_size') THEN Goto("size", "log")
                                       ELSE Goto("size", "sentence")
        /\ UNCHANGED failed
     \/ /\ Goto("size", "sentence")
        /\ failed' = TRUE
        /\ UNCHANGED <<logfile_size, misread>>
  /\ UNCHANGED <<flash, LogfileBuffer, cached, file, retrieved>>

ReadLog ==
  /\ \/ /\ Goto("log", "write")
        /\ \E l \in Log : LogfileBuffer' = l /\ Gives(log, l, Log)
        /\ retrieved' = TRUE
        /\ UNCHANGED failed
     \/ /\ Goto("log", "sentence")
        /\ LogfileBuffer' \in {LogfileBuffer, Part}
        /\ failed' = TRUE
        /\ UNCHANGED <<retrieved, misread>>
  /\ UNCHANGED <<flash, logfile_size, cached, file>>

PutSentence ==
  /\ Goto("sentence", "write")
  /\ LogfileBuffer' = Sentence
  /\ UNCHANGED <<flash, logfile_size, cached, file, history>>

\* A card that is full takes a part, which is no error, and the number of
\* bytes it took is not asked for.
Write ==
  /\ \/ Goto("write", "close") /\ cached' \in {LogfileBuffer, Part}
     \/ Goto("write", "abandon") /\ cached' \in {Part, Nothing}
  /\ UNCHANGED <<flash, logfile_size, LogfileBuffer, file, history>>

\* Whether f_close could store the file is not looked at.
Close ==
  /\ Goto("close", "list") \/ Goto("abandon", "return")
  /\ file' \in {cached, file}
  /\ UNCHANGED <<flash, logfile_size, LogfileBuffer, cached, history>>

\* fat_ls; a missing index.html is reported, no more.
List ==
  /\ Goto("list", "serve") \/ Goto("list", "return")
  /\ UNCHANGED <<flash, logfile_size, LogfileBuffer, cached, file, history>>

InitFs ==
  \/ Mount \/ Create \/ ReadSize \/ ReadLog \/ PutSentence
  \/ Write \/ Close \/ List

-----------------------------------------------------------------------------
(* The power.                                                              *)

FileOpen == pc \in {"size", "log", "sentence", "write", "close", "abandon"}

\* Power off and on: memory is cleared, and a file that was open may hold
\* anything.
PowerCycle ==
  /\ pc' = "setup"
  /\ logfile_size' = 0
  /\ LogfileBuffer' = Nothing
  /\ cached' = Nothing
  /\ file' \in (IF FileOpen THEN Content ELSE {file})
  /\ retrieved' = FALSE /\ failed' = FALSE /\ misread' = FALSE
  /\ UNCHANGED flash

\* Before a start somebody has programmed the flash.
Programmed ==
  /\ pc = "setup"
  /\ log' \in Log /\ size' \in SizeWord
  /\ UNCHANGED <<pc, logfile_size, LogfileBuffer, cached, file, history>>

Next == SetUp \/ InitFs \/ PowerCycle \/ Programmed

Spec == Init /\ [][Next]_vars

-----------------------------------------------------------------------------
(* Properties                                                              *)

\* What the whole page may be: the log, once it has been read; the sentence,
\* when no log is in the flash or a read of it has returned an error.
Found ==
  IF retrieved THEN {log}
  ELSE {s \in {Sentence} : failed \/ size \notin 1 .. MAX_LOGFILE_SIZE}

\* The page is never an earlier log, whatever failed at this start or an
\* earlier one, and says that there is none only when there is none or a read
\* of the flash failed at this start, unless the flash was read without having
\* been set up.  It may be cut off, or empty: a full card and a failing f_close
\* go unnoticed.
FreshLog == pc = "serve" /\ ~misread => file \in Found \union {Part, Nothing}
=============================================================================
