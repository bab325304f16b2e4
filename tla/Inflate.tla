------------------------------ MODULE Inflate -------------------------------
(***************************************************************************)
(* crypto::utils::gzip_inflate and copy_data (utils.cpp): an archive in    *)
(* memory is read with libarchive, entry by entry and block by block, into *)
(* a buffer_struct.  What is read is the buffer that get_file returned     *)
(* (module Download); whoever calls both is outside this repository.       *)
(*                                                                         *)
(* libarchive is external.  It answers with ARCHIVE_OK, ARCHIVE_EOF or a   *)
(* code below ARCHIVE_OK: ARCHIVE_WARN, after which reading may go on, or  *)
(* ARCHIVE_FATAL, after which every answer is ARCHIVE_FATAL.  Blocks come  *)
(* in order and without gaps.  Of a part of an archive it may take any     *)
(* header for the last one.                                                *)
(***************************************************************************)
EXTENDS Download

CONSTANT Archives   \* the archives there are: sequences of entries, each of blocks

ASSUME ArchivesAssumption == Archives \subseteq Seq(Seq(Seq(Char)))

VARIABLES
    at,                 \* where gzip_inflate is; "off" before it is called
    entries,            \* what libarchive has not yet read: the entry it is in first
    fatal,              \* libarchive has answered ARCHIVE_FATAL
    troubled,           \* it has answered below ARCHIVE_OK
    uncompressedBytes,
    delivered,          \* the characters of all blocks it has handed over
    whole,              \* the characters of the archive
    freed               \* what gzip_inflate returned

archiveVars == <<entries, fatal, troubled, delivered, whole>>
inflateVars == <<vars, at, archiveVars, uncompressedBytes, freed>>

\* All blocks of a sequence of entries, one after the other.
Flat(seqs) ==
    LET From[k \in 0 .. Len(seqs)] == IF k = 0 THEN <<>> ELSE From[k - 1] \o seqs[k]
    IN  From[Len(seqs)]

InflateInit ==
    /\ Init
    /\ at = "off"
    /\ entries = <<<<>>>>
    /\ whole = <<>>
    /\ fatal = FALSE
    /\ troubled = FALSE
    /\ uncompressedBytes = Empty
    /\ delivered = <<>>
    /\ freed = FALSE

\* get_file has returned what there is of some archive.
StartInflate ==
    /\ pc = "returned" /\ at = "off"
    /\ at' = "header"
    /\ \E a \in Archives : entries' = <<<<>>>> \o a /\ whole' = Flat(Flat(a))
    /\ UNCHANGED <<vars, fatal, troubled, uncompressedBytes, delivered, freed>>

-----------------------------------------------------------------------------
\* An answer below ARCHIVE_OK, at from, after which gzip_inflate is at to.
Trouble(from, to) ==
    /\ at = from /\ at' = to
    /\ troubled' = TRUE
    /\ fatal' \in {fatal, TRUE}
    /\ UNCHANGED <<vars, entries, uncompressedBytes, delivered, whole, freed>>

\* archive_read_next_header skips what is left of the entry.
NextHeader ==
    /\ at = "header" /\ ~fatal /\ Len(entries) > 1
    /\ entries' = Tail(entries)
    /\ at' = "data"
    /\ UNCHANGED <<vars, fatal, troubled, delivered, whole, uncompressedBytes, freed>>

NoMoreHeaders ==
    /\ at = "header" /\ ~fatal /\ (Len(entries) = 1 \/ remaining # <<>>)
    /\ at' = "free"
    /\ UNCHANGED <<vars, archiveVars, uncompressedBytes, freed>>

HeaderTrouble == Trouble("header", "free")

\* Where copy_data is after a block.
AfterBlock == "data"

\* archive_read_data_block and append
DataBlock ==
    /\ at = "data" /\ ~fatal /\ Head(entries) # <<>>
    /\ LET block == Head(Head(entries)) IN
        /\ uncompressedBytes' = append(uncompressedBytes, block)
        /\ delivered' = delivered \o block
    /\ entries' = [entries EXCEPT ![1] = Tail(@)]
    /\ at' = AfterBlock
    /\ UNCHANGED <<vars, fatal, troubled, whole, freed>>

\* Mutant: the end of an entry ends the reading.
EndOfAll == "free"

\* Where gzip_inflate is after copy_data, whatever it returned.
AfterEntry == "header"

EndOfEntry ==
    /\ at = "data" /\ ~fatal /\ Head(entries) = <<>>
    /\ at' = AfterEntry
    /\ UNCHANGED <<vars, archiveVars, uncompressedBytes, freed>>

\* copy_data returns the code, which the next header's overwrites.
AfterTrouble == AfterEntry

DataTrouble == Trouble("data", AfterTrouble)

\* archive_read_free alone decides what it returns.
Free ==
    /\ at = "free"
    /\ at' = "returned"
    /\ freed' \in BOOLEAN
    /\ UNCHANGED <<vars, archiveVars, uncompressedBytes>>

copy_data == DataBlock \/ EndOfEntry \/ DataTrouble
gzip_inflate ==
    StartInflate \/ NextHeader \/ NoMoreHeaders \/ HeaderTrouble \/ copy_data \/ Free

\* get_file, before it has returned
get_file == write_to_memory \/ TransferFails \/ perform \/ multi_loop \/ Return

DownloadStep == get_file /\ UNCHANGED <<at, archiveVars, uncompressedBytes, freed>>

Over == at = "returned" /\ UNCHANGED inflateVars

InflateNext == DownloadStep \/ gzip_inflate \/ Over

InflateSpec == InflateInit /\ [][InflateNext]_inflateVars

\* The thread runs on.
InflateFairness == Fairness /\ WF_inflateVars(gzip_inflate)

FairInflateSpec == InflateSpec /\ InflateFairness

-----------------------------------------------------------------------------
(* Properties.                                                             *)

InflateTypeOK ==
    /\ TypeOK
    /\ at \in {"off", "header", "data", "free", "returned"}
    /\ entries \in Seq(Seq(Seq(Char))) /\ entries # <<>>
    /\ {fatal, troubled, freed} \subseteq BOOLEAN
    /\ IsBuffer(uncompressedBytes)
    /\ delivered \in Seq(Char)

\* The buffer holds what libarchive handed over, entry after entry, in order.
HoldsDelivered == Contents(uncompressedBytes) = delivered

\* Neither buffer ever loses, repeats or makes up a character, over all growths of
\* its array and the copy on return.
BuffersRight == InflateTypeOK /\ ResultIsReceived /\ HoldsDelivered

\* Data are missing in the end only if the transfer failed or libarchive reported
\* trouble, not because a loop ended early; no result of a call says so.
NothingMissing ==
    /\ NoEarlyReturn
    /\ at = "returned" => failed \/ troubled \/ Contents(uncompressedBytes) = whole

\* Both calls end, whatever fails and however damaged the archive is, unless the
\* server neither sends the rest of the file nor ends the connection: get_file has
\* no time limit and its caller then waits for ever.  As long as it does, libcurl
\* is called again and again, so that an end of the transfer would be noticed.
InflateEnds == <>(at = "returned") \/ (<>[]InTransfer /\ []<>(pc = "perform"))
=============================================================================
