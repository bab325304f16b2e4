------------------------------ MODULE Download ------------------------------
(***************************************************************************)
(* restful::get_file (restful.cpp): a transfer that the multi interface of *)
(* libcurl makes, driven by multi_loop, and the buffer it fills.           *)
(*                                                                         *)
(* libcurl and select are external.  curl_multi_perform hands any number   *)
(* of the pieces of the file to write_to_memory, says whether the transfer *)
(* is still running, or fails; a transfer may fail at any piece.  select   *)
(* may fail.  get_file looks at none of the errors.                        *)
(***************************************************************************)
EXTENDS Buffer

CONSTANTS
    Files,          \* the files there are, each a sequence of pieces
    CurlTimeouts    \* what curl_multi_timeout may say, in milliseconds; -1: none

ASSUME FilesAssumption == Files \subseteq Seq(Seq(Char))
ASSUME TimeoutsAssumption == CurlTimeouts \subseteq Nat \cup {-1}

VARIABLES
    pc,             \* where get_file is
    bufferPtr,      \* the buffer that is filled
    still_running,
    timeout,        \* the latest one, and what curl had said
    remaining,      \* the pieces that are still to come
    received,       \* the characters curl has handed over
    failed,         \* the transfer has failed, or the first perform has
    result          \* what get_file returned

loopVars == <<pc, still_running, timeout>>
dataVars == <<bufferPtr, remaining, received, failed, result>>
vars == <<loopVars, dataVars>>

Init ==
    /\ pc = "perform"
    /\ bufferPtr = Empty
    /\ still_running = 0
    /\ timeout = [tv_sec |-> 1, tv_usec |-> 0, asked |-> -1]
    /\ remaining \in Files
    /\ received = <<>>
    /\ failed = FALSE
    /\ result = Empty

-----------------------------------------------------------------------------
(* curl_multi_perform                                                      *)

write_to_memory ==
    /\ pc = "perform" /\ remaining # <<>> /\ ~failed
    /\ bufferPtr' = append(bufferPtr, Head(remaining))
    /\ received' = received \o Head(remaining)
    /\ remaining' = Tail(remaining)
    /\ UNCHANGED <<loopVars, failed, result>>

TransferFails ==
    /\ pc = "perform" /\ ~failed
    /\ failed' = TRUE
    /\ UNCHANGED <<loopVars, bufferPtr, remaining, received, result>>

PerformReturns ==
    /\ pc = "perform"
    /\ pc' = "test"
    /\ still_running' = IF failed \/ remaining = <<>> THEN 0 ELSE 1
    /\ UNCHANGED <<timeout, dataVars>>

\* An error of the multi interface leaves still_running as it is: 0 the first
\* time, which ends the loop.
PerformFails ==
    /\ pc = "perform"
    /\ pc' = "test"
    /\ failed' = (failed \/ still_running = 0)
    /\ UNCHANGED <<still_running, timeout, bufferPtr, remaining, received, result>>

-----------------------------------------------------------------------------
(* multi_loop                                                              *)

\* get_timeout: curl's own, cut to one second when that has two or more.
get_timeout(ms) ==
    IF ms < 0 \/ ms \div 1000 > 1
    THEN [tv_sec |-> 1, tv_usec |-> 0]
    ELSE [tv_sec |-> ms \div 1000, tv_usec |-> (ms % 1000) * 1000]

LoopTest ==
    /\ pc = "test" /\ still_running # 0
    /\ pc' = "wait"
    /\ \E ms \in CurlTimeouts :
          timeout' = [tv_sec |-> get_timeout(ms).tv_sec,
                      tv_usec |-> get_timeout(ms).tv_usec, asked |-> ms]
    /\ UNCHANGED <<still_running, dataVars>>

\* Mutant: a timeout of select is taken for its error.
AfterTimeoutNothing == "test"

\* Where multi_loop is after a timeout.
AfterTimeout == "perform"

\* wait_if_needed: sockets are ready, select has timed out, or there are no
\* sockets and 100 milliseconds have passed.
WaitEnds ==
    /\ pc = "wait"
    /\ pc' \in {"perform", AfterTimeout}
    /\ UNCHANGED <<still_running, timeout, dataVars>>

\* Where multi_loop is after an error of select.
AfterSelectError == "test"

SelectFails ==
    /\ pc = "wait"
    /\ pc' = AfterSelectError
    /\ UNCHANGED <<still_running, timeout, dataVars>>

LoopEnds ==
    /\ pc = "test" /\ still_running = 0
    /\ pc' = "return"
    /\ UNCHANGED <<still_running, timeout, dataVars>>

\* return bufferPtr: the compiler may copy the buffer or return it itself.
Return ==
    /\ pc = "return"
    /\ pc' = "returned"
    /\ result' \in {bufferPtr, Copied(bufferPtr)}
    /\ UNCHANGED <<still_running, timeout, bufferPtr, remaining, received, failed>>

Returned == pc = "returned" /\ UNCHANGED vars

-----------------------------------------------------------------------------
perform == PerformReturns \/ PerformFails
multi_loop == LoopTest \/ WaitEnds \/ SelectFails \/ LoopEnds
Next == write_to_memory \/ TransferFails \/ perform \/ multi_loop \/ Return \/ Returned

Spec == Init /\ [][Next]_vars

\* The thread runs on, and neither select nor curl_multi_perform fails for ever.
\* Nothing is assumed of the server: get_file sets no limit on the time or the
\* speed of a transfer, so one that has stalled keeps running.
Fairness ==
    /\ WF_vars(perform \/ multi_loop \/ Return)
    /\ SF_vars(WaitEnds) /\ SF_vars(PerformReturns)

-----------------------------------------------------------------------------
(* Properties.                                                             *)

TypeOK ==
    /\ pc \in {"perform", "test", "wait", "return", "returned"}
    /\ IsBuffer(bufferPtr) /\ IsBuffer(result)
    /\ still_running \in {0, 1}
    /\ timeout \in [tv_sec : Nat, tv_usec : Nat, asked : Nat \cup {-1}]
    /\ remaining \in Seq(Seq(Char))
    /\ received \in Seq(Char)
    /\ failed \in BOOLEAN

\* The caller gets every character that curl handed over and no other, in order,
\* over all growths of the array and the copy on return.
ResultIsReceived == pc = "returned" => Contents(result) = received

\* get_file returns a part of the file only if the transfer or the first
\* curl_multi_perform failed: no timeout, error of select or later error of
\* curl_multi_perform ends the loop.
NoEarlyReturn == pc \in {"return", "returned"} => remaining = <<>> \/ failed

Milliseconds(t) == t.tv_sec * 1000 + (t.tv_usec \div 1000)

\* The timeout that select gets is a proper timeval, shorter than two seconds
\* and never later than curl asked to be called.
TimeoutInTime ==
    /\ timeout.tv_usec \div 1000 \in 0 .. 999
    /\ Milliseconds(timeout) < 2000
    /\ timeout.asked >= 0 => Milliseconds(timeout) <= timeout.asked

\* The server owes a part of the file and has not ended the connection.
InTransfer == remaining # <<>> /\ ~failed
=============================================================================
