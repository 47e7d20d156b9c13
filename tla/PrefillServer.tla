--------------------------- MODULE PrefillServer ---------------------------
(***************************************************************************)
(* A server process with its hooks: it boots as ServingHooks has it, and   *)
(* what it then serves is prefilled under the sizer it has built, with the *)
(* sliced indexer where the backend was patched and upstream's otherwise.  *)
(***************************************************************************)
EXTENDS ServingHooks, SlicedTopK

ServerInit == ProcessInit /\ ChunkInit /\ RowInit

(* Upstream's own indexer.                                                 *)
IndexUpstream ==
    /\ phase = "chunk" /\ "slices" \notin patched
    /\ phase' = "done"
    /\ UNCHANGED <<hooks, chunk, seen, score, kstart, acc, blocks, mask>>

IndexSliced == "slices" \in patched /\ (NoKeys \/ Rank \/ Slice \/ Publish \/ Attend)

Serve ==
    /\ step = "serving"
    /\ \/ SubmitPrompt \/ StartChunk \/ IndexUpstream \/ IndexSliced \/ FinishChunk
    /\ UNCHANGED process

ServerNext ==
    \/ Boot /\ UNCHANGED <<chunk, indexer>>
    \/ Serve

ServerSpec == ServerInit /\ [][ServerNext]_<<process, prefill>>

(* The state is well-formed, and a process that serves has its hooks.      *)
ServerInv == ProcessTypeOK /\ TypeOK /\ ServesPatched

=============================================================================
