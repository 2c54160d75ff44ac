---------------------------- MODULE WorkerBatch ----------------------------
(***************************************************************************)
(* The worker's persistent batch and its block table: what execute_model   *)
(* does with each SchedulerOutput before the forward pass, and the device  *)
(* stream on which the host-to-device copy of the table, the padding fill  *)
(* and the forward pass run in order but later than the host.              *)
(*                                                                         *)
(* BlockTable keeps a host copy and a device copy and skips the transfer   *)
(* while _block_table_dirty is false.  The transfer is a non-blocking copy *)
(* from pinned memory, so it reads the host rows when the device gets to   *)
(* it, not when it is enqueued.                                            *)
(*                                                                         *)
(* The scheduler is the environment: it hands over well-formed outputs,    *)
(* one at a time and in order.  The other per-row arrays of InputBatch     *)
(* (token ids, sampling parameters) move with the rows and are left out.   *)
(***************************************************************************)
EXTENDS Integers, Sequences, FiniteSets

CONSTANTS
    Requests,         \* request ids
    BlockIds,         \* KV cache blocks the scheduler hands out
    MaxNumReqs,       \* rows of the batch (max_num_seqs)
    MaxBlocksPerReq,  \* columns, in KV manager blocks
    MaxFirstBlocks,   \* bound: blocks a request is (re)admitted with
    BlocksPerKvBlock, \* kernel blocks in a KV manager block
    Preemptible,      \* bound: requests the scheduler may preempt
    AsyncScheduling,  \* prepare_inputs_event exists only under it
    Regions,          \* batch regions: 0 decode, 1 extend, 2 prefill
    None

ASSUME WorkerAssumption ==
    /\ MaxNumReqs \in Nat \ {0}
    /\ MaxBlocksPerReq \in Nat \ {0}
    /\ MaxFirstBlocks \in 1..MaxBlocksPerReq
    /\ BlocksPerKvBlock \in Nat \ {0}
    /\ Preemptible \subseteq Requests
    /\ AsyncScheduling \in BOOLEAN
    /\ Regions \subseteq 0..2
    /\ None \notin Requests \cup BlockIds

VARIABLES
    sched,           \* external: the scheduler's state and blocks of a request
    out,             \* the SchedulerOutput being put together or executed
    phase,           \* where execute_model is
    requests,        \* self.requests: block_ids of the cached states
    req_ids,         \* InputBatch._req_ids, None for an empty row
    req_id_to_index, \* InputBatch.req_id_to_index, None for no entry
    removed,         \* batch_update_builder.removed, as a set
    to_update,       \* scheduled_cached_reqs still to be looked at
    to_add,          \* reqs_to_add
    last_req_index,  \* local of condense()
    reorder,         \* locals of reorder_batch_to_split_decodes_and_prefills
    table,           \* BlockTable: host rows np, num_blocks_per_row num, dirty
    gpu,             \* BlockTable.block_table.gpu
    stream           \* work enqueued on the device stream

batchVars == <<req_ids, req_id_to_index, removed>>
vars == <<sched, out, phase, requests, batchVars, to_update, to_add,
          last_req_index, reorder, table, gpu, stream>>

Rows == 0..(MaxNumReqs - 1)
Cols == 0..(MaxBlocksPerReq * BlocksPerKvBlock - 1)
\* Kernel block k of KV block b; the code's number is b * BlocksPerKvBlock + k.
Entries == (BlockIds \X (0..(BlocksPerKvBlock - 1)))
               \cup {<<None, 0>>, <<None, -1>>}
ZeroEntry == <<None, 0>>
PAD_SLOT_ID == <<None, -1>>

MinOf(S) == CHOOSE x \in S : \A y \in S : x <= y
MaxOf(S) == CHOOSE x \in S : \A y \in S : x >= y
ToSet(s) == {s[i] : i \in DOMAIN s}

---------------------------------------------------------------------------
(* BlockTable *)

map_to_kernel_blocks(ids) ==
    [j \in 1..(Len(ids) * BlocksPerKvBlock) |->
        <<ids[((j - 1) \div BlocksPerKvBlock) + 1], (j - 1) % BlocksPerKvBlock>>]

append_row(t, ids, row) ==
    IF ids = <<>> THEN t
    ELSE LET new == map_to_kernel_blocks(ids)
             start == t.num[row]
         IN  [np |-> [t.np EXCEPT ![row] =
                        [c \in Cols |-> IF c \in start..(start + Len(new) - 1)
                                        THEN new[c - start + 1] ELSE @[c]]],
              num |-> [t.num EXCEPT ![row] = start + Len(new)],
              dirty |-> TRUE]

\* Variant: the row keeps the length of its previous request.
AddRowNoReset(t, ids, row) == append_row([t EXCEPT !.dirty = TRUE], ids, row)

add_row(t, ids, row) ==
    append_row([t EXCEPT !.num[row] = 0, !.dirty = TRUE], ids, row)

move_row(t, src, tgt) ==
    [np |-> [t.np EXCEPT ![tgt] =
                [c \in Cols |-> IF c < t.num[src] THEN t.np[src][c] ELSE @[c]]],
     num |-> [t.num EXCEPT ![tgt] = t.num[src]],
     dirty |-> TRUE]

\* Variant: the second assignment reads the row that the first overwrote.
SwapRowAliased(t, src, tgt) ==
    [np |-> [t.np EXCEPT ![src] = t.np[tgt]],
     num |-> [t.num EXCEPT ![src] = t.num[tgt], ![tgt] = t.num[src]],
     dirty |-> TRUE]

swap_row(t, src, tgt) ==
    [np |-> [t.np EXCEPT ![src] = t.np[tgt], ![tgt] = t.np[src]],
     num |-> [t.num EXCEPT ![src] = t.num[tgt], ![tgt] = t.num[src]],
     dirty |-> TRUE]

\* The copy that commit_block_table enqueues, if it enqueues one.
commit_block_table(t, num_reqs) ==
    IF t.dirty THEN <<[op |-> "copy", n |-> num_reqs]>> ELSE <<>>

---------------------------------------------------------------------------
Batch == {r \in Requests : req_id_to_index[r] # None}
num_reqs == Cardinality(Batch)
Scheduled == ToSet(out.new) \cup ToSet(out.cached)

NoOutput == [finished |-> {}, new |-> <<>>, cached |-> <<>>, resumed |-> {},
             new_block_ids |-> [r \in Requests |-> <<>>],
             region |-> [r \in Requests |-> 0]]
NoReorder == [todo |-> <<>>, dst |-> None, map |-> <<>>]

Init ==
    /\ sched = [r \in Requests |-> [state |-> "none", blocks |-> <<>>]]
    /\ out = NoOutput
    /\ phase = "schedule"
    /\ requests = [r \in Requests |-> None]
    /\ req_ids = [i \in Rows |-> None]
    /\ req_id_to_index = [r \in Requests |-> None]
    /\ removed = {}
    /\ to_update = <<>>
    /\ to_add = <<>>
    /\ last_req_index = -1
    /\ reorder = NoReorder
    /\ table = [np |-> [i \in Rows |-> [c \in Cols |-> ZeroEntry]],
                num |-> [i \in Rows |-> 0], dirty |-> FALSE]
    /\ gpu = [i \in Rows |-> [c \in Cols |-> ZeroEntry]]
    /\ stream = <<>>

---------------------------------------------------------------------------
(* External: what a SchedulerOutput may say.  A request preempted and      *)
(* resumed in one output is the forced preemption of reset_prefix_cache;   *)
(* one finished and new in one output was aborted and resubmitted.         *)

workerVars == <<requests, batchVars, to_update, to_add, last_req_index,
                reorder, table>>

\* Requests with a common prefix share blocks; within a table they differ.
NewBlockIds(lens) ==
    {s \in UNION {[1..n -> BlockIds] : n \in lens} :
        \A i, j \in DOMAIN s : i # j => s[i] # s[j]}
Live == {r \in Requests : sched[r].state = "live"}

SchedFinish(r) ==
    /\ sched[r].state # "none" /\ r \notin Scheduled
    /\ out' = [out EXCEPT !.finished = @ \cup {r}]
    /\ sched' = [sched EXCEPT ![r] = [state |-> "none", blocks |-> <<>>]]

SchedPreempt(r) ==
    /\ r \in (Live \cap Preemptible) \ Scheduled
    /\ sched' = [sched EXCEPT ![r] = [state |-> "preempted", blocks |-> <<>>]]
    /\ UNCHANGED out

SchedRunning(r) ==
    /\ r \in Live \ Scheduled
    /\ out.new = <<>> /\ out.resumed = {}
    /\ \E ids \in NewBlockIds({0, 1}) :
        /\ Len(sched[r].blocks) + Len(ids) <= MaxBlocksPerReq
        /\ ToSet(ids) \cap ToSet(sched[r].blocks) = {}
        /\ out' = [out EXCEPT !.cached = Append(@, r), !.new_block_ids[r] = ids]
        /\ sched' = [sched EXCEPT ![r].blocks = @ \o ids]

SchedWaiting(r) ==
    /\ r \notin Live /\ Cardinality(Live) < MaxNumReqs
    /\ \E ids \in NewBlockIds(1..MaxFirstBlocks) :
        /\ sched' = [sched EXCEPT ![r] = [state |-> "live", blocks |-> ids]]
        /\ \/ /\ sched[r].state = "none"
              /\ out' = [out EXCEPT !.new = Append(@, r),
                                    !.new_block_ids[r] = ids]
           \/ /\ sched[r].state = "preempted"
              /\ out' = [out EXCEPT !.cached = Append(@, r),
                                    !.resumed = @ \cup {r},
                                    !.new_block_ids[r] = ids]

\* Without async scheduling EngineCore.step waits for the model's output.
Schedule ==
    /\ phase = "schedule"
    /\ AsyncScheduling \/ stream = <<>>
    /\ \E r \in Requests : \/ SchedFinish(r) \/ SchedPreempt(r)
                           \/ SchedRunning(r) \/ SchedWaiting(r)
    /\ UNCHANGED <<phase, workerVars, gpu, stream>>

---------------------------------------------------------------------------
(* execute_model: synchronize_input_prep, then _update_states *)

\* Variant: no wait for the previous step's copies.
InputPrepNoWait == TRUE

\* Without async scheduling the previous step has read its sampled tokens
\* back (_to_list), so everything before them on the stream has run.
InputPrepReady ==
    IF AsyncScheduling
    THEN \A i \in DOMAIN stream : stream[i].op # "event"
    ELSE stream = <<>>

\* Variant: a request preempted and resumed in one output keeps its row.
UnscheduledIgnoresResumed == Batch \ Scheduled

Unscheduled == Batch \ (Scheduled \ out.resumed)

RemoveRequests ==
    /\ phase = "schedule"
    /\ InputPrepReady
    /\ \E region \in [Requests -> Regions] :
        /\ \A r \in Requests \ Scheduled : region[r] = MinOf(Regions)
        /\ out' = [out EXCEPT !.region = region]
    /\ LET gone == Batch \cap (out.finished \cup Unscheduled) IN
        /\ req_id_to_index' = [r \in Requests |->
                IF r \in gone THEN None ELSE req_id_to_index[r]]
        /\ req_ids' = [i \in Rows |->
                IF req_ids[i] \in gone THEN None ELSE req_ids[i]]
        /\ removed' = {req_id_to_index[r] : r \in gone}
    /\ requests' = [r \in Requests |->
            IF r \in ToSet(out.new) THEN out.new_block_ids[r]
            ELSE IF r \in out.finished THEN None ELSE requests[r]]
    /\ to_update' = out.cached
    /\ to_add' = out.new
    /\ phase' = "cached"
    /\ UNCHANGED <<sched, last_req_index, reorder, table, gpu, stream>>

\* One turn of the loop over scheduled_cached_reqs.
UpdateCached ==
    /\ phase = "cached" /\ to_update # <<>>
    /\ LET r == Head(to_update)
           ids == out.new_block_ids[r]
       IN  /\ requests' = [requests EXCEPT ![r] =
                    IF r \in out.resumed THEN ids ELSE @ \o ids]
           /\ IF req_id_to_index[r] = None
              THEN to_add' = Append(to_add, r) /\ UNCHANGED table
              ELSE /\ table' = append_row(table, ids, req_id_to_index[r])
                   /\ UNCHANGED to_add
    /\ to_update' = Tail(to_update)
    /\ UNCHANGED <<sched, out, phase, batchVars, last_req_index, reorder, gpu,
                   stream>>

\* add_request: the smallest removed row, or the row after the last one.
AddRequest ==
    /\ phase = "cached" /\ to_update = <<>> /\ to_add # <<>>
    /\ LET r == Head(to_add)
           row == IF removed # {} THEN MinOf(removed) ELSE num_reqs
       IN  /\ req_ids' = [req_ids EXCEPT ![row] = r]
           /\ req_id_to_index' = [req_id_to_index EXCEPT ![r] = row]
           /\ removed' = removed \ {row}
           /\ table' = add_row(table, requests[r], row)
    /\ to_add' = Tail(to_add)
    /\ UNCHANGED <<sched, out, phase, requests, to_update, last_req_index,
                   reorder, gpu, stream>>

StartCondense ==
    /\ phase = "cached" /\ to_update = <<>> /\ to_add = <<>>
    /\ last_req_index' = num_reqs + Cardinality(removed) - 1
    /\ phase' = "condense"
    /\ UNCHANGED <<sched, out, requests, batchVars, to_update, to_add, reorder,
                   table, gpu, stream>>

\* The inner loop of condense(): down to the largest non-empty row.
LastNonEmpty(last) == MaxOf({-1} \cup {i \in 0..last : i \notin removed})

HasGap ==
    /\ num_reqs > 0 /\ removed # {}
    /\ MinOf(removed) < LastNonEmpty(last_req_index)

CondenseMove ==
    /\ phase = "condense" /\ HasGap
    /\ LET src == LastNonEmpty(last_req_index)
           tgt == MinOf(removed)
       IN  /\ req_ids' = [req_ids EXCEPT ![tgt] = req_ids[src], ![src] = None]
           /\ req_id_to_index' = [req_id_to_index EXCEPT ![req_ids[src]] = tgt]
           /\ removed' = removed \ {tgt}
           /\ table' = move_row(table, src, tgt)
           /\ last_req_index' = src - 1
    /\ UNCHANGED <<sched, out, phase, requests, to_update, to_add, reorder, gpu,
                   stream>>

---------------------------------------------------------------------------
(* reorder_batch_to_split_decodes_and_prefills *)

RegionAt(i) == out.region[req_ids[i]]
NumIn(region) == Cardinality({r \in Batch : out.region[r] = region})
TargetRegion(i) ==
    IF i < NumIn(0) THEN 0 ELSE IF i < NumIn(0) + NumIn(1) THEN 1 ELSE 2
NeedsSwap == {i \in 0..(num_reqs - 1) : RegionAt(i) # TargetRegion(i)}

\* Variant: the rows to swap are not sorted by region.
SrcIndicesUnsorted ==
    [k \in 1..Cardinality(NeedsSwap) |-> CHOOSE i \in NeedsSwap :
        Cardinality({j \in NeedsSwap : j < i}) = k - 1]

\* src_indices: NeedsSwap by region, stable; orig_indices: in row order.
src_indices ==
    [k \in 1..Cardinality(NeedsSwap) |-> CHOOSE i \in NeedsSwap :
        Cardinality({j \in NeedsSwap : \/ RegionAt(j) < RegionAt(i)
                                       \/ RegionAt(j) = RegionAt(i) /\ j < i})
            = k - 1]
orig_indices ==
    [k \in 1..Cardinality(NeedsSwap) |-> CHOOSE i \in NeedsSwap :
        Cardinality({j \in NeedsSwap : j < i}) = k - 1]
src_dest_map ==
    [i \in NeedsSwap |-> orig_indices[CHOOSE k \in DOMAIN src_indices :
                                        src_indices[k] = i]]

StartReorder ==
    /\ phase = "condense" /\ ~HasGap
    /\ reorder' = IF NeedsSwap = {} THEN NoReorder
                  ELSE [todo |-> src_indices, map |-> src_dest_map,
                        dst |-> src_dest_map[Head(src_indices)]]
    /\ phase' = "reorder"
    /\ UNCHANGED <<sched, out, requests, batchVars, to_update, to_add,
                   last_req_index, table, gpu, stream>>

\* Variant: the cycle's next destination is not taken up.
ReorderSwapStuck ==
    /\ phase = "reorder" /\ reorder.todo # <<>>
    /\ LET src == Head(reorder.todo)
           dst == reorder.dst
       IN  /\ src # dst
           /\ req_ids' = [req_ids EXCEPT ![src] = req_ids[dst],
                                         ![dst] = req_ids[src]]
           /\ req_id_to_index' = [req_id_to_index EXCEPT
                                    ![req_ids[src]] = dst, ![req_ids[dst]] = src]
           /\ table' = swap_row(table, src, dst)
           /\ reorder' = [reorder EXCEPT !.map[dst] = dst]
    /\ UNCHANGED <<sched, out, phase, requests, removed, to_update, to_add,
                   last_req_index, gpu, stream>>

\* swap_states(src, dst)
ReorderSwap ==
    /\ phase = "reorder" /\ reorder.todo # <<>>
    /\ LET src == Head(reorder.todo)
           dst == reorder.dst
       IN  /\ src # dst
           /\ req_ids' = [req_ids EXCEPT ![src] = req_ids[dst],
                                         ![dst] = req_ids[src]]
           /\ req_id_to_index' = [req_id_to_index EXCEPT
                                    ![req_ids[src]] = dst, ![req_ids[dst]] = src]
           /\ table' = swap_row(table, src, dst)
           /\ reorder' = [reorder EXCEPT !.dst = reorder.map[dst],
                                         !.map[dst] = dst]
    /\ UNCHANGED <<sched, out, phase, requests, removed, to_update, to_add,
                   last_req_index, gpu, stream>>

ReorderNext ==
    /\ phase = "reorder" /\ reorder.todo # <<>>
    /\ Head(reorder.todo) = reorder.dst
    /\ reorder' = IF Len(reorder.todo) = 1 THEN NoReorder
                  ELSE [reorder EXCEPT !.todo = Tail(@),
                                       !.dst = reorder.map[reorder.todo[2]]]
    /\ UNCHANGED <<sched, out, phase, requests, batchVars, to_update, to_add,
                   last_req_index, table, gpu, stream>>

---------------------------------------------------------------------------
(* The end of _update_states, _prepare_inputs, _build_attention_metadata   *)
(* and the forward pass.  The forward entry remembers the blocks that the  *)
(* scheduler gave the request of each row, which is what it should read.   *)

ForwardRows == [i \in 0..(num_reqs - 1) |->
                    map_to_kernel_blocks(sched[req_ids[i]].blocks)]

Launch ==
    /\ phase = "reorder" /\ reorder.todo = <<>>
    /\ removed' = {}
    /\ IF Scheduled = {}
       THEN /\ stream' = Append(stream, [op |-> "event"])
            /\ UNCHANGED table
       ELSE \E num_reqs_padded \in num_reqs..MaxNumReqs :
            /\ stream' = stream \o commit_block_table(table, num_reqs)
                    \o <<[op |-> "fill", from |-> num_reqs, to |-> num_reqs_padded],
                         [op |-> "event"],
                         [op |-> "forward", rows |-> ForwardRows]>>
            /\ table' = [table EXCEPT !.dirty = FALSE]
    /\ out' = NoOutput
    /\ last_req_index' = -1
    /\ phase' = "schedule"
    /\ UNCHANGED <<sched, requests, req_ids, req_id_to_index, to_update, to_add,
                   reorder, gpu>>

\* The device takes the next entry of its stream.
DeviceStep ==
    /\ stream # <<>>
    /\ LET e == Head(stream) IN
        gpu' = CASE e.op = "copy" -> [i \in Rows |->
                        IF i < e.n THEN table.np[i] ELSE gpu[i]]
                 [] e.op = "fill" -> [i \in Rows |->
                        IF i \in e.from..(e.to - 1)
                        THEN [c \in Cols |-> PAD_SLOT_ID] ELSE gpu[i]]
                 [] OTHER -> gpu
    /\ stream' = Tail(stream)
    /\ UNCHANGED <<sched, out, phase, workerVars>>

HostStep ==
    \/ RemoveRequests \/ UpdateCached \/ AddRequest \/ StartCondense
    \/ CondenseMove \/ StartReorder \/ ReorderSwap \/ ReorderNext \/ Launch

Next == Schedule \/ HostStep \/ DeviceStep

Spec == Init /\ [][Next]_vars

---------------------------------------------------------------------------
(* Properties *)

\* Type invariant.
TypeOK ==
    /\ sched \in [Requests -> [state : {"none", "live", "preempted"},
                               blocks : Seq(BlockIds)]]
    /\ phase \in {"schedule", "cached", "condense", "reorder"}
    /\ \A r \in Requests : requests[r] = None \/ requests[r] \in Seq(BlockIds)
    /\ req_ids \in [Rows -> Requests \cup {None}]
    /\ req_id_to_index \in [Requests -> Rows \cup {None}]
    /\ removed \subseteq Rows
    /\ to_update \in Seq(Requests) /\ to_add \in Seq(Requests)
    /\ last_req_index \in -1..(MaxNumReqs - 1)
    /\ table \in [np : [Rows -> [Cols -> Entries]],
                  num : [Rows -> 0..(MaxBlocksPerReq * BlocksPerKvBlock)],
                  dirty : BOOLEAN]
    /\ gpu \in [Rows -> [Cols -> Entries]]

\* When _prepare_inputs reads the batch, its rows are exactly the scheduled
\* requests, without a gap, the two indexes agree, and every host row lists
\* the blocks that the scheduler holds for its request: whatever sequence of
\* removals, additions, condense() moves and swaps led there, and however
\* often the request was preempted, resumed, left out or resubmitted.
RowsHoldTheirRequests ==
    phase = "reorder" /\ reorder.todo = <<>> =>
        /\ Batch = Scheduled
        /\ \A i \in 0..(num_reqs - 1) :
            /\ req_ids[i] \in Requests /\ req_id_to_index[req_ids[i]] = i
            /\ table.num[i] = Len(ForwardRows[i])
            /\ \A c \in 0..(table.num[i] - 1) :
                table.np[i][c] = ForwardRows[i][c + 1]

\* The forward pass finds in every device row of its batch the blocks of that
\* row's request, although commit_block_table skips clean tables and copies
\* only the first num_reqs rows, padding rows were overwritten with -1, and
\* the copy reads host memory that the next step rewrites.
ForwardReadsItsBlocks ==
    stream # <<>> /\ Head(stream).op = "forward" =>
        \A i \in DOMAIN Head(stream).rows :
            \A c \in DOMAIN Head(stream).rows[i] :
                gpu[i][c - 1] = Head(stream).rows[i][c]

\* The swaps of reorder_batch_to_split_decodes_and_prefills leave the batch in
\* decode, extend, prefill order.
BatchIsSplit ==
    phase = "reorder" /\ reorder.todo = <<>> =>
        \A i, j \in 0..(num_reqs - 1) : i < j => RegionAt(i) <= RegionAt(j)

\* Every swap of the reordering puts a row where it belongs for good, so its
\* loop, which edits the map that it iterates over, ends.
SwapsSettleRows ==
    [][phase = "reorder" /\ req_ids' # req_ids =>
        Cardinality(NeedsSwap') < Cardinality(NeedsSwap)]_vars
============================================================================
