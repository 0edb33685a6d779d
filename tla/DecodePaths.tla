----------------------------- MODULE DecodePaths -----------------------------
(****************************************************************************)
(* The resource paths of the forward pass: the kernels that borrow the open *)
(* model, the final head with its worker threads, the probes of one stage,  *)
(* and the loop over prompt and generated tokens.  Each path has the name   *)
(* of its function.  Diagnostic files that a later failure leaves behind on *)
(* purpose are not resources; the two of the final head, which it removes,  *)
(* are.                                                                     *)
(****************************************************************************)
EXTENDS ContainerPaths, SequencesExt

LOCAL BorrowWeights == Closed(
    Call({}, <<>>) \o Get({"weights"}, <<>>) \o Use({"weights"}) \o Drop(<<"weights">>))

qx_apply_f32_rmsnorm == BorrowWeights

qx_apply_f32_head_rmsnorm == BorrowWeights

qx_fill_residual_vector_from_embedding == Closed(
    Call({}, <<>>) \o Get({"raw"}, <<>>) \o Call({"raw"}, <<"raw">>) \o Drop(<<"raw">>)
    \o Maybe(Call({}, <<>>) \o Get({"nbuf"}, <<>>) \o Use({"nbuf"}) \o Drop(<<"nbuf">>)))

(****************************************************************************)
(* Rows of a projection: through a window that is read into, or through one *)
(* that is mapped again for every few rows.                                 *)
(****************************************************************************)
qx_projection_matvec_fill_mode ==
    LET both == <<"mapped_window", "window">>
        read == Call({"window"}, <<"window">>)
        mapped == Drop(<<"mapped_window">>) \o Get({"mapped_window"}, <<"window">>)
        rows(fill, data) == Loop(fill \o Loop(Call({data}, both))) \o Drop(both)
    IN  Closed(Call({}, <<>>)
               \o Either(Get({"window"}, <<>>) \o rows(read, "window"),
                         rows(mapped, "mapped_window")))

LOCAL AttentionBuffers == <<"qbuf", "qfloat", "obuf", "context", "scores", "weights">>

qx_causal_attention_partial == Closed(
    LET all == AttentionBuffers
    IN  Call({}, <<>>) \o Get(Range(all), all)
        \o Call(Range(all), all) \o Use(Range(all)) \o Call(Range(all), all) \o Drop(all))

(* With the scratch workspace the buffers are the workspace's.              *)
qx_rope_gqa_attention_partial == Closed(
    LET all == <<"qbuf", "obuf", "qfloat", "context", "scores", "weights">>
        owned == Get(Range(all), all)
                 \o Call(Range(all), all) \o Maybe(Call(Range(all), all))
                 \o Maybe(Call({"context"}, all)) \o Call(Range(all), all) \o Drop(all)
        borrowed == Call({}, <<>>)
    IN  Call({}, <<>>) \o Either(owned, borrowed))

(* The slice is a borrow of the cache or a copy of its own; every way out   *)
(* gives it back after the pool has joined its readers.                     *)
qx_packed_expert_matvec_mode == Closed(
    LET rows(slice) == Either(Use({slice}) \o Drop(<<slice>>) \o Call({}, <<>>),
                              Loop(Call({slice}, <<slice>>)) \o Drop(<<slice>>))
    IN  Call({}, <<>>)
        \o Either(Get({"borrow"}, <<>>) \o rows("borrow"),
                  Get({"slice"}, <<>>) \o rows("slice")))

qx_apply_real_moe_layer == Closed(
    LET layer(own) ==
          Call(Range(own), own)
          \o Get({"router_raw"}, own) \o Use({"router_raw"}) \o Drop(<<"router_raw">>)
          \o Call(Range(own), own)
          \o Loop(Call(Range(own), own))
    IN  Call({}, <<>>)
        \o Either(Get({"buffers"}, <<>>) \o layer(<<"buffers">>) \o Drop(<<"buffers">>),
                  Call({}, <<>>) \o layer(<<>>)))

(****************************************************************************)
(* The final head.  A worker reads the weights and writes the logits until  *)
(* it is joined; when one cannot be created, those before it are joined     *)
(* before what they work on is released.                                    *)
(****************************************************************************)
JoinFirstWorker == <<"worker_1">>                                    \* mutant
qx_join_final_head_pool_workers == <<"worker_1", "worker_2">>

FinalHeadReads == [worker \in {"worker_1", "worker_2"} |-> {"raw", "logits64"}]

qx_compute_real_final_head_pool_f32 == Closed(
    LET data == <<"raw", "logits64">>
    IN  Call({}, <<>>) \o Get({"logits64"}, <<>>) \o Get({"raw"}, <<"logits64">>)
        \o Get({"worker_1"}, data) \o Get({"worker_2"}, <<"worker_1">> \o data)
        \o Use({"worker_1", "worker_2", "raw", "logits64"})
        \o Drop(qx_join_final_head_pool_workers)
        \o Call({"raw", "logits64"}, data) \o Use({"raw", "logits64"})
        \o Drop(<<"logits64", "raw">>))

LOCAL Chunks == Loop(Get({"raw"}, <<>>) \o Loop(Call({"raw"}, <<"raw">>)) \o Drop(<<"raw">>))

qx_compute_real_final_head_q8_k == Closed(Call({}, <<>>) \o Chunks)

(* The device, the quantized kernel and the pool are calls of their own.    *)
qx_compute_real_final_head == Closed(Call({}, <<>>) \o Either(Call({}, <<>>), Chunks))

(****************************************************************************)
(* Vectors and logits in files of their own.                                *)
(****************************************************************************)
qx_read_exact_f32_sidecar == Closed(
    Call({}, <<>>) \o Get({"fp"}, <<>>) \o Call({"fp"}, <<"fp">>) \o Drop(<<"fp">>)
    \o Call({}, <<>>))

LOCAL WriteFile == Closed(
    Call({}, <<>>) \o Get({"fp"}, <<>>) \o Use({"fp"}) \o Drop(<<"fp">>) \o Call({}, <<>>))

qx_write_moe_stage_sidecar == WriteFile

qx_write_residual_dump == WriteFile

qx_write_logits_dump == WriteFile

qx_write_accumulated_kv_snapshot == WriteFile

qx_read_accumulated_kv_snapshot == Closed(
    Call({}, <<>>) \o Get({"fp"}, <<>>) \o Call({"fp"}, <<"fp">>) \o Loop(Use({"fp"}))
    \o Drop(<<"fp">>) \o Call({}, <<>>))

(* What is left of the stream when it is closed is the file; one that could *)
(* not be written to the end is removed.                                    *)
qx_write_final_head_sidecar == Path(
    Call({}, <<>>) \o Get({"fp"}, <<>>) \o Use({"fp"}) \o Move("fp", "sidecar")
    \o Call({"sidecar"}, <<"sidecar">>), {"sidecar"})

(* Both files or neither.                                                   *)
qx_dump_final_head_probe_summary == Path(
    LET all == <<"vectors", "logits", "file">>
        own == {"vectors", "logits"}
    IN  Call({}, <<>>) \o Open \o Check \o Get(own, all)
        \o Call(own \cup {"file"}, all) \o Call(own \cup {"file"}, all)
        \o Get({"final_norm_sidecar"}, all)
        \o Get({"logits_sidecar"}, <<"final_norm_sidecar">> \o all)
        \o Use(own) \o Drop(all),
    {"final_norm_sidecar", "logits_sidecar"})

qx_dump_expert_q8_k_dot_probe_summary == Closed(
    LET all == <<"activation", "row_raw", "file">>
    IN  Call({}, <<>>) \o Open \o Check \o Get({"activation"}, <<"file">>)
        \o Call({"activation"}, all) \o Get({"row_raw"}, all)
        \o Call({"activation", "row_raw", "file"}, all) \o Use({"activation", "row_raw", "file"})
        \o Drop(all))

(****************************************************************************)
(* The probes of one attention stage and of one stage of experts end in one *)
(* place whatever happened; an early failure jumps there.                   *)
(****************************************************************************)
qx_dump_attention_stage_probe_summary == Closed(
    LET own == <<"layer_input", "normalized", "v_cur", "context", "attention_output",
                 "ffn_input", "v_bytes", "output_bytes">>
        all == own \o <<"file">>
        Step == Call(Range(all), all)
    IN  Call({}, <<>>) \o Open \o Check \o Get(Range(own), all)
        \o Step \o Step \o Step \o Step \o Drop(all))

qx_dump_moe_stage_probe_summary_mode == Closed(
    LET own == <<"ffn_input", "ffn_norm", "logits", "probs", "gate_values", "up_values",
                 "swiglu", "down_values", "weighted">>
        all == own \o <<"file">>
        Step == Call(Range(all), all)
        router == Get({"router_raw"}, all)
                  \o Loop(Call({"router_raw"}, <<"router_raw">> \o all))
                  \o Drop(<<"router_raw">>)
    IN  Call({}, <<>>) \o Open \o Check \o Get(Range(own), all)
        \o Step \o router \o Step \o Loop(Step) \o Loop(Step) \o Drop(all))

(****************************************************************************)
(* The loop over the prompt and the generated tokens.  Its options decide   *)
(* what it acquires: the causal cache, vectors of deltas, the device, the   *)
(* pool and the cache of experts.  Everything acquired before the first     *)
(* token is in one list that every later failure releases, with whatever    *)
(* the layer or the head holds at that point in front of it.  The scratch   *)
(* workspace is acquired by the first layer that needs it.                  *)
(****************************************************************************)
LoopReleases ==
    <<"kbuf", "vbuf", "kcache", "vcache", "kfloat", "vfloat", "kscales", "vscales",
      "residual_vec", "cuda_logits", "cuda_weight_span", "cuda_context",
      "scratch_workspace", "file", "moe_pool", "expert_cache">>

qx_run_prompt_state_loop_acquire(o) ==
    LET early == <<"file", "moe_pool", "expert_cache">>
        causal == {"kcache", "vcache", "kfloat", "vfloat", "kscales", "vscales"}
        Device == Call({"file"}, LoopReleases) \o Get({"cuda_weight_span"}, LoopReleases)
                  \o Get({"cuda_logits"}, LoopReleases)
                  \o Get({"cuda_context"}, LoopReleases)
    IN  Call({}, <<>>) \o Open
        \o When(o.cache, Get({"expert_cache"}, early))
        \o Call({"file"}, early)
        \o Get({"kbuf", "vbuf", "residual_vec"} \cup (IF o.causal THEN causal ELSE {}),
               LoopReleases)
        \o Call({"file"}, LoopReleases)
        \o When(o.cuda, Device)
        \o When(o.pool, Get({"moe_pool"}, LoopReleases))

qx_run_prompt_state_loop_layer(o) ==
    LET attention(capture) ==
          LET all == capture \o <<"causal_vec">> \o LoopReleases
              own == {"causal_vec"} \cup Range(capture)
          IN  Get(own, all) \o Call(own \cup {"kcache", "vcache"}, all) \o Clear(capture)
        deltas == <<"avec", "mvec", "outv">>
        AddDeltas == Get(Range(deltas), deltas \o LoopReleases)
                     \o Use(Range(deltas) \cup {"residual_vec"}) \o Drop(deltas)
        Experts == Call({"causal_vec", "residual_vec"}, <<"causal_vec">> \o LoopReleases)
    IN  Call({"file", "kbuf", "vbuf", "residual_vec"}, LoopReleases)
        \o When(o.causal, Either(attention(<<"attention_context_capture">>),
                                 attention(<<>>)))
        \o When(o.full_moe, Experts)
        \o When(o.delta, AddDeltas)
        \o Drop(<<"causal_vec">>)

qx_run_prompt_state_loop_head ==
    LET dumped == <<"logits_dump">> \o LoopReleases
    IN  Either(Get({"logits_dump"}, LoopReleases)
               \o Call({"logits_dump", "file", "residual_vec"}, dumped)
               \o Drop(<<"logits_dump">>),
               Call({"file", "residual_vec"}, LoopReleases))
        \o Call({}, LoopReleases)

qx_run_prompt_state_loop(o) == Closed(
    qx_run_prompt_state_loop_acquire(o)
    \o Maybe(Get({"scratch_workspace"}, LoopReleases))
    \o Loop(Call({"file", "residual_vec"}, LoopReleases)
            \o Loop(qx_run_prompt_state_loop_layer(o))
            \o Maybe(qx_run_prompt_state_loop_head))
    \o Call({"file"}, LoopReleases)
    \o Drop(LoopReleases))

(****************************************************************************)
(* The handles of the loop.  The span of the device's weights may be a view *)
(* of the open file.                                                        *)
(****************************************************************************)
DecodeHandles == {"cuda_weight_span", "cuda_context", "scratch_workspace", "moe_pool",
                  "expert_cache", "borrow", "weights", "mapped_window"}

LoopReads == [cuda_weight_span |-> {"file"}]

(****************************************************************************)
(* The options of the commands that run the loop: each flag of the state    *)
(* loop's probe sets those it builds on.                                    *)
(****************************************************************************)
Plain == [causal |-> FALSE, delta |-> FALSE, full_moe |-> FALSE,
          cuda |-> FALSE, pool |-> FALSE, cache |-> FALSE]
DeltaVectors == [Plain EXCEPT !.delta = TRUE]
CausalAttention == [DeltaVectors EXCEPT !.causal = TRUE]
FullMoe == [Plain EXCEPT !.causal = TRUE, !.full_moe = TRUE]

DecodeRoutines == [
    qx_apply_f32_rmsnorm |-> qx_apply_f32_rmsnorm,
    qx_apply_f32_head_rmsnorm |-> qx_apply_f32_head_rmsnorm,
    qx_fill_residual_vector_from_embedding |-> qx_fill_residual_vector_from_embedding,
    qx_projection_matvec_fill_mode |-> qx_projection_matvec_fill_mode,
    qx_causal_attention_partial |-> qx_causal_attention_partial,
    qx_rope_gqa_attention_partial |-> qx_rope_gqa_attention_partial,
    qx_packed_expert_matvec_mode |-> qx_packed_expert_matvec_mode,
    qx_apply_real_moe_layer |-> qx_apply_real_moe_layer,
    qx_compute_real_final_head_pool_f32 |-> qx_compute_real_final_head_pool_f32,
    qx_compute_real_final_head_q8_k |-> qx_compute_real_final_head_q8_k,
    qx_compute_real_final_head |-> qx_compute_real_final_head,
    qx_read_exact_f32_sidecar |-> qx_read_exact_f32_sidecar,
    qx_write_moe_stage_sidecar |-> qx_write_moe_stage_sidecar,
    qx_write_residual_dump |-> qx_write_residual_dump,
    qx_write_logits_dump |-> qx_write_logits_dump,
    qx_write_accumulated_kv_snapshot |-> qx_write_accumulated_kv_snapshot,
    qx_read_accumulated_kv_snapshot |-> qx_read_accumulated_kv_snapshot,
    qx_write_final_head_sidecar |-> qx_write_final_head_sidecar,
    qx_dump_final_head_probe_summary |-> qx_dump_final_head_probe_summary,
    qx_dump_expert_q8_k_dot_probe_summary |-> qx_dump_expert_q8_k_dot_probe_summary,
    qx_dump_attention_stage_probe_summary |-> qx_dump_attention_stage_probe_summary,
    qx_dump_moe_stage_probe_summary_mode |-> qx_dump_moe_stage_probe_summary_mode,
    loop_plain |-> qx_run_prompt_state_loop(Plain),
    loop_delta_vectors |-> qx_run_prompt_state_loop(DeltaVectors),
    loop_full_moe |-> qx_run_prompt_state_loop(FullMoe),
    loop_full_moe_cuda |-> qx_run_prompt_state_loop([FullMoe EXCEPT !.cuda = TRUE]),
    loop_full_moe_pool |->
        qx_run_prompt_state_loop([FullMoe EXCEPT !.pool = TRUE, !.cache = TRUE])]

(* The state loop's probe with --causal-attention and without --full-moe.   *)
CausalDeltaLoop == [loop_causal_attention |-> qx_run_prompt_state_loop(CausalAttention)]
==============================================================================
