----------------------------- MODULE ProbePaths ------------------------------
(****************************************************************************)
(* The resource paths of the probes: diagnostics that open a model, compute *)
(* a small piece of the forward pass and report it.  Each path has the name *)
(* of its function.                                                         *)
(****************************************************************************)
EXTENDS ContainerPaths

(* Open, check, read the bytes in question, work on them, release.          *)
LOCAL ReadOnce == Closed(
    Open \o Check \o Get({"buf"}, <<"file">>) \o Use({"buf", "file"})
    \o Drop(<<"buf">>) \o Close)

qx_dump_decode_block_summary == ReadOnce

qx_dump_block_dot_summary == ReadOnce

qx_dump_matvec_row_summary == ReadOnce

qx_dump_expert_row_summary == Closed(Call({}, <<>>) \o ReadOnce.steps)

(****************************************************************************)
(* Helpers that borrow the caller's open file and read one span of it.      *)
(****************************************************************************)
LOCAL BorrowRead == Closed(
    Call({}, <<>>) \o Get({"buf"}, <<>>) \o Use({"buf"}) \o Drop(<<"buf">>))

qx_expert_row_dot_calc == BorrowRead

qx_tensor_block_dot_calc == BorrowRead

qx_logit_row_score == BorrowRead

qx_collect_top_logits == Closed(Call({}, <<>>) \o Loop(Call({}, <<>>)))

qx_lookup_token_piece_sidecar == Closed(
    Call({}, <<>>) \o Get({"f"}, <<>>)
    \o Loop(Use({"f"})) \o Drop(<<"f">>) \o Call({}, <<>>))

qx_fill_kv_from_projection == Closed(
    Call({}, <<>>) \o Get({"raw"}, <<>>) \o Use({"raw"}) \o Drop(<<"raw">>))

(****************************************************************************)
(* Probes of one expert, of the router and of whole layers of experts.      *)
(****************************************************************************)
qx_dump_expert_forward_probe_summary == Closed(Open \o Check \o Report \o Close)

LOCAL Picks == <<"logits", "picked", "selected">>
LOCAL PickSet == {"logits", "picked", "selected"}
LOCAL RouterRows ==
    Get(PickSet, Picks \o <<"file">>)
    \o Loop(Get({"buf"}, Picks \o <<"file">>) \o Use({"buf", "logits"}) \o Drop(<<"buf">>))
    \o Use(PickSet)
LOCAL RunPicked == Loop(Call({"selected", "file"}, Picks \o <<"file">>))

qx_dump_router_topk_probe_summary == Closed(
    Open \o Check \o RouterRows \o RunPicked \o Use({"selected"})
    \o Drop(Picks) \o Close)

qx_dump_layer_forward_probe_summary == Closed(
    Open \o Check \o RouterRows \o RunPicked \o Use({"selected"})
    \o Drop(Picks) \o Close)

(* An expert that cannot be run is counted and skipped here.                *)
qx_dump_moe_forward_probe_summary == Closed(
    Open \o Check
    \o Loop(Check \o RouterRows \o Loop(Use({"selected", "file"})) \o Drop(Picks))
    \o Report \o Close)

qx_dump_expert_quant_coverage_summary == Closed(Open \o Loop(Report) \o Close)

(****************************************************************************)
(* Logits, sampling, tokens and the toy generation.                         *)
(****************************************************************************)
qx_dump_logits_probe_summary == Closed(Call({}, <<>>) \o Open \o Check \o Report \o Close)

qx_dump_sampler_probe_summary == Closed(Call({}, <<>>) \o Open \o Check \o Report \o Close)

qx_dump_tokenizer_probe_summary == Closed(Call({}, <<>>) \o Open \o Check \o Report \o Close)

qx_dump_generate_probe_summary ==
    Closed(Call({}, <<>>) \o Open \o Check \o Loop(Check) \o Report \o Close)

(****************************************************************************)
(* A token through the embedding, an optional norm, optional attention      *)
(* products and the experts of every layer.                                 *)
(****************************************************************************)
qx_dump_token_forward_probe_summary == Closed(
    LET embedded == Call({"emb_buf", "file"}, <<"emb_buf", "file">>)
        normed == Call({"file"}, <<"emb_buf", "file">>)
                  \o Get({"norm_buf"}, <<"emb_buf", "file">>)
                  \o Get({"vals"}, <<"norm_buf", "emb_buf", "file">>)
                  \o Use({"vals", "norm_buf", "emb_buf"}) \o Drop(<<"vals", "norm_buf">>)
        layer == Check \o RouterRows \o Loop(Use({"selected", "file"})) \o Drop(Picks)
    IN  Open \o Check \o Get({"emb_buf"}, <<"file">>) \o embedded
        \o Maybe(normed) \o Maybe(embedded) \o Drop(<<"emb_buf">>)
        \o Loop(layer) \o Report \o Close)

qx_dump_rmsnorm_probe_summary == Closed(
    Open \o Check \o Get({"emb_buf"}, <<"file">>)
    \o Get({"norm_buf"}, <<"emb_buf", "file">>)
    \o Get({"vals"}, <<"emb_buf", "norm_buf", "file">>)
    \o Use({"vals", "emb_buf", "norm_buf", "file"})
    \o Drop(<<"vals", "emb_buf", "norm_buf", "file">>))

(****************************************************************************)
(* A key-value cache in memory, filled and read back.                       *)
(****************************************************************************)
qx_dump_attention_probe_summary == Closed(
    Open \o Check
    \o Maybe(Get({"cache", "tmp"}, <<"cache", "tmp", "file">>)
             \o Use({"cache", "tmp"}) \o Drop(<<"cache", "tmp">>))
    \o Report \o Close)

qx_dump_kv_cache_probe_summary == Closed(Call({}, <<>>) \o Open \o Check \o Report \o Close)

(* The read back is the result: the buffers are released before it decides. *)
qx_dump_kv_cache_buffer_probe_summary == Closed(
    Call({}, <<>>) \o Open \o Check \o Get({"buf", "tmp"}, <<"buf", "tmp", "file">>)
    \o Use({"buf", "tmp", "file"}) \o Drop(<<"buf", "tmp", "file">>) \o Call({}, <<>>))

(* Project and store every token, attend over what is stored, then compare. *)
LOCAL CacheProbe(buffers, bufferSet) == Closed(
    LET all == buffers \o <<"file">>
    IN  Call({}, <<>>) \o Open \o Check \o Get(bufferSet, all)
        \o Loop(Call({"cache", "file"}, all)) \o Loop(Call({"cache", "file"}, all))
        \o Use(bufferSet \cup {"file"}) \o Drop(all) \o Call({}, <<>>))

qx_dump_attention_cache_probe_summary ==
    CacheProbe(<<"cache", "k_tmp", "v_tmp">>, {"cache", "k_tmp", "v_tmp"})

qx_dump_attention_softmax_probe_summary ==
    CacheProbe(<<"cache", "tmp", "scores", "weights">>, {"cache", "tmp", "scores", "weights"})

qx_dump_attention_vector_probe_summary ==
    CacheProbe(<<"cache", "qvec", "scores", "weights", "context">>,
               {"cache", "qvec", "scores", "weights", "context"})

qx_dump_attention_multihead_probe_summary ==
    CacheProbe(<<"cache", "qvec", "scores", "weights">>, {"cache", "qvec", "scores", "weights"})

(****************************************************************************)
(* A residual vector, and projections of it to keys and values.             *)
(****************************************************************************)
qx_dump_residual_vector_probe_summary == Closed(
    Call({}, <<>>) \o Open \o Get({"vec"}, <<"file">>)
    \o Call({"vec", "file"}, <<"vec", "file">>) \o Use({"vec"}) \o Drop(<<"vec", "file">>))

qx_dump_projection_matvec_probe_summary == Closed(
    LET out == <<"kbuf", "vbuf", "kfloat", "vfloat">>
        outSet == {"kbuf", "vbuf", "kfloat", "vfloat"}
        all == <<"rvec">> \o out \o <<"file">>
    IN  Call({}, <<>>) \o Open \o Check \o Get(outSet, out \o <<"file">>)
        \o Maybe(Get({"rvec"}, out \o <<"file">>) \o Call({"rvec", "file"}, all))
        \o Call(outSet \cup {"file"}, all) \o Use(outSet \cup {"file"}) \o Drop(all))

(****************************************************************************)
(* The probe of rotary and grouped-query attention computes from a seed and *)
(* has no file; its ten buffers are acquired and released together.         *)
(****************************************************************************)
qx_dump_rope_gqa_golden_probe_summary == Closed(
    LET all == <<"q", "k", "v", "kcache", "vcache", "kscales", "vscales",
                 "scores", "weights", "context">>
        set == {all[i] : i \in DOMAIN all}
    IN  Call({}, <<>>) \o Get(set, all) \o Use(set) \o Drop(all))

(****************************************************************************)
(* One step of attention against golden values: eighteen buffers, the raw   *)
(* router, the buffer of the experts under full_moe, the bytes of the norms.*)
(****************************************************************************)
qx_dump_real_qkv_golden_probe_summary == Closed(
    LET base == <<"residual", "qraw", "qrope", "kraw", "vraw", "krope", "qbuf",
                  "kcache", "vcache", "kscales", "vscales", "scores", "weights",
                  "context", "context_float", "output_raw", "output_buf", "post_buffers">>
        set == {base[i] : i \in DOMAIN base}
        list == base \o <<"file">>
        run == Call(set \cup {"file"}, list)
        router == Get({"router_raw"}, list)
                  \o Call({"router_raw"}, <<"router_raw">> \o list)
                  \o Use({"router_raw", "post_buffers"}) \o Drop(<<"router_raw">>)
        experts == Get({"moe_buffers"}, list)
                   \o Loop(Call({"moe_buffers", "file"}, <<"moe_buffers">> \o list))
        norms(held) == Get({"qnorm_bytes", "knorm_bytes"},
                           <<"qnorm_bytes", "knorm_bytes">> \o held \o list)
                       \o Use({"qnorm_bytes", "knorm_bytes"} \cup set)
    IN  Call({}, <<>>) \o Open \o Check \o Get(set, list) \o run \o router \o run
        \o Maybe(experts) \o norms(<<"moe_buffers">>)
        \o Drop(<<"qnorm_bytes", "knorm_bytes", "moe_buffers">> \o list))

ProbeRoutines == [
    qx_dump_decode_block_summary |-> qx_dump_decode_block_summary,
    qx_dump_block_dot_summary |-> qx_dump_block_dot_summary,
    qx_dump_matvec_row_summary |-> qx_dump_matvec_row_summary,
    qx_dump_expert_row_summary |-> qx_dump_expert_row_summary,
    qx_expert_row_dot_calc |-> qx_expert_row_dot_calc,
    qx_tensor_block_dot_calc |-> qx_tensor_block_dot_calc,
    qx_logit_row_score |-> qx_logit_row_score,
    qx_collect_top_logits |-> qx_collect_top_logits,
    qx_lookup_token_piece_sidecar |-> qx_lookup_token_piece_sidecar,
    qx_fill_kv_from_projection |-> qx_fill_kv_from_projection,
    qx_dump_expert_forward_probe_summary |-> qx_dump_expert_forward_probe_summary,
    qx_dump_router_topk_probe_summary |-> qx_dump_router_topk_probe_summary,
    qx_dump_layer_forward_probe_summary |-> qx_dump_layer_forward_probe_summary,
    qx_dump_moe_forward_probe_summary |-> qx_dump_moe_forward_probe_summary,
    qx_dump_expert_quant_coverage_summary |-> qx_dump_expert_quant_coverage_summary,
    qx_dump_logits_probe_summary |-> qx_dump_logits_probe_summary,
    qx_dump_sampler_probe_summary |-> qx_dump_sampler_probe_summary,
    qx_dump_tokenizer_probe_summary |-> qx_dump_tokenizer_probe_summary,
    qx_dump_generate_probe_summary |-> qx_dump_generate_probe_summary,
    qx_dump_token_forward_probe_summary |-> qx_dump_token_forward_probe_summary,
    qx_dump_rmsnorm_probe_summary |-> qx_dump_rmsnorm_probe_summary,
    qx_dump_attention_probe_summary |-> qx_dump_attention_probe_summary,
    qx_dump_kv_cache_probe_summary |-> qx_dump_kv_cache_probe_summary,
    qx_dump_kv_cache_buffer_probe_summary |-> qx_dump_kv_cache_buffer_probe_summary,
    qx_dump_attention_cache_probe_summary |-> qx_dump_attention_cache_probe_summary,
    qx_dump_attention_softmax_probe_summary |-> qx_dump_attention_softmax_probe_summary,
    qx_dump_attention_vector_probe_summary |-> qx_dump_attention_vector_probe_summary,
    qx_dump_attention_multihead_probe_summary |-> qx_dump_attention_multihead_probe_summary,
    qx_dump_residual_vector_probe_summary |-> qx_dump_residual_vector_probe_summary,
    qx_dump_projection_matvec_probe_summary |-> qx_dump_projection_matvec_probe_summary,
    qx_dump_rope_gqa_golden_probe_summary |-> qx_dump_rope_gqa_golden_probe_summary,
    qx_dump_real_qkv_golden_probe_summary |-> qx_dump_real_qkv_golden_probe_summary]
==============================================================================
