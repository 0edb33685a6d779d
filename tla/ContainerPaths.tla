--------------------------- MODULE ContainerPaths ----------------------------
(****************************************************************************)
(* The resource paths of the functions that write, open, verify and report  *)
(* on a QXF file.  Each path has the name of its function.                  *)
(****************************************************************************)
EXTENDS PathSteps

(* Open the file; checks on it, each of which closes it when it fails.      *)
Open == Get({"file"}, <<>>)
Check == Call({"file"}, <<"file">>)
Report == Use({"file"})
Close == Drop(<<"file">>)

(****************************************************************************)
(* Writing a container.  Errors of the stream are collected in `ok` and     *)
(* reported when everything is closed and released.                         *)
(****************************************************************************)
qx_write_metadata_only == Closed(
    Get({"entries"}, <<>>) \o Call({"entries"}, <<"entries">>)
    \o Get({"f"}, <<"entries">>) \o Use({"f", "entries"})
    \o Drop(<<"f", "entries">>) \o Call({}, <<>>))

qx_write_tensor_copy_from_gguf == Closed(
    Call({}, <<>>) \o Get({"entries"}, <<>>)
    \o Loop(Call({"entries"}, <<"entries">>))
    \o Get({"src"}, <<"entries">>) \o Get({"dst"}, <<"src", "entries">>)
    \o Loop(Use({"src", "dst", "entries"}))
    \o Drop(<<"dst", "src", "entries">>) \o Call({}, <<>>))

copy_tensor_bytes == Closed(
    Get({"buf"}, <<>>) \o Loop(Call({"buf"}, <<"buf">>)) \o Drop(<<"buf">>))

qx_dump_summary == Closed(
    Get({"f"}, <<>>) \o Call({"f"}, <<"f">>) \o Drop(<<"f">>))

(****************************************************************************)
(* Opening.  Every failure goes through qx_close_file, which releases what  *)
(* the handle has so far and resets it; a file without tensor data gets no  *)
(* spans to sort.                                                           *)
(****************************************************************************)
KeepMapping == <<"mapped_view", "fp", "directory">>                  \* mutant
qx_close_file == <<"mapped_view", "mapping_handle", "fp", "directory">>

qx_open_file_with_backend ==
    LET names(spans) ==
          Get({"names"} \cup spans, <<"names", "spans">> \o qx_close_file)
          \o Loop(Call({"names"} \cup spans, <<"names", "spans">> \o qx_close_file))
          \o Drop(<<"names">>)
        overlaps == Loop(Call({"spans", "directory"}, <<"spans">> \o qx_close_file))
        opened == {"fp", "directory"}
        mapped == {"mapping_handle", "mapped_view"}
        ToView == Get({"mapping_handle"}, qx_close_file)
                  \o Get({"mapped_view"}, qx_close_file)
        steps(map, spans) ==
          Get({"fp"}, <<>>) \o Call({"fp"}, qx_close_file)
          \o Get({"directory"}, qx_close_file) \o Call(opened, qx_close_file)
          \o names(spans) \o When(spans # {}, overlaps) \o Drop(<<"spans">>)
          \o When(map, ToView)
    IN  [map \in BOOLEAN, spans \in {{}, {"spans"}} |->
           Path(steps(map, spans), opened \cup IF map THEN mapped ELSE {})]

(* A span of a mapped file is a pointer into it; of a buffered file, a copy. *)
qx_acquire_span == Path(
    Call({}, <<>>) \o Get({"owned_data"}, <<>>) \o Call({"owned_data"}, <<"owned_data">>),
    {"owned_data"})

qx_verify_tensor_checksum == Closed(
    Call({}, <<>>)
    \o Either(Get({"span"}, <<>>) \o Use({"span"}) \o Drop(<<"span">>) \o Call({}, <<>>),
              Get({"buf"}, <<>>) \o Loop(Call({"buf"}, <<"buf">>))
              \o Drop(<<"buf">>) \o Call({}, <<>>)))

(* The data read are the span's own copy, or a copy of the mapped bytes.    *)
qx_read_raw_span == Path(
    Get({"span"}, <<>>)
    \o Either(Move("span", "data"),
              Call({"span"}, <<"span">>) \o Get({"data"}, <<"span">>))
    \o Drop(<<"span">>), {"data"})

qx_read_raw_span_into == Closed(
    Get({"span"}, <<>>) \o Use({"span"}) \o Drop(<<"span">>))

(****************************************************************************)
(* Reports on the directory: nothing but the file is held.                  *)
(****************************************************************************)
qx_dump_tensor_summary == Closed(Open \o Check \o Report \o Close)

qx_verify_all_tensors == Closed(Open \o Loop(Check) \o Report \o Close)

qx_dump_expert_index_summary ==
    LET flags == <<"has_router", "has_gate", "has_up", "has_down", "layer_bytes">>
        flagSet == {"has_router", "has_gate", "has_up", "has_down", "layer_bytes"}
    IN  Closed(Open \o Check \o Get(flagSet, flags \o <<"file">>)
               \o Use(flagSet \cup {"file"}) \o Drop(flags) \o Close)

qx_dump_expert_cache_plan == Closed(Open \o Check \o Report \o Close)

qx_dump_expert_slice_summary == Closed(Open \o Check \o Report \o Close)

qx_dump_expert_complete_cache_plan == Closed(Open \o Check \o Report \o Close)

qx_dump_runtime_plan == Closed(Call({}, <<>>) \o Open \o Report \o Close)

qx_dump_token_embedding_summary == Closed(Open \o Check \o Report \o Close)

qx_dump_forward_schedule == Closed(Open \o Check \o Report \o Close)

(****************************************************************************)
(* Reports on the bytes of a tensor or of one expert's slice.               *)
(****************************************************************************)
qx_dump_expert_load_summary == Closed(
    Call({}, <<>>) \o Open \o Check \o Get({"buf"}, <<"file">>)
    \o Call({"buf", "file"}, <<"buf", "file">>) \o Use({"buf"}) \o Drop(<<"buf">>)
    \o Report \o Close)

qx_read_expert_slice_once == Closed(
    Call({}, <<>>) \o Get({"buf"}, <<>>) \o Call({"buf"}, <<"buf">>)
    \o Use({"buf"}) \o Drop(<<"buf">>))

qx_dump_expert_load_benchmark == Closed(
    Call({}, <<>>) \o Open \o Check \o Loop(Check) \o Report \o Close)

qx_read_expert_slice_alloc == Path(
    Call({}, <<>>) \o Get({"buf"}, <<>>) \o Call({"buf"}, <<"buf">>) \o Use({"buf"}),
    {"buf"})

(* The three matrices of an expert one after another in a single block.     *)
qx_read_full_expert_alloc == Path(
    Call({}, <<>>) \o Get({"out"}, <<>>) \o Loop(Call({"out"}, <<"out">>)), {"out"})

LOCAL ReadAndReport(work) == Closed(
    Open \o Check \o Get({"buf"}, <<"file">>) \o work \o Drop(<<"buf">>) \o Close)

qx_dump_quant_block_summary == ReadAndReport(Use({"buf", "file"}))

qx_dump_matvec_stub_summary == ReadAndReport(Use({"buf", "file"}))

(****************************************************************************)
(* The three demonstrations of a slot cache: the slots, with the data they  *)
(* own, and a copy of the request sequence.                                 *)
(****************************************************************************)
LOCAL ServeSequence(slots, request) == Closed(
    Call({}, <<>>) \o Open \o Get({slots, "seq"}, <<slots, "seq", "file">>)
    \o Loop(Call({slots, "seq"}, <<slots, "seq", "file">>) \o request)
    \o Use({slots, "file"}) \o Drop(<<slots, "seq", "file">>))

qx_dump_cache_demo_summary == ServeSequence("cache", Use({"cache"}))

qx_dump_cache_run_summary ==
    ServeSequence("slots", Maybe(Call({"slots", "file"}, <<"slots", "seq", "file">>)))

qx_dump_cache_run_expert_summary ==
    ServeSequence("slots", Maybe(Call({"slots", "file"}, <<"slots", "seq", "file">>)))

(* Released through a function that resets what it released.                *)
ContainerHandles == {"file", "fp", "directory", "mapped_view", "mapping_handle",
                     "span", "owned_data"}

ContainerRoutines == [
    qx_write_metadata_only |-> qx_write_metadata_only,
    qx_write_tensor_copy_from_gguf |-> qx_write_tensor_copy_from_gguf,
    copy_tensor_bytes |-> copy_tensor_bytes,
    qx_dump_summary |-> qx_dump_summary,
    qx_open_file_buffered |-> qx_open_file_with_backend[FALSE, {"spans"}],
    qx_open_file_mapped |-> qx_open_file_with_backend[TRUE, {"spans"}],
    qx_open_file_metadata |-> qx_open_file_with_backend[FALSE, {}],
    qx_acquire_span |-> qx_acquire_span,
    qx_verify_tensor_checksum |-> qx_verify_tensor_checksum,
    qx_read_raw_span |-> qx_read_raw_span,
    qx_read_raw_span_into |-> qx_read_raw_span_into,
    qx_dump_tensor_summary |-> qx_dump_tensor_summary,
    qx_verify_all_tensors |-> qx_verify_all_tensors,
    qx_dump_expert_index_summary |-> qx_dump_expert_index_summary,
    qx_dump_expert_cache_plan |-> qx_dump_expert_cache_plan,
    qx_dump_expert_slice_summary |-> qx_dump_expert_slice_summary,
    qx_dump_expert_complete_cache_plan |-> qx_dump_expert_complete_cache_plan,
    qx_dump_runtime_plan |-> qx_dump_runtime_plan,
    qx_dump_token_embedding_summary |-> qx_dump_token_embedding_summary,
    qx_dump_forward_schedule |-> qx_dump_forward_schedule,
    qx_dump_expert_load_summary |-> qx_dump_expert_load_summary,
    qx_read_expert_slice_once |-> qx_read_expert_slice_once,
    qx_dump_expert_load_benchmark |-> qx_dump_expert_load_benchmark,
    qx_read_expert_slice_alloc |-> qx_read_expert_slice_alloc,
    qx_read_full_expert_alloc |-> qx_read_full_expert_alloc,
    qx_dump_quant_block_summary |-> qx_dump_quant_block_summary,
    qx_dump_matvec_stub_summary |-> qx_dump_matvec_stub_summary,
    qx_dump_cache_demo_summary |-> qx_dump_cache_demo_summary,
    qx_dump_cache_run_summary |-> qx_dump_cache_run_summary,
    qx_dump_cache_run_expert_summary |-> qx_dump_cache_run_expert_summary]
==============================================================================
