---------------------------- MODULE ServicePaths ----------------------------
(****************************************************************************)
(* The resource paths of the parts around the forward pass: the reader of   *)
(* GGUF files, the tokenizer, the final head on the CUDA device, and the    *)
(* commands of the program that hold something while they call the others.  *)
(* Each path has the name of its function or of its command.                *)
(****************************************************************************)
EXTENDS PathSteps, TLC

(****************************************************************************)
(* GGUF.  The table of tensors is handed to the caller; `order` sorts the   *)
(* offsets, whose differences are the sizes.                                *)
(****************************************************************************)
qx_gguf_inspect == Closed(
    Call({}, <<>>) \o Get({"f"}, <<>>) \o Call({"f"}, <<"f">>)
    \o Loop(Call({"f"}, <<"f">>)) \o Loop(Call({"f"}, <<"f">>)) \o Drop(<<"f">>))

qx_gguf_load_tensor_table ==
    LET all == <<"tensors", "order", "f">>
    IN  Path(Call({}, <<>>) \o Get({"f"}, <<>>) \o Call({"f"}, <<"f">>)
             \o Get({"tensors", "order"}, all)
             \o Loop(Call({"tensors", "order", "f"}, all))
             \o Loop(Call({"tensors", "order"}, all))
             \o Drop(<<"order", "f">>),
             {"tensors"})

qx_gguf_export_tokenizer_tokens ==
    LET all == <<"tmp", "out", "f">>
        Entry == Call({"f"}, <<"f">>)
        Export == Get({"out"}, <<"f">>) \o Get({"tmp"}, <<"out", "f">>)
                  \o Loop(Call({"f", "tmp", "out"}, all)) \o Drop(all)
        NotFound == Drop(<<"f">>)
    IN  Closed(Call({}, <<>>) \o Get({"f"}, <<>>) \o Entry \o Loop(Entry)
               \o Either(Entry \o Export, NotFound \o Call({}, <<>>)))

(****************************************************************************)
(* The tokenizer: the payload with the two tables that point into it.       *)
(****************************************************************************)
qx_tokenizer_load ==
    LET tables == <<"storage", "tokens", "merges">>
        parts == {"storage", "tokens", "merges"}
    IN  Path(Call({}, <<>>) \o Get({"file"}, <<>>) \o Call({"file"}, <<"file">>)
             \o Get(parts, tables \o <<"file">>)
             \o Call(parts \cup {"file"}, tables \o <<"file">>)
             \o Drop(<<"file">>) \o Call(parts, tables)
             \o Loop(Call(parts, tables)) \o Loop(Call(parts, tables))
             \o Call(parts, tables),
             parts)

(* An index of the vocabulary or of the merges: a duplicate releases it.    *)
qx_tok_build_index == Path(
    Call({}, <<>>) \o Get({"index"}, <<>>) \o Loop(Call({"index"}, <<"index">>)), {"index"})

(****************************************************************************)
(* A chunk of three bytes and its merges: the merged text takes the place   *)
(* of the left symbol's, and the symbols behind the right one move up.      *)
(* Whatever fails releases the texts of the symbols that are left.          *)
(****************************************************************************)
qx_tok_symbols_free(count) ==
    SubSeq(<<"text_1", "text_2", "text_3">>, 1, count) \o <<"symbols">>

qx_tok_bpe_chunk ==
    LET free(count) == qx_tok_symbols_free(count)
        Merge(count) ==
          Get({"combined"}, free(count)) \o Use({"text_1", "text_2", "combined"})
          \o Drop(<<"text_1", "text_2">>) \o Move("combined", "text_1")
        Finish(count) == Loop(Call({"symbols"}, free(count))) \o Drop(free(count))
        two == Merge(3) \o Move("text_3", "text_2")
    IN  Closed(Get({"symbols"}, <<>>)
               \o Get({"text_1"}, free(3)) \o Get({"text_2"}, free(3))
               \o Get({"text_3"}, free(3)) \o Call({"symbols"}, free(3))
               \o Either(two \o Either(Merge(2) \o Finish(1), Finish(2)), Finish(3)))

qx_tokenizer_encode == Closed(
    LET both == <<"token_index", "merge_index">>
        Next == Call({"token_index", "merge_index"}, both)
    IN  Call({}, <<>>) \o Get({"token_index"}, both) \o Get({"merge_index"}, both)
        \o Next \o Loop(Next) \o Next \o Drop(both))

(****************************************************************************)
(* The final head on the device.  Its context releases what it has so far.  *)
(****************************************************************************)
qx_cuda_final_head_destroy ==
    <<"device_logits", "device_activation", "device_weights", "ctx">>

qx_cuda_final_head_create_q6_k_f32 ==
    LET destroy == qx_cuda_final_head_destroy
    IN  Path(Call({}, <<>>) \o Get({"ctx"}, <<>>)
             \o Get({"device_weights"}, destroy)
             \o Get({"device_activation"}, destroy)
             \o Get({"device_logits"}, destroy)
             \o Call({"ctx", "device_weights"}, destroy),
             {"ctx", "device_weights", "device_activation", "device_logits"})

qx_cuda_final_head_compute_f32 == Closed(
    LET Device == Call({"staging"}, <<"staging">>)
    IN  Call({}, <<>>) \o Get({"staging"}, <<>>)
        \o Device \o Device \o Device \o Device \o Use({"staging"}) \o Drop(<<"staging">>))

(****************************************************************************)
(* Files the command line reads.                                            *)
(****************************************************************************)
LOCAL ReadWhole(checks) == Path(
    Get({"f"}, <<>>) \o checks \o Get({"buf"}, <<"f">>)
    \o Call({"f", "buf"}, <<"buf", "f">>) \o Drop(<<"f">>), {"buf"})

read_text_file == ReadWhole(Call({"f"}, <<"f">>))

qx_cli_read_prompt ==
    LET read == ReadWhole(<<>>)
    IN  Path(read.steps \o Call({"buf"}, <<"buf">>), {"buf"})

(****************************************************************************)
(* The commands.                                                            *)
(****************************************************************************)
tokenizer_encode == Closed(
    LET both == <<"tokenizer", "input">>
    IN  Call({}, <<>>) \o Get({"input"}, <<>>) \o Get({"tokenizer"}, <<"input">>)
        \o Call({"tokenizer", "input"}, both) \o Drop(both))

tokenizer_decode == Closed(
    LET both == <<"output", "tokenizer">>
    IN  Call({}, <<>>) \o Get({"tokenizer"}, <<>>)
        \o Call({"tokenizer"}, <<"tokenizer">>) \o Get({"output"}, both)
        \o Call({"tokenizer", "output"}, both) \o Use({"output"}) \o Drop(both))

(* Of the messages the first two stand for all.                             *)
chat_template_render == Closed(
    LET contents == <<"contents_0", "contents_1">>
        message(i) == Call({}, contents) \o Get({contents[i]}, contents)
        rendered == <<"output">> \o contents
    IN  Maybe(message(1) \o Maybe(message(2))) \o Call({}, contents)
        \o Get({"output"}, contents) \o Call({"output"}, rendered)
        \o Use({"output"}) \o Drop(rendered))

generate == Closed(
    LET both == <<"tokenizer", "input">>
        arrays == <<"generated_ids", "logits_checksums">>
        all == arrays \o <<"tokenizer">>
        Run == Call({"generated_ids", "logits_checksums", "tokenizer"}, all)
        decoded == <<"output">> \o all
    IN  Call({}, <<>>) \o Get({"tokenizer"}, <<>>)
        \o Call({"tokenizer"}, <<"tokenizer">>)
        \o Get({"input"}, <<"tokenizer">>) \o Call({"tokenizer", "input"}, both)
        \o Drop(<<"input">>) \o Call({"tokenizer"}, <<"tokenizer">>)
        \o Get({"generated_ids", "logits_checksums"}, all)
        \o Run \o Loop(Run) \o Run
        \o Get({"output"}, all) \o Call({"output", "tokenizer"}, decoded)
        \o Use({"output", "generated_ids", "logits_checksums"}) \o Drop(decoded))

prompt_state_loop_probe == Closed(
    LET both == <<"tokenizer", "input">>
    IN  Call({}, <<>>) \o Get({"input"}, <<>>) \o Get({"tokenizer"}, <<"input">>)
        \o Call({"tokenizer", "input"}, both) \o Drop(both) \o Call({}, <<>>))

create_from_gguf == Closed(
    LET copy == Get({"table"}, <<>>) \o Use({"table"}) \o Drop(<<"table">>)
    IN  Call({}, <<>>) \o Maybe(copy) \o Call({}, <<>>))

cache_run_expert == Closed(
    Maybe(Get({"owned_sequence"}, <<>>)) \o Call({}, <<"owned_sequence">>)
    \o Call({}, <<"owned_sequence">>) \o Drop(<<"owned_sequence">>))

(* The check of the arguments is behind the file's reading, and returns.    *)
cache_run == Closed(
    Maybe(Get({"owned_sequence"}, <<>>)) \o Call({}, <<>>)
    \o Call({}, <<"owned_sequence">>) \o Drop(<<"owned_sequence">>))

ServiceHandles == {"tokenizer", "table", "tensors", "token_index", "merge_index", "index"}

(* What can only be released as long as that through which it is reached is *)
(* held.                                                                    *)
ServiceReads ==
    [buffer \in {"device_logits", "device_activation", "device_weights"} |-> {"ctx"}]
    @@ [text \in {"text_1", "text_2", "text_3"} |-> {"symbols"}]

ServiceRoutines == [
    qx_gguf_inspect |-> qx_gguf_inspect,
    qx_gguf_load_tensor_table |-> qx_gguf_load_tensor_table,
    qx_gguf_export_tokenizer_tokens |-> qx_gguf_export_tokenizer_tokens,
    qx_tokenizer_load |-> qx_tokenizer_load,
    qx_tok_build_index |-> qx_tok_build_index,
    qx_tok_bpe_chunk |-> qx_tok_bpe_chunk,
    qx_tokenizer_encode |-> qx_tokenizer_encode,
    qx_cuda_final_head_create_q6_k_f32 |-> qx_cuda_final_head_create_q6_k_f32,
    qx_cuda_final_head_compute_f32 |-> qx_cuda_final_head_compute_f32,
    read_text_file |-> read_text_file,
    qx_cli_read_prompt |-> qx_cli_read_prompt,
    tokenizer_encode |-> tokenizer_encode,
    tokenizer_decode |-> tokenizer_decode,
    chat_template_render |-> chat_template_render,
    generate |-> generate,
    prompt_state_loop_probe |-> prompt_state_loop_probe,
    create_from_gguf |-> create_from_gguf,
    cache_run_expert |-> cache_run_expert]
==============================================================================
