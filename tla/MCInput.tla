------------------------------ MODULE MCInput ------------------------------
(***************************************************************************)
(* An instance of InputPipeline: `thr` runs in a thread of its own and     *)
(* buffers in memory; `sb` is the storage_backlog input, with nothing left *)
(* from an earlier run.                                                    *)
(***************************************************************************)
EXTENDS InputPipeline

MCInputs == <<"thr", "sb">>
MCOutputs == <<"o1">>
MCKind == [thr |-> "memory", sb |-> "filesystem"]
MCRoutes == [thr |-> {"o1"}, sb |-> {"o1"}]
MCMemLimit == [thr |-> 2, sb |-> 0]
NoLimit == [o1 |-> -1]
MCIds == [thr |-> 1 .. 2, sb |-> {3}]
NoOld == <<>>

==============================================================================
