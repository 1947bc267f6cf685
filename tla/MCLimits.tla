------------------------------ MODULE MCLimits ------------------------------
(***************************************************************************)
(* Instances of InputChunks.  `mem` and `mrb` buffer in memory, with and   *)
(* without pausing; `file` buffers in files and is paused when too many    *)
(* chunks are up; `sb` is the storage_backlog input.                       *)
(***************************************************************************)
EXTENDS InputChunks, TLC

RingAndFile == <<"mrb", "file", "sb">>
MemAndFile == <<"mem", "file", "sb">>
TwoOutputs == <<"o1", "o2">>
OneOutput == <<"o1">>

All == {"mem", "mrb", "file", "sb"}
MCKind == [i \in All |-> CASE i = "mem" -> "memory"
                           [] i = "mrb" -> "memrb"
                           [] OTHER -> "filesystem"]
ToO1 == [i \in All |-> {"o1"}]
FileToBoth == [i \in All |-> CASE i = "file" -> {"o1", "o2"} [] i = "mrb" -> {"o2"}
                               [] OTHER -> {"o1"}]
MCMemLimit == [i \in All |-> IF i = "sb" THEN 0 ELSE 2]
O1Limit == [o1 |-> 3, o2 |-> -1]
MCIds == [i \in All |-> CASE i = "file" -> 1 .. 2 [] i = "sb" -> 4 .. 5 [] OTHER -> 6 .. 7]
NoOld == <<>>
TwoOld == 4 :> 1 @@ 5 :> 1
FileWrote == [c \in {4, 5} |-> "file"]

==============================================================================
