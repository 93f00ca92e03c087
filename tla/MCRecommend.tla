----------------------------- MODULE MCRecommend -----------------------------
(***************************************************************************)
(* Constants for Recommend.  Bytes are about gigabytes and contexts units *)
(* of 4096 tokens.  Machines go from nothing known of them to a card that *)
(* holds everything; the catalogue has every shape of file the arithmetic *)
(* tells apart.                                                            *)
(***************************************************************************)
EXTENDS Recommend

MCLadder == <<1, 2, 4, 8>>
MCOverhead == [p \in GPUPaths \cup {"cpu"} |-> IF p = "cuda" THEN 1 ELSE 0]
MCPurposeContext == [p \in {"chat", "vision", "long_context"} |->
                        IF p = "long_context" THEN 8 ELSE 2]
MCPurposeFactor == <<10, 9, 8>>
MCFitFactor == [c \in {"fits_with_headroom", "fits", "needs_cpu_offload",
                       "reduced_context_only", "not_recommended", "unknown"} |->
                  CASE c = "fits_with_headroom" -> 10 [] c = "fits" -> 9
                    [] c = "needs_cpu_offload" -> 4 [] OTHER -> 0]
MCNeededRate == [p \in {"chat", "vision", "long_context"} |->
                    IF p = "long_context" THEN 40 ELSE 25]
MCSizeFactor == [b \in 1..30 |-> IF b < 3 THEN 1 ELSE IF b < 8 THEN 2 ELSE IF b < 20 THEN 3 ELSE 4]

NoGPU == [apple |-> FALSE, integrated |-> FALSE, integratedKnown |-> TRUE, vram |-> 0,
          vramKnown |-> FALSE, backend |-> "unknown", tooOld |-> FALSE, speed |-> 0]
Card(vram, path) == [NoGPU EXCEPT !.vram = vram, !.vramKnown = TRUE, !.backend = path, !.speed = 40]
Builtin == [NoGPU EXCEPT !.integrated = TRUE, !.backend = "vulkan"]
Apple == [NoGPU EXCEPT !.apple = TRUE, !.integrated = TRUE, !.backend = "metal", !.speed = 20]

Computer(ram, gpus, actual) ==
    [ram |-> ram, ramKnown |-> ram > 0, ramSpeed |-> 5, unified |-> FALSE,
     wired |-> 0, wiredKnown |-> FALSE, gpus |-> gpus, actual |-> actual]
Mac(ram, wired, actual) ==
    [Computer(ram, <<Apple>>, actual) EXCEPT !.unified = TRUE, !.wired = wired,
                                             !.wiredKnown = wired > 0]

Memories == {0, 1, 8, 20}
MCMachines ==
    {Computer(ram, <<Card(vram, "cuda")>>, NotSeen) : ram \in Memories, vram \in {3, 6, 10, 20}}
    \cup {Computer(ram, << >>, NotSeen) : ram \in Memories}
    \cup {Computer(ram, <<Builtin>>, "vulkan") : ram \in {8, 20}}
    \cup {Mac(8, 6, NotSeen), Mac(12, 9, "metal"), Mac(20, 15, "metal"), Mac(20, 0, NotSeen)}
    \cup {Computer(12, <<Card(10, path)>>, actual) :
              path \in {"none", "unknown", "vulkan"}, actual \in {NotSeen, "cpu", "vulkan"}}
    \cup {Computer(12, <<[Card(0, "cuda") EXCEPT !.vramKnown = FALSE, !.speed = 0]>>, NotSeen),
          Computer(12, <<Card(10, "cuda"), Card(6, "vulkan"), Builtin>>, NotSeen),
          Computer(20, <<[Card(10, "none") EXCEPT !.tooOld = TRUE]>>, NotSeen)}

File(id, bytes, full) ==
    [id |-> id, bytes |-> bytes, projector |-> 0, layers |-> 4, trained |-> 8, full |-> full,
     sliding |-> 0, window |-> 0, state |-> 0, active |-> 100, tables |-> FALSE, quant |-> 1]
Entry(id, family, purposes, billions, files) ==
    [id |-> id, family |-> family, purposes |-> purposes, billions |-> billions, files |-> files]

MCCatalogue == <<
    Entry(1, "a", <<"chat", "long_context">>, 8, <<File(11, 5, 1), [File(12, 9, 1) EXCEPT !.quant = 2]>>),
    Entry(2, "a", <<"chat", "long_context">>, 2, <<File(21, 2, 1)>>),
    Entry(3, "b", <<"long_context", "chat">>, 4,
          <<[File(31, 6, 0) EXCEPT !.sliding = 1, !.window = 2, !.active = 50, !.tables = TRUE]>>),
    Entry(4, "c", <<"vision", "chat">>, 7, <<[File(41, 4, 1) EXCEPT !.projector = 1, !.state = 1]>>),
    Entry(5, "d", <<"vision">>, 3, <<[File(51, 3, 1) EXCEPT !.trained = 2]>>),
    Entry(6, "e", <<"chat">>, 25, <<[File(61, 14, 1) EXCEPT !.active = 30, !.layers = 7]>>),
    Entry(7, "f", <<"chat">>, 9, <<[File(71, 5, 1) EXCEPT !.quant = 0]>>)>>
MCCatalogues == {MCCatalogue, << >>}

Model(name, bytes, entry, file) == [name |-> name, bytes |-> bytes, entry |-> entry, file |-> file]
MCInventories == {<< >>, <<Model(1, 9, 1, 12), Model(2, 2, 2, 0)>>,
                  <<Model(1, 6, 0, 0), Model(2, 4, 4, 41)>>}
MCMeasurements == {{[file |-> 21, ctx |-> 2, rate |-> 60]}}

Request(purposes, current, minContext, gpuOnly, allowSplit) ==
    [purposes |-> purposes, current |-> current, minContext |-> minContext,
     gpuOnly |-> gpuOnly, allowSplit |-> allowSplit]
MCRequests ==
    {Request(purposes, 0, min, split = "never", split = "allowed") :
         purposes \in {{}, {"vision"}, {"chat", "long_context"}}, min \in {0, 4},
         split \in {"never", "default", "allowed"}}
    \cup {Request({"chat"}, 2, 0, FALSE, FALSE)}

(* A user's smallest context need not be one of the ladder.                *)
MCRequestsAnyContext == {Request({"chat"}, 0, min, FALSE, FALSE) : min \in 0..8}
=============================================================================
