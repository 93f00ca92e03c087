------------------------------- MODULE Probes -------------------------------
(***************************************************************************)
(* Reading the graphics devices of a machine: files and nvidia-smi on      *)
(* Linux (internal/hardware/linuxprobe.go), one query and nvidia-smi on    *)
(* Windows (winprobe.go), system_profiler, sysctl and Metal on a Mac       *)
(* (macprobe.go).  Unknown is as in Devices.                               *)
(***************************************************************************)
EXTENDS Naturals, Sequences, FiniteSets, FiniteSetsExt, SequencesExt

Read(vendor, name, pci, bus, vram) ==
  [vendor |-> vendor, name |-> name, pci |-> pci, bus |-> bus, vram |-> vram, integrated |-> "unknown", gfx |-> "",
   compute |-> << >>, version |-> << >>, driver |-> "", missing |-> FALSE, problem |-> 0, backend |-> "", actionable |-> FALSE]

(* queryNvidiaSMI and parseNvidiaSMI: a driver that does not know the      *)
(* compute capability is asked without it; a line of another shape, an     *)
(* error or no line at all is no answer.                                   *)
NoAnswer == [ok |-> FALSE, gpus |-> << >>]
FromSMI(line, asked) ==
  [Read("nvidia", line.name, line.pci, line.bus, line.vram) EXCEPT
     !.version = line.version, !.compute = IF asked THEN line.compute ELSE << >>]
Answered(smi, asked) ==
  IF smi.lines = << >> \/ smi.odd THEN NoAnswer
  ELSE [ok |-> TRUE, gpus |-> [i \in DOMAIN smi.lines |-> FromSMI(smi.lines[i], asked)]]
QueryNvidiaSMI(smi) ==
  IF ~smi.found \/ smi.silent THEN NoAnswer ELSE Answered(smi, ~smi.old)

-----------------------------------------------------------------------------
(* Linux.  A device's memory is in the first of its files that states it.  *)
FirstStated(amounts) ==
  LET stated == {i \in DOMAIN amounts : amounts[i] > 0} IN IF stated = {} THEN 0 ELSE amounts[Min(stated)]
AmdgpuIntegrated(d, most, least) ==
  LET vram == FirstStated(d.files)
  IN IF d.driver # "amdgpu" THEN "unknown"
     ELSE IF d.marker THEN "no"
     ELSE IF vram > 0 /\ vram <= most /\ d.gtt >= least /\ d.gtt >= 4 * vram THEN "yes" ELSE "unknown"

(* kfdGFXTargets: a node's device is at its location, its target in the    *)
(* digits of its version.                                                  *)
KfdAddress(location) == <<(location \div 256) % 256, (location \div 8) % 32, location % 8>>
GfxFromKFD(v) ==
  IF v \div 10000 = 0 \/ (v \div 100) % 100 > 15 \/ v % 100 > 15 THEN << >>
  ELSE <<v \div 10000, (v \div 100) % 100, v % 100>>

(* lookupPCINames: the lines of pci.ids up to the classes.                 *)
(* A bug: the classes' lines are read like the names'.                     *)
NeverEnds(line) == FALSE
Ends(line) == line.kind = "class"
PCILine(s, line) ==
  IF s.over THEN s
  ELSE CASE Ends(line) -> [s EXCEPT !.over = TRUE]
         [] line.kind = "vendor" -> [s EXCEPT !.vendor = line.id, !.device = ""]
         [] line.kind = "device" ->
              IF s.vendor = "" THEN s
              ELSE [s EXCEPT !.device = line.id,
                             !.names = @ \cup {[key |-> <<s.vendor, line.id>>, name |-> line.name]}]
         [] OTHER ->
              IF s.vendor = "" \/ s.device = "" THEN s
              ELSE [s EXCEPT !.names = @ \cup {[key |-> <<s.vendor, s.device, line.id>>, name |-> line.name]}]
PCINames(lines) ==
  FoldLeft(LAMBDA s, line : PCILine(s, line), [over |-> FALSE, vendor |-> "", device |-> "", names |-> {}], lines).names

IsShown(d) == d.vendor \notin {"unknown", "apple"}
FromPCI(d) ==
  [Read(d.vendor, d.name, d.pci, d.bus, FirstStated(d.files)) EXCEPT
     !.integrated = AmdgpuIntegrated(d, 16, 32), !.gfx = IF d.vendor = "amd" THEN d.gfx ELSE "",
     !.version = IF d.driver = "nvidia" THEN d.version ELSE << >>,
     !.driver = IF d.driver = "" THEN "none" ELSE d.driver, !.missing = d.driver = ""]

(* Of nvidia-smi's cards not yet used, the first at the device's address   *)
(* or without one is the device.                                           *)
(* A bug: any that is left is taken.                                       *)
MatchesAny(s, d) == TRUE
Matches(s, d) == s.bus \in {"", d.bus}
WithSMI(s, g) ==
  [s EXCEPT !.driver = g.driver, !.pci = IF @ = "" THEN g.pci ELSE @, !.bus = g.bus]
Merge(acc, d, smi) ==
  LET free == {i \in DOMAIN smi \ acc.used : Matches(smi[i], d)}
  IN IF ~IsShown(d) THEN acc
     ELSE IF d.vendor # "nvidia" \/ free = {} THEN [acc EXCEPT !.out = Append(@, FromPCI(d))]
     ELSE [out |-> Append(acc.out, WithSMI(smi[Min(free)], FromPCI(d))), used |-> acc.used \cup {Min(free)}]
LinuxGPUs(devs, smi) ==
  LET merged == FoldLeft(LAMBDA acc, d : Merge(acc, d, smi), [out |-> << >>, used |-> {}], devs)
      left == SelectSeq([i \in DOMAIN smi |-> <<i, smi[i]>>], LAMBDA e : e[1] \notin merged.used)
  IN merged.out \o [i \in DOMAIN left |-> [left[i][2] EXCEPT !.driver = "nvidia"]]

(* detectLinux: the list was read when the bus was, or nvidia-smi answered.*)
Linux(m) ==
  LET answer == QueryNvidiaSMI(m.smi)
  IN [os |-> "linux", arch |-> m.arch, release |-> << >>, cpu |-> m.cpu, ram |-> m.ram, unified |-> FALSE, budget |-> 0,
      listRead |-> m.bus \/ answer.ok, gpus |-> LinuxGPUs(IF m.bus THEN m.devices ELSE << >>, answer.gpus)]

-----------------------------------------------------------------------------
(* Windows.  The vendor is the device id's, else the text's.               *)
VendorOf(byId, byText) == IF byId # "unknown" THEN byId ELSE byText
IsAdapter(a) ==
  ~a.virtual /\ a.pnp \in {"PCI", "ACPI"} /\ VendorOf(a.byId, a.byText) # "unknown"
FromAdapter(a) ==
  [Read(VendorOf(a.byId, a.byText), a.name, a.pci, "", IF a.basic THEN 0 ELSE a.vram) EXCEPT
     !.version = IF a.byId = "nvidia" THEN a.version ELSE << >>,
     !.missing = a.basic \/ a.code = 28, !.problem = a.code]

(* mergeWindowsGPUs: the first adapter of the same id lends its state.     *)
SameCard(s, r) == r.vendor = "nvidia" /\ ~r.missing /\ (s.pci = "" \/ r.pci = "" \/ s.pci = r.pci)
(* A bug: each is listed by the registry too.                              *)
LendTwice(acc, s, registry) == [acc EXCEPT !.out = Append(@, s)]
Lend(acc, s, registry) ==
  LET free == {i \in DOMAIN registry \ acc.used : SameCard(s, registry[i])}
  IN IF free = {} THEN [acc EXCEPT !.out = Append(@, s)]
     ELSE [out |-> Append(acc.out, [s EXCEPT !.problem = registry[Min(free)].problem]), used |-> acc.used \cup {Min(free)}]
WindowsGPUs(adapters, smi) ==
  LET real == SelectSeq(adapters, IsAdapter)
      registry == [i \in DOMAIN real |-> FromAdapter(real[i])]
      lent == FoldLeft(LAMBDA acc, s : Lend(acc, s, registry), [out |-> << >>, used |-> {}], smi)
      left == SelectSeq([i \in DOMAIN registry |-> <<i, registry[i]>>], LAMBDA e : e[1] \notin lent.used)
  IN lent.out \o [i \in DOMAIN left |-> left[i][2]]

(* detectWindows: without the query there is no adapter, and without an    *)
(* adapter the query failed.  Under emulation the machine is what counts.  *)
Windows(m) ==
  LET answer == QueryNvidiaSMI(m.smi)
      adapters == IF m.probed THEN m.adapters ELSE << >>
  IN [os |-> "windows", arch |-> IF m.probed /\ m.cpuArch = "arm64" THEN "arm64" ELSE m.arch,
      release |-> IF m.probed THEN m.release ELSE << >>, cpu |-> IF m.probed THEN m.cpu ELSE "", ram |-> IF m.probed THEN m.ram ELSE 0,
      unified |-> FALSE, budget |-> 0, listRead |-> adapters # << >> \/ answer.ok, gpus |-> WindowsGPUs(adapters, answer.gpus)]

-----------------------------------------------------------------------------
(* Macs.                                                                   *)
FromDisplay(d) ==
  LET vendor == VendorOf(d.byId, d.byText)
      vram == IF vendor = "apple" THEN 0 ELSE FirstStated(<<d.vram, d.shared>>)
  IN [Read(vendor, d.name, d.pci, "", vram) EXCEPT
        !.integrated = IF vendor = "apple" \/ d.at = "builtin" \/ (d.vram = 0 /\ d.shared > 0) THEN "yes"
                       ELSE IF d.at # "" THEN "no" ELSE "unknown"]
IsAppleSilicon(m) == m.arm64 \/ m.arch = "arm64"

(* The memory the graphics may use: what was set, else what Metal says.    *)
GPUUsable(m) == IF m.wired > 0 THEN m.wired ELSE m.metal
Mac(m) ==
  [os |-> "darwin", arch |-> IF IsAppleSilicon(m) THEN "arm64" ELSE m.arch, release |-> m.release, cpu |-> m.cpu, ram |-> m.ram,
   unified |-> IsAppleSilicon(m), budget |-> IF IsAppleSilicon(m) THEN GPUUsable(m) ELSE 0,
   listRead |-> m.profiled /\ m.displays # << >>,
   gpus |-> IF m.profiled THEN [i \in DOMAIN m.displays |-> FromDisplay(m.displays[i])] ELSE << >>]

-----------------------------------------------------------------------------
(* Where the models are kept: the first place that is stated or there.     *)
(* A bug: the system's as soon as the system has the runtime.              *)
LinuxModelsDirOfSystem(m) ==
  IF m.env # "" THEN m.env ELSE IF m.there \cap {"system", "unit"} # {} THEN "system/models" ELSE m.home
LinuxModelsDir(m) ==
  IF m.env # "" THEN m.env
  ELSE IF m.service # << >> /\ Last(m.service) # "" THEN Last(m.service)
  ELSE IF "system/models" \in m.there THEN "system/models"
  ELSE IF m.home = "" THEN IF "system" \in m.there THEN "system/models" ELSE "unknown"
  ELSE IF m.home \in m.there THEN m.home
  ELSE IF m.there \cap {"system", "unit"} # {} THEN "system/models" ELSE m.home

(* detectStorage: the free space is that of the nearest folder there is.   *)
Nearest(path, there) ==
  SubSeq(path, 1, Max({0} \cup {n \in DOMAIN path : SubSeq(path, 1, n) \in there}))
-----------------------------------------------------------------------------
(* A reference for pci.ids: what stands between a key's line and the next  *)
(* of its kind.                                                            *)
NamesAreOfTheirSection(lines) ==
  LET classes == {i \in DOMAIN lines : lines[i].kind = "class"}
      end == IF classes = {} THEN Len(lines) + 1 ELSE Min(classes)
      above(i, kinds) == {j \in 1..(i - 1) : lines[j].kind \in kinds}
      vendor(i) == lines[Max(above(i, {"vendor"}))].id
      known(i) == i < end /\ above(i, {"vendor"}) # {}
      devices == {[key |-> <<vendor(i), lines[i].id>>, name |-> lines[i].name] :
                    i \in {j \in DOMAIN lines : lines[j].kind = "device" /\ known(j)}}
      parent(i) == Max(above(i, {"vendor", "device"}))
      subs == {[key |-> <<vendor(i), lines[parent(i)].id, lines[i].id>>, name |-> lines[i].name] :
                 i \in {j \in DOMAIN lines : lines[j].kind = "sub" /\ known(j) /\ lines[parent(j)].kind = "device"}}
  IN PCINames(lines) = devices \cup subs

(* Unless someone said where, a folder of models that is there is not      *)
(* passed over for one that is not.                                        *)
FolderIsThere(m) ==
  m.env = "" /\ (m.service = << >> \/ Last(m.service) = "") /\ m.there \cap {"system/models", m.home} # {} =>
    LinuxModelsDir(m) \in m.there

(* A target's name is of one version, and an address of one device.        *)
TargetsDiffer(versions, locations) ==
  /\ \A v, w \in versions : GfxFromKFD(v) = GfxFromKFD(w) /\ GfxFromKFD(v) # << >> => v = w
  /\ \A k, l \in locations : KfdAddress(k) = KfdAddress(l) => k = l
=============================================================================
