------------------------------- MODULE AiPlan --------------------------------
(***************************************************************************)
(* The resource plan of src/src/ai.rs: what ai_hardware.rs observes of a   *)
(* Linux machine, the decision, and the bundle of ai_cli.rs that keeps it. *)
(* Byte counts are small: the bounds that the code has in MiB and GiB are  *)
(* constants.  A capacity that is not known is Unknown, never zero.        *)
(***************************************************************************)
EXTENDS Naturals, Sequences, FiniteSetsExt, Functions

CONSTANTS
  Unknown,
  Absent, Unlimited, Word,         \* what a file of a cgroup may be instead of a number
  MaxBytes,                        \* MAX_BYTES
  RamLow, RamHigh,                 \* 256 MiB and 2 GiB
  DeviceLow, DiskLow, DiskHigh,    \* 128 MiB, 64 MiB and 1 GiB
  Slack                            \* 4096

PlanConstants ==
  /\ {MaxBytes, RamLow, RamHigh, DeviceLow, DiskLow, DiskHigh, Slack} \subseteq Nat
  /\ Unknown \notin Nat

Amounts == Nat \union {Unknown}

Known(x) == x # Unknown
Bounded(x) == ~Known(x) \/ x <= MaxBytes
SatSub(a, b) == IF a > b THEN a - b ELSE 0
CeilDiv(a, b) == (a + b - 1) \div b
Clamp(x, low, high) == Max({low, Min({x, high})})

-----------------------------------------------------------------------------
(* What the kernel shows: meminfo; which kind of cgroup; the files of each *)
(* group from that of the process up to the mount; the address-space limit *)
(* and the use of it.                                                      *)
Groups ==
  LET content == Nat \union {Absent, Unlimited, Word}
  IN [max : content, high : content, usage : Amounts]
IsKernel(k) ==
  k \in [meminfo : {Unknown} \union (Nat \X Nat), membership : {"v2", "legacy", "none"}, standard : BOOLEAN,
         groups : Seq(Groups), rlimit : Amounts, virtual : Amounts, disk : Amounts, threads : Nat,
         cards : [DOMAIN k.cards -> [total : Amounts, used : Amounts]]]

Number(x) == x \notin {Absent, Unlimited, Word}

(* cgroup_limits: every group below the mount has memory.max; one value    *)
(* that cannot be read leaves all of them unknown.                         *)
Readable(group, mount) ==
  /\ mount \/ group.max # Absent
  /\ \A x \in {group.max, group.high} : x # Word /\ (Number(x) => x <= MaxBytes)
Resolved(groups) == \A i \in DOMAIN groups : Readable(groups[i], i = Len(groups))

(* linux, meminfo: RAM without a resolved cgroup is not known to be free;  *)
(* a limit is named by the group and the file it is read from.             *)
Observe(k) ==
  LET meminfo == IF Known(k.meminfo) /\ k.meminfo[2] <= k.meminfo[1] /\ k.meminfo[1] <= MaxBytes THEN k.meminfo
                 ELSE <<Unknown, Unknown>>
      settled == k.membership = "none" \/ (k.membership = "v2" /\ k.standard /\ Resolved(k.groups))
      groups == IF k.membership = "v2" /\ settled
                THEN {c \in (DOMAIN k.groups) \X {"max", "high"} : Number(k.groups[c[1]][c[2]])} ELSE {}
      process == IF Known(k.rlimit) /\ k.rlimit <= MaxBytes THEN {<<0, "rlimit">>} ELSE {}
  IN [total |-> meminfo[1], available |-> IF settled THEN meminfo[2] ELSE Unknown,
      limits |-> [c \in groups \union process |->
         IF c \in process THEN [limit |-> k.rlimit, used |-> k.virtual]
         ELSE [limit |-> k.groups[c[1]][c[2]], used |-> k.groups[c[1]].usage]],
      disk |-> IF Bounded(k.disk) THEN k.disk ELSE Unknown, threads |-> k.threads,
      devices |-> [d \in DOMAIN k.cards |->
         [unified |-> FALSE, total |-> k.cards[d].total, recommended |-> Unknown,
          available |-> IF Known(k.cards[d].total) /\ Known(k.cards[d].used) /\ k.cards[d].used <= k.cards[d].total
                          THEN k.cards[d].total - k.cards[d].used ELSE Unknown]]]

IsMachine(h) ==
  h \in [total : Amounts, available : Amounts, disk : Amounts, threads : Nat,
         limits : [DOMAIN h.limits -> [limit : Nat, used : Amounts]],
         devices : [DOMAIN h.devices -> [unified : BOOLEAN, total : Amounts, available : Amounts, recommended : Amounts]]]

Within(total, available) == Known(total) /\ Known(available) => available <= total
ValidHardware(h) ==
  /\ \A x \in {h.total, h.available, h.disk} : Bounded(x)
  /\ Within(h.total, h.available)
  /\ \A i \in DOMAIN h.limits : h.limits[i].limit <= MaxBytes /\ Bounded(h.limits[i].used)
  /\ \A d \in DOMAIN h.devices : /\ Within(h.devices[d].total, h.devices[d].available)
                                  /\ \A f \in {"total", "available", "recommended"} : Bounded(h.devices[d][f])

-----------------------------------------------------------------------------
IsRequest(r) ==
  r \in [device : {r.device}, method : {"full", "lora", "qlora"}, params : Nat, trainable : Nat, bits : Nat,
         batch : Nat, sequence : Nat, activation : Nat, attention : Nat, accumulation : Nat, runtime : Nat, host : Nat,
         quantization : Nat, extra : Nat, reserve_ram : Nat, reserve_device : Nat, reserve_disk : Nat, percent : Nat,
         headroom : Nat, max_memory : Amounts, max_device : Amounts, max_disk : Amounts]

Cpu(r) == r.device = "cpu"
ValidRequest(r) ==
  /\ r.params >= 1 /\ r.trainable \in 1..r.params /\ r.bits \in {4, 8, 16, 32}
  /\ r.batch >= 1 /\ r.sequence >= 1 /\ r.activation >= 1 /\ r.runtime >= 1
  /\ r.percent \in 1..80 /\ r.headroom \in 20..100
  /\ r.method = "full" => r.trainable = r.params /\ r.bits >= 16
  /\ r.method = "lora" => r.bits >= 16
  /\ IF r.method = "qlora" THEN r.bits <= 8 /\ r.quantization > 0 ELSE r.quantization = 0
  /\ Cpu(r) => ~Known(r.max_device) /\ r.reserve_device = 0
  /\ \A x \in {r.max_memory, r.max_device, r.max_disk, r.host} : Bounded(x)

(* The estimate.  Master weights are kept beside 16-bit and frozen ones.   *)
Base(r) == CeilDiv(r.params * r.bits, 8)
Master(r) == IF r.method = "full" /\ r.bits # 16 THEN 0 ELSE 4 * r.trainable
Gradients(r) == 4 * r.trainable
Adam(r) == 8 * r.trainable
Work(r) == Base(r) + Master(r) + Gradients(r) + Adam(r) + r.activation * r.batch * r.sequence
           + r.attention * r.batch + r.runtime + r.quantization
WithHeadroom(n, r) == CeilDiv(n * (100 + r.headroom), 100)
Training(r) == WithHeadroom(Work(r), r)
Host(r) == WithHeadroom(IF Cpu(r) THEN Work(r) + r.host ELSE r.host, r)
(* Two generations of a checkpoint, each with a tenth for its format.      *)
Checkpoint(r) ==
  LET weights == IF r.method = "full" THEN Base(r) + Master(r) ELSE 4 * r.trainable
  IN 2 * (CeilDiv((weights + Adam(r)) * 110, 100) + Slack)
DiskNeed(r) == Checkpoint(r) + r.extra

Found(h, r) == r.device \in DOMAIN h.devices
Unified(h, r) == Found(h, r) /\ h.devices[r.device].unified
RamNeed(h, r) == IF Unified(h, r) THEN Training(r) + Host(r) ELSE Host(r)
DeviceNeed(h, r) == IF Unified(h, r) THEN Training(r) + Host(r) ELSE Training(r)
Estimable(h, r) == \A n \in {Training(r), RamNeed(h, r), DiskNeed(r), r.batch * r.accumulation} : n <= MaxBytes

(* ram_budget: one limit whose use is not known leaves the rest unknown.   *)
(* Mutant: it is passed over.                                              *)
Remaining(h) == [i \in DOMAIN h.limits |-> IF Known(h.limits[i].used) THEN SatSub(h.limits[i].limit, h.limits[i].used) ELSE Unknown]
SkipUnused(h, r) == Known(h.total) /\ Known(h.available)
RamKnown(h, r) == Known(h.total) /\ Known(h.available) /\ \A i \in DOMAIN h.limits : Known(h.limits[i].used)
RamReserve(total, r) == Max({Clamp(total \div 4, RamLow, RamHigh), r.reserve_ram})
Cap(x, ceiling) == IF Known(x) /\ Known(ceiling) THEN Min({x, ceiling}) ELSE x
RamBudget(h, r) ==
  LET total == Min({h.total} \union {h.limits[i].limit : i \in DOMAIN h.limits})
      available == Min({h.available} \union {x \in Range(Remaining(h)) : Known(x)})
      reserve == RamReserve(total, r)
  IN IF ~RamKnown(h, r) THEN Unknown
     ELSE Cap(Min({SatSub(available, reserve), SatSub(total, reserve), (total * r.percent) \div 100}), r.max_memory)

DeviceReserve(total, r) == Max({total \div 10, DeviceLow, r.reserve_device})
DeviceBudget(h, r) ==
  LET d == h.devices[r.device]
      ram == RamBudget(h, r)
      free == IF d.unified
              THEN IF Known(ram) THEN SatSub(Cap(ram, d.recommended), r.reserve_device) ELSE Unknown
              ELSE IF Known(d.total) /\ Known(d.available)
                   THEN Min({SatSub(d.available, DeviceReserve(d.total, r)), SatSub(d.total, DeviceReserve(d.total, r))})
                   ELSE Unknown
  IN IF ~Found(h, r) THEN Unknown ELSE Cap(free, r.max_device)

DiskReserve(a, r) == Max({Clamp(a \div 4, DiskLow, DiskHigh), r.reserve_disk})
DiskBudget(h, r) == Cap(IF Known(h.disk) THEN SatSub(h.disk, DiskReserve(h.disk, r)) ELSE Unknown, r.max_disk)

(* A budget that is known and too small refuses; a ceiling refuses even    *)
(* when the capacity below it is unknown, and never admits.                *)
(* Mutant: where the capacity is unknown the ceiling stands for it.        *)
Exceeded(capacity, need) == Known(capacity) /\ need > capacity
CeilingAdmits(capacity, ceiling) == ~Known(capacity) /\ ~Known(ceiling)
Missing(capacity, ceiling) == ~Known(capacity)

Decision(h, r) ==
  LET needs == {<<RamBudget(h, r), RamNeed(h, r), r.max_memory>>, <<DiskBudget(h, r), DiskNeed(r), r.max_disk>>}
                 \union IF Cpu(r) THEN {} ELSE {<<DeviceBudget(h, r), DeviceNeed(h, r), r.max_device>>}
  IN IF (\E n \in needs : Exceeded(n[1], n[2]) \/ Exceeded(n[3], n[2])) \/ (~Cpu(r) /\ ~Found(h, r)) THEN "REFUSED"
     ELSE IF (\E n \in needs : Missing(n[1], n[3])) \/ h.threads = 0 THEN "INSUFFICIENT_INFORMATION"
     ELSE "WITHIN_ESTIMATED_BUDGET"

(* plan; "error" is one of them all.                                       *)
Plan(h, r) == IF ValidHardware(h) /\ ValidRequest(r) /\ Estimable(h, r) THEN Decision(h, r) ELSE "error"
Admits(h, r) == Plan(h, r) = "WITHIN_ESTIMATED_BUDGET"

-----------------------------------------------------------------------------
(* save_bundle: four files, one after the other, each of them new and      *)
(* whole; what there is after n of them.  A digest is what it is taken of. *)
Report(h, r) == [hardware |-> h, request |-> r, decision |-> Plan(h, r)]
Sealed(hardware, report, request) ==
  [decision |-> report.decision, files |-> <<hardware, report, request>>]
Order == <<"hardware", "plan", "request", "receipt">>
Written(h, r, n) ==
  LET files == [hardware |-> h, plan |-> Report(h, r), request |-> r, receipt |-> Sealed(h, Report(h, r), r)]
  IN [f \in {Order[i] : i \in 1..n} |-> files[f]]

(* verify_bundle: the four files, each as the receipt says, a plan that    *)
(* comes out of the two others again, and the receipt the caller expects,  *)
(* if any.  Mutant: the plan is believed.                                  *)
Believed(b) == b.receipt.decision = b.plan.decision
Reconstructed(b) ==
  /\ b.plan = Report(b.plan.hardware, b.plan.request) /\ b.plan.decision # "error"
  /\ b.plan.hardware = b.hardware /\ b.plan.request = b.request
  /\ b.receipt.decision = b.plan.decision
VerifyBundle(b, expected) ==
  /\ DOMAIN b = {"hardware", "plan", "request", "receipt"}
  /\ expected \subseteq {b.receipt}
  /\ b.receipt.files = <<b.hardware, b.plan, b.request>>
  /\ Reconstructed(b)

-----------------------------------------------------------------------------
(* An admitted plan fits into what every limit of the kernel leaves: RAM,  *)
(* each group of the process, its address space, the card and the disk,    *)
(* with the least reserve still free.                                      *)
FitsTheMachine(k, r) ==
  LET h == Observe(k)
      ram == RamNeed(h, r) + Max({RamLow, r.reserve_ram})
      groups == {g \in Range(k.groups) : k.membership = "v2"}
  IN Admits(h, r) =>
       /\ k.membership # "legacy" /\ Known(k.meminfo) /\ Known(k.disk)
       /\ RamNeed(h, r) > 0 =>
            /\ ram <= k.meminfo[2]
            /\ \A g \in groups, x \in {"max", "high"} :
                 g[x] \notin {Absent, Unlimited} => Known(g.usage) /\ ram + g.usage <= g[x]
            /\ Known(k.rlimit) /\ k.rlimit <= MaxBytes => Known(k.virtual) /\ ram + k.virtual <= k.rlimit
       /\ DiskNeed(r) + DiskLow <= k.disk
       /\ ~Cpu(r) => k.cards[r.device].used + Training(r) + DeviceLow <= k.cards[r.device].total

(* Knowing less, having less free, asking for more or allowing less never  *)
(* turns the refusal of a valid request, or an open question, into an      *)
(* admission.                                                              *)
Hidden(h) == {[h EXCEPT !.total = Unknown], [h EXCEPT !.available = Unknown], [h EXCEPT !.disk = Unknown], [h EXCEPT !.threads = 0]}
  \union {[h EXCEPT !.limits[i].used = Unknown] : i \in DOMAIN h.limits}
  \union {[h EXCEPT !.devices[d].available = Unknown] : d \in DOMAIN h.devices}
Fuller(h) == {[h EXCEPT ![f] = @ - 1] : f \in {g \in {"available", "disk"} : Known(h[g]) /\ h[g] > 0}}
  \union {[h EXCEPT !.limits[i].used = @ + 1] : i \in {j \in DOMAIN h.limits : Known(h.limits[j].used)}}
  \union {[h EXCEPT !.devices[d].available = @ - 1] : d \in {e \in DOMAIN h.devices : Known(h.devices[e].available) /\ h.devices[e].available > 0}}
Harder(r) == {[r EXCEPT ![f] = @ + 1] : f \in {"batch", "sequence", "runtime", "host", "extra", "reserve_ram", "reserve_disk"}}
  \union {[r EXCEPT ![f] = IF Known(@) THEN @ - 1 ELSE RamHigh] : f \in {g \in {"max_memory", "max_disk"} : r[g] # 0}}
NeverAdmittedByLess(h, r) ==
  ValidHardware(h) /\ ValidRequest(r) /\ ~Admits(h, r) =>
    /\ \A g \in Hidden(h) \union Fuller(h) : ~Admits(g, r)
    /\ \A s \in Harder(r) : ~Admits(h, s)

(* Files that somebody put together, under the first receipt or a new one. *)
Forged(h, r, other) ==
  {[hardware |-> g, plan |-> [Report(f, r) EXCEPT !.decision = d], request |-> q,
    receipt |-> [Sealed(h, Report(h, r), r) EXCEPT !.decision = e]] :
     d, e \in {Plan(h, r), "WITHIN_ESTIMATED_BUDGET"}, g, f \in {h, other}, q \in {r, [r EXCEPT !.batch = @ + 1]}}
Resealed(bundles) == {[b EXCEPT !.receipt.files = <<b.hardware, b.plan, b.request>>] : b \in bundles}

(* A bundle verifies when all of it is written and not before; one whose   *)
(* receipt was made anew for other files only if the plan in it is the     *)
(* plan for its hardware and request, and never against the first receipt. *)
BundleIsThePlan(h, r, n, other) ==
  LET whole == Written(h, r, 4)
  IN Plan(h, r) # "error" =>
       /\ VerifyBundle(Written(h, r, n), {}) <=> n = 4
       /\ n = 4 =>
            /\ VerifyBundle(whole, {whole.receipt})
            /\ \A b \in Forged(h, r, other) \union Resealed(Forged(h, r, other)) :
                 VerifyBundle(b, {}) => b.plan.decision = Plan(b.hardware, b.request)
                                        /\ (b # whole => ~VerifyBundle(b, {whole.receipt}))
=============================================================================
