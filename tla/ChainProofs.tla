----------------------------- MODULE ChainProofs ----------------------------
(***************************************************************************)
(* For every number of starts and visits, every kernel and every set of    *)
(* tools that fail: what runs in a guest is confined and configured, as    *)
(* long as no program of the guest exits with 254, which the chbind script *)
(* takes for an answer of ncontext.                                        *)
(***************************************************************************)
EXTENDS Chain, TLAPS

Migrate == "migrate" \in kernel
Vnet    == "vnet" \in kernel

\* The order of the tools: in every chain the numbers increase.
Rank(t) ==
    CASE t = "ncontext-create" -> 1   [] t = "nattribute" -> 2
      [] t \in {"naddress", "ncontext-migrate", "chbind-compat"} -> 3
      [] t = "exec-ulimit" -> 4
      [] t \in {"vtag-create", "vspace-enter"} -> 5
      [] t \in {"vspace-new", "vtag-migrate"} -> 6
      [] t \in {"vcontext-create", "chcontext-compat"} -> 7
      [] t = "vspace-set" -> 8        [] t = "exec-remount" -> 9
      [] t = "vlimit" -> 10           [] t = "vsched" -> 11
      [] t = "vsysctl" -> 12          [] t = "vuname-dir" -> 13
      [] t = "vmemctrl" -> 14         [] t = "vuname-context" -> 15
      [] t = "vattribute" -> 16       [] t = "save_ctxinfo" -> 17
      [] t = "env" -> 18              [] t \in {"vcontext-self", "chain-echo"} -> 19
      [] OTHER -> 20

Elems(s)   == {s[i] : i \in 1 .. Len(s)}
Ordered(s) == \A i, j \in 1 .. Len(s) : i < j => Rank(s[i]) < Rank(s[j])

\* The tools that process p has before it.
Left(p) == Elems(proc[p].todo)
On(p)   == proc[p].mode # "idle"
Past(p, tools) == On(p) /\ tools \cap Left(p) = {}

Required == Configure \ Tolerant

\* The tools of a start, of a visitor and of both.
NetPlan == IF Vnet THEN {"ncontext-create", "ncontext-migrate", "nattribute", "naddress"}
                   ELSE {"chbind-compat"}
Plan(p) ==
    NetPlan \cup
    (IF p = "visit" THEN {"exec-ulimit", "vspace-enter", "vtag-migrate", "vcontext-migrate"}
     ELSE IF Migrate THEN {"exec-ulimit", "vtag-create", "vspace-new", "vcontext-create",
                           "exec-remount", "save_ctxinfo", "env", "vcontext-self"} \cup Configure
     ELSE {"exec-ulimit", "chcontext-compat", "save_ctxinfo", "env", "chain-echo", "capchroot"})

Confinement == [nid : Nat, xid : Nat, tag : BOOLEAN, ns : Nat, root : BOOLEAN, env : BOOLEAN]

State == [mode : {"idle", "chain", "guest"}, todo : Seq(Tools), script : BOOLEAN,
          is : Confinement, found : Nat, execs : Nat, rc : 0 .. 255]

Typed ==
    /\ kernel \subseteq {"migrate", "vnet", "pptag"}
    /\ (Vnet => Migrate) /\ ("pptag" \in kernel => Vnet)
    /\ proc \in [Process -> State]
    /\ ctx \in [gen : Nat, setup : BOOLEAN, conf : SUBSET Configure, spaces : Nat]
    /\ net \in [gen : Nat, conf : SUBSET NetConfigure]
    /\ runfile \in Nat /\ starts \in 0 .. MaxStarts /\ visits \in 0 .. MaxVisits
    /\ outlived \in BOOLEAN /\ ctx.spaces <= starts

\* The chain of a process, and which one it is.
Shape(p) ==
    /\ proc[p].mode = "idle" => proc[p].is = Host /\ proc[p].found = 0 /\ ~proc[p].script
    /\ proc[p].mode = "chain" => proc[p].todo # << >> /\ p # "daemon"
    /\ proc[p].mode # "chain" => Left(p) = {}
    /\ Ordered(proc[p].todo) /\ Left(p) \subseteq Plan(p)
    /\ proc[p].script => Vnet /\ "ncontext-migrate" \notin Left(p)
    /\ Vnet /\ ~proc[p].script =>
          {"ncontext-create", "nattribute", "naddress"} \cap Left(p) = {}
    /\ \A t \in Left(p), u \in Plan(p) \ {"ncontext-migrate"} :
          Rank(t) < Rank(u) => u \in Left(p)
    /\ p = "start" => proc[p].found = 0
    /\ p = "visit" /\ On(p) => proc[p].found # 0
    /\ p = "daemon" => ~proc[p].script
    /\ proc[p].found <= ctx.gen

\* Every tool that the process has behind it did its work, and no other process
\* undid it.
Place(p) ==
    LET is == proc[p].is
    IN  /\ is.nid <= net.gen /\ (Vnet => is.nid \in {0, net.gen})
        /\ is.xid \in {0, ctx.gen} /\ is.ns <= starts /\ (~Migrate => is.ns = 0)
        /\ Past(p, {"ncontext-create", "ncontext-migrate", "chbind-compat"}) => is.nid # 0
        /\ Past(p, {"vcontext-create", "chcontext-compat", "vcontext-migrate"}) => is.xid # 0
        /\ is.xid # 0 => On(p) /\ is.nid # 0 /\ \A t \in Left(p) : Rank(t) > 7
        /\ p = "visit" /\ proc[p].mode = "chain" => is.xid = 0
        /\ Past(p, {"vtag-create", "vtag-migrate"}) /\ "pptag" \in kernel => is.tag
        /\ Past(p, {"vspace-new", "vspace-enter"}) /\ Migrate => is.ns # 0
        /\ Past(p, {"vcontext-self", "capchroot", "vcontext-migrate"}) => is.root
        /\ proc[p].found = 0 /\ Past(p, {"env"}) => is.env
        /\ proc[p].found = 0 /\ Migrate /\ Past(p, {"vcontext-self"}) => ~ctx.setup

\* Of one incarnation: what the start has behind it is done, and a visitor came
\* when all was.
Made(p) ==
    Migrate =>
        /\ proc[p].found = 0 => \A t \in Required : Past(p, {t}) => t \in ctx.conf
        /\ proc[p].found = 0 /\ Past(p, {"vspace-set"}) => proc[p].is.ns = ctx.spaces
        /\ proc[p].found # 0 /\ proc[p].found = ctx.gen =>
              /\ Required \subseteq ctx.conf
              /\ Past(p, {"vspace-enter"}) => proc[p].is.ns = ctx.spaces

\* The start configures the context; nobody has found it yet.
Building == Migrate /\ proc["start"].is.xid # 0 /\ "save_ctxinfo" \in Left("start")

BuildInv ==
    Building => \A p \in Process \ {"start"} :
                    /\ proc[p].found = 0 \/ proc[p].found # ctx.gen
                    /\ proc[p].is.xid # 0 => proc[p].found # 0

RunInv ==
    /\ runfile # 0 => runfile = ctx.gen /\ (Migrate => Required \subseteq ctx.conf)
    /\ "save_ctxinfo" \in Left("start") => runfile = 0
    /\ ~Migrate => ~ctx.setup /\ ctx.spaces = 0

\* The network context is configured, or the start does it and is alone in it.
NetMade ==
    \/ net.conf = NetConfigure
    \/ /\ proc["start"].is.nid = net.gen /\ NetConfigure \subseteq net.conf \cup Left("start")
       /\ \A p \in Process \ {"start"} : proc[p].is.nid # net.gen

NetInv ==
    /\ ~Vnet /\ net.gen # 0 => net.conf = NetConfigure
    /\ ~outlived =>
          /\ ~Late
          /\ Vnet /\ proc["visit"].script => "ncontext-create" \in Left("visit")
          /\ Vnet /\ NetThere => NetMade

\* A start has executed its program when that runs, and it was counted.
StartInv ==
    /\ proc["start"].execs = IF proc["start"].mode = "guest" THEN 1 ELSE 0
    /\ On("start") => starts # 0

IInv == /\ Typed /\ BuildInv /\ RunInv /\ NetInv /\ StartInv
        /\ \A p \in Process : Shape(p) /\ Place(p) /\ Made(p)

-----------------------------------------------------------------------------
(* Chains as sequences.                                                    *)

\* The tools by their numbers.
LEMMA Ranks ==
    /\ Rank("ncontext-create") = 1 /\ Rank("nattribute") = 2
    /\ Rank("naddress") = 3 /\ Rank("ncontext-migrate") = 3 /\ Rank("chbind-compat") = 3
    /\ Rank("exec-ulimit") = 4 /\ Rank("vtag-create") = 5 /\ Rank("vspace-enter") = 5
    /\ Rank("vspace-new") = 6 /\ Rank("vtag-migrate") = 6
    /\ Rank("vcontext-create") = 7 /\ Rank("chcontext-compat") = 7
    /\ Rank("vspace-set") = 8 /\ Rank("exec-remount") = 9 /\ Rank("vlimit") = 10
    /\ Rank("vsched") = 11 /\ Rank("vsysctl") = 12 /\ Rank("vuname-dir") = 13
    /\ Rank("vmemctrl") = 14 /\ Rank("vuname-context") = 15 /\ Rank("vattribute") = 16
    /\ Rank("save_ctxinfo") = 17 /\ Rank("env") = 18
    /\ Rank("vcontext-self") = 19 /\ Rank("chain-echo") = 19
    /\ Rank("vcontext-migrate") = 20 /\ Rank("capchroot") = 20
BY DEF Rank

\* Numbers of tools can be compared.
LEMMA RankIsNat == \A t : Rank(t) \in 1 .. 20
BY DEF Rank

\* One tool is executed: it is behind, the others stay in their order.
LEMMA OneLess ==
    ASSUME NEW s \in Seq(Tools), s # << >>
    PROVE  /\ Head(s) \in Tools /\ Tail(s) \in Seq(Tools)
           /\ Elems(s) = {Head(s)} \cup Elems(Tail(s))
           /\ Tail(s) = << >> <=> Elems(Tail(s)) = {}
           /\ Ordered(s) => /\ Ordered(Tail(s)) /\ Head(s) \notin Elems(Tail(s))
                            /\ \A t \in Elems(Tail(s)) : Rank(Head(s)) < Rank(t)
<1>1. /\ Len(s) \in Nat /\ Len(s) >= 1 /\ Head(s) = s[1] /\ Head(s) \in Tools
      /\ Tail(s) \in Seq(Tools) /\ Len(Tail(s)) = Len(s) - 1
      /\ \A i \in 1 .. Len(Tail(s)) : Tail(s)[i] = s[i + 1]
  OBVIOUS
<1>2. Elems(s) = {Head(s)} \cup Elems(Tail(s))
  <2>1. ASSUME NEW i \in 1 .. Len(s) PROVE s[i] \in {Head(s)} \cup Elems(Tail(s))
    <3>1. CASE i = 1
      BY <1>1, <3>1
    <3>2. CASE i # 1
      <4>1. i - 1 \in 1 .. Len(Tail(s)) /\ Tail(s)[i - 1] = s[i]
        BY <1>1, <3>2
      <4> QED
        BY <4>1 DEF Elems
    <3> QED
      BY <3>1, <3>2
  <2>2. ASSUME NEW i \in 1 .. Len(Tail(s)) PROVE Tail(s)[i] \in Elems(s)
    <3>1. i + 1 \in 1 .. Len(s) /\ Tail(s)[i] = s[i + 1]
      BY <1>1
    <3> QED
      BY <3>1 DEF Elems
  <2>3. Head(s) \in Elems(s)
    <3>1. 1 \in 1 .. Len(s) /\ Head(s) = s[1]
      BY <1>1
    <3> QED
      BY <3>1 DEF Elems
  <2> QED
    BY <2>1, <2>2, <2>3 DEF Elems
<1>3. Tail(s) = << >> <=> Elems(Tail(s)) = {}
  <2>1. Tail(s) = << >> => 1 .. Len(Tail(s)) = {}
    BY <1>1
  <2>2. Tail(s) # << >> => 1 \in 1 .. Len(Tail(s))
    BY <1>1
  <2> QED
    BY <2>1, <2>2 DEF Elems
<1>4. ASSUME Ordered(s)
      PROVE  /\ Ordered(Tail(s)) /\ Head(s) \notin Elems(Tail(s))
             /\ \A t \in Elems(Tail(s)) : Rank(Head(s)) < Rank(t)
  <2>1. Ordered(Tail(s))
    <3> SUFFICES ASSUME NEW i \in 1 .. Len(Tail(s)), NEW j \in 1 .. Len(Tail(s)), i < j
                 PROVE  Rank(Tail(s)[i]) < Rank(Tail(s)[j])
      BY DEF Ordered
    <3>1. /\ i + 1 \in 1 .. Len(s) /\ j + 1 \in 1 .. Len(s) /\ i + 1 < j + 1
          /\ Tail(s)[i] = s[i + 1] /\ Tail(s)[j] = s[j + 1]
      BY <1>1
    <3> QED
      BY <1>4, <3>1 DEF Ordered
  <2>2. \A t \in Elems(Tail(s)) : Rank(Head(s)) < Rank(t)
    <3> SUFFICES ASSUME NEW i \in 1 .. Len(Tail(s)) PROVE Rank(Head(s)) < Rank(Tail(s)[i])
      BY DEF Elems
    <3>1. 1 \in 1 .. Len(s) /\ i + 1 \in 1 .. Len(s) /\ 1 < i + 1 /\ Tail(s)[i] = s[i + 1]
      BY <1>1
    <3> QED
      BY <1>1, <1>4, <3>1 DEF Ordered
  <2> QED
    BY <2>1, <2>2, RankIsNat
<1> QED
  BY <1>1, <1>2, <1>3, <1>4

\* Two chains in one command line, the lower numbers first.
LEMMA Chained ==
    ASSUME NEW a \in Seq(Tools), NEW b \in Seq(Tools), Ordered(a), Ordered(b),
           \A x \in Elems(a), y \in Elems(b) : Rank(x) < Rank(y)
    PROVE  /\ a \o b \in Seq(Tools) /\ Ordered(a \o b) /\ Elems(a \o b) = Elems(a) \cup Elems(b)
<1>1. /\ a \o b \in Seq(Tools) /\ Len(a \o b) = Len(a) + Len(b)
      /\ Len(a) \in Nat /\ Len(b) \in Nat
      /\ \A i \in 1 .. Len(a) : (a \o b)[i] = a[i]
      /\ \A i \in 1 .. Len(b) : (a \o b)[Len(a) + i] = b[i]
  OBVIOUS
<1>2. \A i \in 1 .. Len(a \o b) :
         \/ i \in 1 .. Len(a) /\ (a \o b)[i] = a[i]
         \/ i - Len(a) \in 1 .. Len(b) /\ (a \o b)[i] = b[i - Len(a)]
  <2> SUFFICES ASSUME NEW i \in 1 .. Len(a \o b), i \notin 1 .. Len(a)
               PROVE  i - Len(a) \in 1 .. Len(b) /\ (a \o b)[i] = b[i - Len(a)]
    BY <1>1
  <2>1. i - Len(a) \in 1 .. Len(b) /\ Len(a) + (i - Len(a)) = i
    BY <1>1
  <2> QED
    BY <1>1, <2>1
<1>3. Elems(a \o b) = Elems(a) \cup Elems(b)
  <2>1. Elems(a \o b) \subseteq Elems(a) \cup Elems(b)
    BY <1>2 DEF Elems
  <2>2. Elems(a) \subseteq Elems(a \o b)
    <3> SUFFICES ASSUME NEW i \in 1 .. Len(a) PROVE a[i] \in Elems(a \o b)
      BY DEF Elems
    <3>1. i \in 1 .. Len(a \o b) /\ (a \o b)[i] = a[i]
      BY <1>1
    <3> QED
      BY <3>1 DEF Elems
  <2>3. Elems(b) \subseteq Elems(a \o b)
    <3> SUFFICES ASSUME NEW i \in 1 .. Len(b) PROVE b[i] \in Elems(a \o b)
      BY DEF Elems
    <3>1. Len(a) + i \in 1 .. Len(a \o b) /\ (a \o b)[Len(a) + i] = b[i]
      BY <1>1
    <3> QED
      BY <3>1 DEF Elems
  <2> QED
    BY <2>1, <2>2, <2>3
<1>4. Ordered(a \o b)
  <2> SUFFICES ASSUME NEW i \in 1 .. Len(a \o b), NEW j \in 1 .. Len(a \o b), i < j
               PROVE  Rank((a \o b)[i]) < Rank((a \o b)[j])
    BY DEF Ordered
  <2>1. CASE j \in 1 .. Len(a)
    <3>1. i \in 1 .. Len(a)
      BY <1>1, <2>1
    <3> QED
      BY <1>1, <2>1, <3>1 DEF Ordered
  <2>2. CASE i \notin 1 .. Len(a)
    <3>1. /\ i - Len(a) \in 1 .. Len(b) /\ j - Len(a) \in 1 .. Len(b) /\ i - Len(a) < j - Len(a)
          /\ (a \o b)[i] = b[i - Len(a)] /\ (a \o b)[j] = b[j - Len(a)]
      BY <1>1, <1>2, <2>2
    <3> QED
      BY <3>1 DEF Ordered
  <2>3. CASE i \in 1 .. Len(a) /\ j \notin 1 .. Len(a)
    <3>1. (a \o b)[i] \in Elems(a) /\ (a \o b)[j] \in Elems(b)
      BY <1>1, <1>2, <2>3 DEF Elems
    <3> QED
      BY <3>1
  <2> QED
    BY <2>1, <2>2, <2>3
<1> QED
  BY <1>1, <1>3, <1>4

Compat == <<"exec-ulimit", "chcontext-compat", "save_ctxinfo", "env", "chain-echo", "capchroot">>

\* The chain of scripts/vserver.suexec behind chbind.
LEMMA VisitChain ==
    /\ VisitTools \in Seq(Tools) /\ Ordered(VisitTools)
    /\ Elems(VisitTools) = {"exec-ulimit", "vspace-enter", "vtag-migrate", "vcontext-migrate"}
    /\ \A t \in Elems(VisitTools) : Rank(t) > 3
<1>1. VisitTools \in Seq(Tools)
  BY DEF VisitTools, Tools
<1>2. /\ Len(VisitTools) = 4 /\ VisitTools[1] = "exec-ulimit" /\ VisitTools[2] = "vspace-enter"
      /\ VisitTools[3] = "vtag-migrate" /\ VisitTools[4] = "vcontext-migrate"
      /\ \A i \in 1 .. 4 : i = 1 \/ i = 2 \/ i = 3 \/ i = 4
  BY DEF VisitTools
<1>3. Elems(VisitTools) = {"exec-ulimit", "vspace-enter", "vtag-migrate", "vcontext-migrate"}
  BY <1>2 DEF Elems
<1>4. Ordered(VisitTools)
  BY <1>2, Ranks DEF Ordered
<1> QED
  BY <1>1, <1>3, <1>4, Ranks

\* The chain of scripts/vserver.start behind chbind, for a kernel that cannot migrate.
LEMMA CompatChain ==
    /\ Compat \in Seq(Tools) /\ Ordered(Compat)
    /\ Elems(Compat) = {"exec-ulimit", "chcontext-compat", "save_ctxinfo", "env", "chain-echo",
                        "capchroot"}
    /\ \A t \in Elems(Compat) : Rank(t) > 3
<1>1. Compat \in Seq(Tools)
  BY DEF Compat, Tools
<1>2. /\ Len(Compat) = 6 /\ Compat[1] = "exec-ulimit" /\ Compat[2] = "chcontext-compat"
      /\ Compat[3] = "save_ctxinfo" /\ Compat[4] = "env" /\ Compat[5] = "chain-echo"
      /\ Compat[6] = "capchroot"
      /\ \A i \in 1 .. 6 : i = 1 \/ i = 2 \/ i = 3 \/ i = 4 \/ i = 5 \/ i = 6
  BY DEF Compat
<1>3. Elems(Compat) = {"exec-ulimit", "chcontext-compat", "save_ctxinfo", "env", "chain-echo",
                       "capchroot"}
  BY <1>2 DEF Elems
<1>4. Ordered(Compat)
  BY <1>2, Ranks DEF Ordered
<1> QED
  BY <1>1, <1>3, <1>4, Ranks

Migrating ==
    <<"exec-ulimit", "vtag-create", "vspace-new", "vcontext-create", "vspace-set",
      "exec-remount", "vlimit", "vsched", "vsysctl", "vuname-dir", "vmemctrl",
      "vuname-context", "vattribute", "save_ctxinfo", "env", "vcontext-self">>

\* The chain of scripts/vserver.start behind chbind.
LEMMA MigratingChain ==
    /\ Migrating \in Seq(Tools) /\ Ordered(Migrating)
    /\ Elems(Migrating) = {"exec-ulimit", "vtag-create", "vspace-new", "vcontext-create",
                           "exec-remount", "save_ctxinfo", "env", "vcontext-self"} \cup Configure
    /\ \A t \in Elems(Migrating) : Rank(t) > 3
    /\ \A t \in Configure : Rank(t) \in 8 .. 16
<1>1. Migrating \in Seq(Tools)
  BY DEF Migrating, Tools, Configure
<1>2. /\ Len(Migrating) = 16
      /\ Migrating[1] = "exec-ulimit" /\ Migrating[2] = "vtag-create"
      /\ Migrating[3] = "vspace-new" /\ Migrating[4] = "vcontext-create"
      /\ Migrating[5] = "vspace-set" /\ Migrating[6] = "exec-remount"
      /\ Migrating[7] = "vlimit" /\ Migrating[8] = "vsched"
      /\ Migrating[9] = "vsysctl" /\ Migrating[10] = "vuname-dir"
      /\ Migrating[11] = "vmemctrl" /\ Migrating[12] = "vuname-context"
      /\ Migrating[13] = "vattribute" /\ Migrating[14] = "save_ctxinfo"
      /\ Migrating[15] = "env" /\ Migrating[16] = "vcontext-self"
  BY DEF Migrating
<1>3. \A i \in 1 .. 16 : \/ i = 1 \/ i = 2 \/ i = 3 \/ i = 4 \/ i = 5 \/ i = 6 \/ i = 7 \/ i = 8
                         \/ i = 9 \/ i = 10 \/ i = 11 \/ i = 12 \/ i = 13 \/ i = 14 \/ i = 15
                         \/ i = 16
  OBVIOUS
<1>4. Elems(Migrating) = {"exec-ulimit", "vtag-create", "vspace-new", "vcontext-create",
                          "exec-remount", "save_ctxinfo", "env", "vcontext-self"} \cup Configure
  <2>1. \A i \in 1 .. 16 :
           Migrating[i] \in {"exec-ulimit", "vtag-create", "vspace-new", "vcontext-create",
                             "exec-remount", "save_ctxinfo", "env", "vcontext-self"} \cup Configure
    BY <1>2, <1>3 DEF Configure
  <2>2. \A t \in {"exec-ulimit", "vtag-create", "vspace-new", "vcontext-create",
                  "exec-remount", "save_ctxinfo", "env", "vcontext-self"} \cup Configure :
           \E i \in 1 .. 16 : Migrating[i] = t
    BY <1>2 DEF Configure
  <2>3. PICK all : all = {"exec-ulimit", "vtag-create", "vspace-new", "vcontext-create",
                          "exec-remount", "save_ctxinfo", "env", "vcontext-self"} \cup Configure
    OBVIOUS
  <2>4. /\ \A i \in 1 .. 16 : Migrating[i] \in all
        /\ \A t \in all : \E i \in 1 .. 16 : Migrating[i] = t
    BY <2>1, <2>2, <2>3
  <2>5. Elems(Migrating) = all
    BY <1>2, <2>4 DEF Elems
  <2> QED
    BY <2>3, <2>5
<1>5. \A i \in 1 .. 16 : Rank(Migrating[i]) = i + 3
  <2>1. /\ Rank(Migrating[1]) = 4 /\ Rank(Migrating[2]) = 5 /\ Rank(Migrating[3]) = 6
      /\ Rank(Migrating[4]) = 7 /\ Rank(Migrating[5]) = 8 /\ Rank(Migrating[6]) = 9
      /\ Rank(Migrating[7]) = 10 /\ Rank(Migrating[8]) = 11 /\ Rank(Migrating[9]) = 12
      /\ Rank(Migrating[10]) = 13 /\ Rank(Migrating[11]) = 14 /\ Rank(Migrating[12]) = 15
      /\ Rank(Migrating[13]) = 16 /\ Rank(Migrating[14]) = 17 /\ Rank(Migrating[15]) = 18
      /\ Rank(Migrating[16]) = 19
    BY <1>2, Ranks
  <2> QED
    BY <1>3, <2>1
<1>6. Ordered(Migrating)
  BY <1>2, <1>5 DEF Ordered
<1>7. \A t \in Elems(Migrating) : Rank(t) > 3
  BY <1>2, <1>5 DEF Elems
<1>8. \A t \in Configure : Rank(t) \in 8 .. 16
  BY Ranks DEF Configure
<1> QED
  BY <1>1, <1>4, <1>6, <1>7, <1>8

\* The tools of scripts/chbind.
LEMMA NetChain ==
    /\ NetTools \in Seq(Tools) /\ Ordered(NetTools)
    /\ Elems(NetTools) = NetPlan \ {"ncontext-migrate"}
    /\ \A t \in Elems(NetTools) : Rank(t) <= 3
<1>1. CASE Vnet
  <2>1. NetTools = <<"ncontext-create", "nattribute", "naddress">>
    BY <1>1 DEF NetTools, Vnet
  <2>2. NetTools \in Seq(Tools)
    BY <2>1 DEF Tools
  <2>3. /\ Len(NetTools) = 3 /\ NetTools[1] = "ncontext-create"
        /\ NetTools[2] = "nattribute" /\ NetTools[3] = "naddress"
        /\ \A i \in 1 .. 3 : i = 1 \/ i = 2 \/ i = 3
    BY <2>1
  <2>4. Elems(NetTools) = {"ncontext-create", "nattribute", "naddress"}
    BY <2>3 DEF Elems
  <2>5. Ordered(NetTools)
    BY <2>3, Ranks DEF Ordered
  <2> QED
    BY <1>1, <2>2, <2>4, <2>5, Ranks DEF NetPlan
<1>2. CASE ~Vnet
  <2>1. NetTools = <<"chbind-compat">>
    BY <1>2 DEF NetTools, Vnet
  <2>2. NetTools \in Seq(Tools)
    BY <2>1 DEF Tools
  <2>3. /\ Len(NetTools) = 1 /\ NetTools[1] = "chbind-compat"
        /\ \A i \in 1 .. 1 : i = 1
    BY <2>1
  <2>4. Elems(NetTools) = {"chbind-compat"}
    BY <2>3 DEF Elems
  <2>5. Ordered(NetTools)
    BY <2>3 DEF Ordered
  <2> QED
    BY <1>2, <2>2, <2>4, <2>5, Ranks DEF NetPlan
<1> QED
  BY <1>1, <1>2

\* What scripts/chbind puts in front of the command that it runs again.
LEMMA AgainChain ==
    /\ <<"ncontext-migrate">> \in Seq(Tools) /\ Ordered(<<"ncontext-migrate">>)
    /\ Elems(<<"ncontext-migrate">>) = {"ncontext-migrate"}
<1>1. PICK s : s = <<"ncontext-migrate">>
  OBVIOUS
<1>2. s \in Seq(Tools) /\ Len(s) = 1 /\ s[1] = "ncontext-migrate"
  BY <1>1 DEF Tools
<1>3. Ordered(s) /\ Elems(s) = {"ncontext-migrate"}
  BY <1>2 DEF Ordered, Elems
<1> QED
  BY <1>1, <1>2, <1>3

\* The chains that a start and a visitor begin, and what chbind does over again.
LEMMA Chains ==
    ASSUME NEW p \in {"start", "visit"}
    PROVE  /\ NetTools \o ToolsOf(p) \in Seq(Tools) /\ Ordered(NetTools \o ToolsOf(p))
           /\ Elems(NetTools \o ToolsOf(p)) = Plan(p) \ {"ncontext-migrate"}
           /\ <<"ncontext-migrate">> \o ToolsOf(p) \in Seq(Tools)
           /\ Ordered(<<"ncontext-migrate">> \o ToolsOf(p))
           /\ Elems(<<"ncontext-migrate">> \o ToolsOf(p))
                 = (Plan(p) \ NetPlan) \cup {"ncontext-migrate"}
           /\ NetTools \o ToolsOf(p) # << >> /\ <<"ncontext-migrate">> \o ToolsOf(p) # << >>
<1>1. /\ ToolsOf(p) \in Seq(Tools) /\ Ordered(ToolsOf(p))
      /\ \A t \in Elems(ToolsOf(p)) : Rank(t) > 3
      /\ Elems(ToolsOf(p)) =
            IF p = "visit" THEN {"exec-ulimit", "vspace-enter", "vtag-migrate", "vcontext-migrate"}
            ELSE IF Migrate THEN {"exec-ulimit", "vtag-create", "vspace-new", "vcontext-create",
                                  "exec-remount", "save_ctxinfo", "env", "vcontext-self"}
                                    \cup Configure
            ELSE {"exec-ulimit", "chcontext-compat", "save_ctxinfo", "env", "chain-echo",
                  "capchroot"}
  <2>1. CASE p = "visit"
    BY <2>1, VisitChain DEF ToolsOf
  <2>2. CASE p = "start" /\ Migrate
    <3>1. ToolsOf(p) = Migrating
      BY <2>2 DEF ToolsOf, StartTools, Migrating, Migrate
    <3> QED
      BY <2>2, <3>1, MigratingChain
  <2>3. CASE p = "start" /\ ~Migrate
    <3>1. ToolsOf(p) = Compat
      BY <2>3 DEF ToolsOf, StartTools, Compat, Migrate
    <3> QED
      BY <2>3, <3>1, CompatChain
  <2> QED
    BY <2>1, <2>2, <2>3
<1>2. Plan(p) = NetPlan \cup Elems(ToolsOf(p)) /\ NetPlan \cap Elems(ToolsOf(p)) = {}
      /\ "ncontext-migrate" \notin Elems(ToolsOf(p)) /\ NetPlan # {}
  <2>1. Plan(p) = NetPlan \cup Elems(ToolsOf(p))
    BY <1>1 DEF Plan
  <2>2. \A t \in NetPlan \cup {"ncontext-migrate"} : Rank(t) <= 3
    BY Ranks DEF NetPlan
  <2>3. \A t \in Elems(ToolsOf(p)) : t \notin NetPlan \cup {"ncontext-migrate"}
    <3> SUFFICES ASSUME NEW t \in Elems(ToolsOf(p)), Rank(t) <= 3 PROVE FALSE
      BY <2>2
    <3> QED
      BY <1>1, RankIsNat
  <2>4. NetPlan # {}
    BY DEF NetPlan
  <2> QED
    BY <2>1, <2>3, <2>4
<1>3. /\ NetTools \o ToolsOf(p) \in Seq(Tools) /\ Ordered(NetTools \o ToolsOf(p))
      /\ Elems(NetTools \o ToolsOf(p)) = Elems(NetTools) \cup Elems(ToolsOf(p))
  <2>1. \A x \in Elems(NetTools), y \in Elems(ToolsOf(p)) : Rank(x) < Rank(y)
    <3> SUFFICES ASSUME NEW x \in Elems(NetTools), NEW y \in Elems(ToolsOf(p))
                 PROVE  Rank(x) < Rank(y)
      OBVIOUS
    <3>1. Rank(x) <= 3 /\ Rank(y) > 3
      BY <1>1, NetChain
    <3> QED
      BY <3>1, RankIsNat
  <2> QED
    BY <1>1, <2>1, NetChain, Chained
<1>4. PICK s : s = <<"ncontext-migrate">>
  OBVIOUS
<1>5. s \in Seq(Tools) /\ Ordered(s) /\ Elems(s) = {"ncontext-migrate"}
  BY <1>4, AgainChain
<1>6. /\ s \o ToolsOf(p) \in Seq(Tools) /\ Ordered(s \o ToolsOf(p))
      /\ Elems(s \o ToolsOf(p)) = Elems(s) \cup Elems(ToolsOf(p))
  <2>1. \A x \in Elems(s), y \in Elems(ToolsOf(p)) : Rank(x) < Rank(y)
    BY <1>1, <1>5, Ranks, RankIsNat
  <2> QED
    BY <1>1, <1>5, <2>1, Chained
<1>7. \A x : x = << >> => Elems(x) = {}
  BY DEF Elems
<1>8. Elems(NetTools \o ToolsOf(p)) = Plan(p) \ {"ncontext-migrate"}
  BY <1>2, <1>3, NetChain
<1>9. Elems(s \o ToolsOf(p)) = (Plan(p) \ NetPlan) \cup {"ncontext-migrate"}
  <2>1. Plan(p) \ NetPlan = Elems(ToolsOf(p))
    BY <1>2
  <2> QED
    BY <1>5, <1>6, <2>1
<1>10. NetTools \o ToolsOf(p) # << >> /\ s \o ToolsOf(p) # << >>
  <2>1. Elems(NetTools) # {}
    BY NetChain DEF NetPlan
  <2>2. Elems(NetTools \o ToolsOf(p)) # {}
    BY <1>3, <2>1
  <2>3. Elems(s \o ToolsOf(p)) # {}
    BY <1>5, <1>6
  <2> QED
    BY <1>7, <2>2, <2>3
<1> QED
  BY <1>3, <1>4, <1>6, <1>8, <1>9, <1>10

-----------------------------------------------------------------------------
(* What a tool does to its process.                                        *)

\* Executing the next tool changes one process, and takes its tool off the chain.
LEMMA ExecDoes ==
    ASSUME Typed, NEW p \in Process, NEW is \in Confinement, Shape(p),
           proc[p].mode = "chain", Exec(p, is)
    PROVE  /\ proc' \in [Process -> State] /\ \A q \in Process \ {p} : proc'[q] = proc[q]
           /\ proc'[p].is = is /\ proc'[p].found = proc[p].found
           /\ proc'[p].script = proc[p].script
           /\ proc'[p].mode = (IF Left(p)' = {} THEN "guest" ELSE "chain")
           /\ proc'[p].execs = (IF Left(p)' = {} THEN proc[p].execs + 1 ELSE proc[p].execs)
           /\ Left(p) = {Head(proc[p].todo)} \cup Left(p)' /\ Head(proc[p].todo) \notin Left(p)'
           /\ \A t \in Left(p)' : Rank(Head(proc[p].todo)) < Rank(t)
           /\ Ordered(proc'[p].todo) /\ (proc'[p].mode = "chain" => proc'[p].todo # << >>)
<1>1. /\ proc[p] \in State /\ proc[p].todo \in Seq(Tools) /\ proc[p].todo # << >>
      /\ Ordered(proc[p].todo)
  BY DEF Typed, Shape, State
<1>2. PICK rest : rest = Tail(proc[p].todo)
  OBVIOUS
<1>3. /\ rest \in Seq(Tools) /\ Ordered(rest) /\ (rest = << >> <=> Elems(rest) = {})
      /\ Left(p) = {Head(proc[p].todo)} \cup Elems(rest) /\ Head(proc[p].todo) \notin Elems(rest)
      /\ \A t \in Elems(rest) : Rank(Head(proc[p].todo)) < Rank(t)
  BY <1>1, <1>2, OneLess DEF Left
<1>4. PICK mode : mode = IF rest = << >> THEN "guest" ELSE "chain"
  OBVIOUS
<1>5. PICK execs : execs = IF rest = << >> THEN proc[p].execs + 1 ELSE proc[p].execs
  OBVIOUS
<1>6. proc' = [proc EXCEPT ![p] = [proc[p] EXCEPT !.todo = rest, !.is = is, !.mode = mode,
                                                  !.execs = execs]]
  <2>1. proc' = [proc EXCEPT ![p] =
                   [proc[p] EXCEPT !.todo = Tail(proc[p].todo), !.is = is,
                                   !.mode = IF Tail(proc[p].todo) = << >> THEN "guest"
                                            ELSE "chain",
                                   !.execs = IF Tail(proc[p].todo) = << >>
                                             THEN proc[p].execs + 1 ELSE proc[p].execs]]
    BY DEF Exec
  <2> QED
    BY <1>2, <1>4, <1>5, <2>1
<1>7. mode \in {"idle", "chain", "guest"} /\ execs \in Nat
  BY <1>1, <1>4, <1>5 DEF State
<1>8. PICK s : s = [proc[p] EXCEPT !.todo = rest, !.is = is, !.mode = mode, !.execs = execs]
  OBVIOUS
<1>9. /\ s \in State /\ s.todo = rest /\ s.is = is /\ s.mode = mode /\ s.execs = execs
      /\ s.found = proc[p].found /\ s.script = proc[p].script
  BY <1>1, <1>3, <1>7, <1>8 DEF State
<1>10. /\ proc' \in [Process -> State] /\ proc'[p] = s
       /\ \A q \in Process \ {p} : proc'[q] = proc[q]
  BY <1>6, <1>8, <1>9 DEF Typed
<1>11. Left(p)' = Elems(rest)
  BY <1>9, <1>10 DEF Left
<1> QED
  BY <1>3, <1>4, <1>5, <1>9, <1>10, <1>11

\* It stays on its chain.
LEMMA ShapeKept ==
    ASSUME Typed, NEW p \in Process, NEW is \in Confinement, Shape(p),
           proc[p].mode = "chain", Exec(p, is), UNCHANGED kernel, ctx.gen <= ctx'.gen,
           ctx.gen \in Nat, ctx'.gen \in Nat
    PROVE  Shape(p)'
<1>1. PICK h : h = Head(proc[p].todo)
  OBVIOUS
<1>2. /\ proc'[p].found = proc[p].found /\ proc'[p].script = proc[p].script
      /\ proc'[p].mode = (IF Left(p)' = {} THEN "guest" ELSE "chain")
      /\ Left(p) = {h} \cup Left(p)' /\ h \notin Left(p)'
      /\ \A t \in Left(p)' : Rank(h) < Rank(t)
      /\ Ordered(proc'[p].todo) /\ (proc'[p].mode = "chain" => proc'[p].todo # << >>)
  BY <1>1, ExecDoes
<1>3. Vnet' = Vnet /\ Plan(p)' = Plan(p) /\ proc[p].found \in Nat
  BY DEF Vnet, Plan, NetPlan, Migrate, Typed, State
<1>4. \A t \in Left(p)', u \in Plan(p) \ {"ncontext-migrate"} :
         Rank(t) < Rank(u) => u \in Left(p)'
  <2> SUFFICES ASSUME NEW t \in Left(p)', NEW u \in Plan(p) \ {"ncontext-migrate"},
                      Rank(t) < Rank(u)
               PROVE  u \in Left(p)'
    OBVIOUS
  <2>1. u \in Left(p)
    BY <1>2 DEF Shape
  <2>2. u # h
    <3>1. /\ Rank(h) < Rank(t) /\ Rank(t) < Rank(u)
          /\ Rank(h) \in 1 .. 20 /\ Rank(t) \in 1 .. 20 /\ Rank(u) \in 1 .. 20
      BY <1>2, RankIsNat
    <3>2. Rank(h) < Rank(u)
      BY <3>1
    <3> QED
      BY <3>1, <3>2
  <2> QED
    BY <1>2, <2>1, <2>2
<1>5. p # "daemon"
  BY DEF Shape
<1> QED
  BY <1>2, <1>3, <1>4, <1>5 DEF Shape, On

\* When it ends, it is idle, or chbind does the rest of the command over again.
IdleIs(e) == /\ e \in State /\ e.mode = "idle" /\ e.is = Host /\ e.found = 0 /\ ~e.script
             /\ e.execs = 0 /\ e.todo = << >>
AgainIs(s, p, e) ==
    /\ e.mode = "chain" /\ e.is = Host /\ e.found = s.found /\ ~e.script /\ e.execs = s.execs
    /\ e.todo = <<"ncontext-migrate">> \o ToolsOf(p)
    /\ p \in {"start", "visit"} => e \in State

\* One of the two, and which.
LEMMA EndedIs ==
    ASSUME NEW s \in State, NEW p \in Process, NEW c \in 0 .. 255
    PROVE  /\ s.script /\ c = 254 => AgainIs(s, p, Ended(s, p, c))
           /\ ~(s.script /\ c = 254) => IdleIs(Ended(s, p, c))
<1>0. Host \in Confinement
  BY DEF Host, Confinement
<1>1. CASE s.script /\ c = 254
  <2>1. PICK r : r = <<"ncontext-migrate">> \o ToolsOf(p)
    OBVIOUS
  <2>2. Ended(s, p, c) = [s EXCEPT !.mode = "chain", !.script = FALSE, !.is = Host, !.todo = r]
    BY <1>1, <2>1 DEF Ended
  <2>3. p \in {"start", "visit"} => r \in Seq(Tools)
    BY <2>1, Chains
  <2>4. PICK e : e = Ended(s, p, c)
    OBVIOUS
  <2>5. /\ e.mode = "chain" /\ e.is = Host /\ e.found = s.found /\ ~e.script
        /\ e.execs = s.execs /\ e.todo = r
    BY <2>2, <2>4 DEF State
  <2>6. r \in Seq(Tools) => e \in State
    <3>1. e = [mode |-> "chain", todo |-> r, script |-> FALSE, is |-> Host, found |-> s.found,
               execs |-> s.execs, rc |-> s.rc]
      BY <2>2, <2>4 DEF State
    <3>2. s.found \in Nat /\ s.execs \in Nat /\ s.rc \in 0 .. 255
      BY DEF State
    <3> QED
      BY <1>0, <3>1, <3>2 DEF State
  <2> QED
    BY <1>1, <2>1, <2>3, <2>4, <2>5, <2>6 DEF AgainIs
<1>2. CASE ~(s.script /\ c = 254)
  <2>1. Ended(s, p, c) = [Idle EXCEPT !.rc = c]
    BY <1>2 DEF Ended
  <2>2. PICK e : e = Ended(s, p, c)
    OBVIOUS
  <2>3. e = [mode |-> "idle", todo |-> << >>, script |-> FALSE, is |-> Host, found |-> 0,
             execs |-> 0, rc |-> c]
    BY <2>1, <2>2 DEF Idle
  <2>4. << >> \in Seq(Tools)
    OBVIOUS
  <2>5. e \in State
    BY <1>0, <2>3, <2>4 DEF State
  <2>6. /\ e.mode = "idle" /\ e.is = Host /\ e.found = 0 /\ ~e.script /\ e.execs = 0
        /\ e.todo = << >>
    BY <2>3
  <2> QED
    BY <1>2, <2>2, <2>5, <2>6 DEF IdleIs
<1> QED
  BY <1>1, <1>2

\* An empty chain.
LEMMA NothingLeft == ASSUME NEW p, proc[p].todo = << >> PROVE Left(p) = {} /\ Ordered(proc[p].todo)
<1>1. 1 .. Len(proc[p].todo) = {}
  OBVIOUS
<1> QED
  BY <1>1 DEF Left, Elems, Ordered

\* An idle process.
IdleFits ==
    \A p \in Process :
        /\ Typed /\ proc[p].mode = "idle" /\ proc[p].is = Host /\ proc[p].found = 0
        /\ ~proc[p].script /\ proc[p].todo = << >>
        => Shape(p) /\ Place(p) /\ Made(p) /\ Left(p) = {}

\* It fulfils what is said of every process, as it is nowhere.
LEMMA IdleIsFine == IdleFits
<1> SUFFICES ASSUME NEW p \in Process, proc[p].mode = "idle", proc[p].is = Host,
                    proc[p].found = 0, ~proc[p].script, proc[p].todo = << >>, Typed
             PROVE  Shape(p) /\ Place(p) /\ Made(p) /\ Left(p) = {}
  BY DEF IdleFits
<1>1. Left(p) = {} /\ Ordered(proc[p].todo) /\ ~On(p)
  BY NothingLeft DEF On
<1>2. \A tools : ~Past(p, tools)
  BY <1>1 DEF Past
<1>3. ctx.gen \in Nat /\ net.gen \in Nat /\ starts \in Nat
  BY DEF Typed
<1>4. Shape(p)
  BY <1>1, <1>3 DEF Shape
<1>5. Place(p)
  BY <1>1, <1>2, <1>3 DEF Place, Host
<1> QED
  BY <1>1, <1>2, <1>4, <1>5 DEF Made

-----------------------------------------------------------------------------
(* What a step does to the processes it does not touch.                    *)

\* The context stays, and nothing of its configuration goes.
CtxGrows ==
    /\ ctx'.gen = ctx.gen /\ ctx.conf \subseteq ctx'.conf /\ (ctx'.setup => ctx.setup)
    /\ ctx'.spaces = ctx.spaces

\* The network context stays, or there was none.
NetGrows ==
    \/ net'.gen = net.gen /\ net.conf \subseteq net'.conf
    \/ net'.gen = net.gen + 1 /\ (Vnet => ~NetThere)

\* What is said of the chain of a process stays with it.
LEMMA Same ==
    ASSUME NEW q \in Process, proc'[q] = proc[q], UNCHANGED kernel
    PROVE  /\ Left(q)' = Left(q) /\ On(q)' = On(q) /\ Vnet' = Vnet /\ Migrate' = Migrate
           /\ Plan(q)' = Plan(q) /\ \A tools : Past(q, tools)' = Past(q, tools)
BY DEF Left, On, Vnet, Migrate, Plan, NetPlan, Past

\* Types that are needed by themselves.
LEMMA NewGen == ASSUME Typed
                PROVE  /\ ctx.gen \in Nat /\ net.gen \in Nat /\ starts \in Nat /\ runfile \in Nat
                       /\ ctx.conf \subseteq Configure /\ net.conf \subseteq NetConfigure
                       /\ ctx.spaces \in Nat /\ ctx.setup \in BOOLEAN
BY DEF Typed

\* Nobody is in a network context that is not there, nor in such a context.
LEMMA Outside ==
    ASSUME Typed, NEW q \in Process, Place(q)
    PROVE  /\ ~NetThere /\ Vnet => proc[q].is.nid = 0
           /\ ~CtxThere => proc[q].is.xid = 0
BY NewGen DEF Place, NetThere, CtxThere, InCtx

\* What the tools behind it have done stays done.
LEMMA BystanderPlace ==
    ASSUME Typed, NEW q \in Process, proc'[q] = proc[q], UNCHANGED kernel,
           Place(q), starts' \in Nat, starts <= starts', net'.gen \in Nat, NetGrows,
           ctx'.gen = ctx.gen, ctx'.setup => ctx.setup
    PROVE  Place(q)'
<1>1. proc[q].is.nid \in Nat /\ proc[q].is.ns \in Nat
  BY DEF Typed, State, Confinement
<1>2. /\ proc[q].is.nid <= net'.gen
      /\ Vnet => proc[q].is.nid \in {0, net'.gen}
  BY <1>1, NewGen, Outside DEF Place, NetGrows
<1>3. proc[q].is.ns <= starts'
  BY <1>1, NewGen DEF Place
<1> QED
  BY <1>2, <1>3, Same DEF Place

\* It stays where it is in its chain.
LEMMA BystanderShape ==
    ASSUME Typed, NEW q \in Process, proc'[q] = proc[q], UNCHANGED kernel, Shape(q),
           ctx'.gen \in Nat, ctx.gen <= ctx'.gen
    PROVE  Shape(q)'
<1>1. proc[q].found \in Nat /\ ctx.gen \in Nat
  BY DEF Typed, State
<1>2. proc[q].found <= ctx.gen => proc[q].found <= ctx'.gen
  BY <1>1
<1> QED
  BY <1>2, Same DEF Shape

\* The incarnation it belongs to stays configured.
LEMMA BystanderMade ==
    ASSUME NEW q \in Process, proc'[q] = proc[q], UNCHANGED kernel, Made(q), CtxGrows
    PROVE  Made(q)'
BY Same DEF Made, CtxGrows

\* All three, when the context only grows.
LEMMA Bystander ==
    ASSUME Typed, NEW q \in Process, proc'[q] = proc[q], UNCHANGED kernel,
           Shape(q), Place(q), Made(q), starts' \in Nat, starts <= starts',
           net'.gen \in Nat, NetGrows, CtxGrows
    PROVE  Shape(q)' /\ Place(q)' /\ Made(q)'
<1>1. ctx'.gen = ctx.gen /\ ctx'.gen \in Nat /\ ctx.gen <= ctx'.gen /\ (ctx'.setup => ctx.setup)
  BY NewGen DEF CtxGrows
<1> QED
  BY <1>1, BystanderShape, BystanderPlace, BystanderMade

\* A new context, where there was none.
LEMMA BystanderOfNew ==
    ASSUME Typed, NEW q \in Process, proc'[q] = proc[q], UNCHANGED <<kernel, net, starts>>,
           Shape(q), Place(q), Made(q), q # "start", ctx'.gen = ctx.gen + 1, ~CtxThere
    PROVE  Shape(q)' /\ Place(q)' /\ Made(q)'
<1>1. ctx'.gen \in Nat /\ ctx.gen \in Nat /\ proc[q].found \in Nat /\ proc[q].found <= ctx.gen
  BY NewGen DEF Typed, State, Shape
<1>2. Shape(q)'
  BY <1>1, BystanderShape
<1>3. proc[q].is.xid = 0
  BY Outside
<1>4. \A tools : Past(q, tools) => Left(q) # {}
  BY <1>3 DEF Place, Past
<1>5. proc[q].found = 0 => ~On(q)
  BY <1>4 DEF Shape, Process, On, Past
<1>6. Place(q)'
  <2>1. \A tools : proc[q].found = 0 => ~Past(q, tools)
    BY <1>5 DEF Past
  <2> QED
    BY <1>3, <2>1, Same DEF Place
<1>7. Made(q)'
  <2>1. \A tools : proc[q].found = 0 => ~(Past(q, tools)')
    BY <1>5, Same DEF Past
  <2>2. proc'[q].found # ctx'.gen
    BY <1>1
  <2> QED
    BY <2>1, <2>2 DEF Made
<1> QED
  BY <1>2, <1>6, <1>7

\* A start sets the spaces of the context that it has made.
LEMMA BystanderOfSpaces ==
    ASSUME Typed, NEW q \in Process, proc'[q] = proc[q], UNCHANGED <<kernel, net, starts>>,
           Shape(q), Place(q), Made(q), q # "start", ctx'.gen = ctx.gen, ctx'.setup = ctx.setup,
           ctx.conf \subseteq ctx'.conf, Building, BuildInv
    PROVE  Shape(q)' /\ Place(q)' /\ Made(q)'
<1>1. Shape(q)'
  BY NewGen, BystanderShape
<1>2. Place(q)'
  BY NewGen, BystanderPlace DEF NetGrows
<1>3. proc[q].found = 0 => ~On(q)
  BY DEF BuildInv, Shape, Process, On, Place, Past
<1>4. Made(q)'
  BY <1>3, Same DEF Made, Past, BuildInv
<1> QED
  BY <1>1, <1>2, <1>4

-----------------------------------------------------------------------------
(* A tool and what comes after it.                                         *)

\* What executing the tool at the head of the chain leaves of the confinement of
\* its process, and what it adds.
Fits(p, is) ==
    LET h   == Head(proc[p].todo)
        old == proc[p].is
    IN  /\ is.nid <= net'.gen /\ (Vnet => is.nid \in {0, net'.gen})
        /\ is.xid \in {0, ctx'.gen} /\ is.ns <= starts /\ (~Migrate => is.ns = 0)
        /\ (old.nid # 0 => is.nid # 0) /\ (old.xid # 0 => is.xid # 0)
        /\ (old.ns # 0 => is.ns # 0)
        /\ (old.tag => is.tag) /\ (old.root => is.root) /\ (old.env => is.env)
        /\ h \in {"ncontext-create", "ncontext-migrate", "chbind-compat"} => is.nid # 0
        /\ h \in {"vcontext-create", "chcontext-compat", "vcontext-migrate"} => is.xid # 0
        /\ is.xid # 0 => old.xid # 0 \/ (is.nid # 0 /\ Rank(h) >= 7)
        /\ p = "visit" /\ h # "vcontext-migrate" => is.xid = 0
        /\ h \in {"vtag-create", "vtag-migrate"} /\ "pptag" \in kernel => is.tag
        /\ h \in {"vspace-new", "vspace-enter"} /\ Migrate => is.ns # 0
        /\ h \in {"vcontext-self", "capchroot", "vcontext-migrate"} => is.root
        /\ h = "env" => is.env
        /\ h = "vcontext-self" => ~ctx'.setup


\* The process is confined by what it was confined by and by what the tool adds.
LEMMA PlaceAfter ==
    ASSUME Typed, NEW p \in Process, NEW is \in Confinement, Shape(p), Place(p),
           proc[p].mode = "chain", Exec(p, is), Fits(p, is), UNCHANGED <<kernel, starts>>,
           ctx'.setup => ctx.setup \/ "vcontext-self" \in Left(p)'
    PROVE  Place(p)'
<1>1. PICK h : h = Head(proc[p].todo)
  OBVIOUS
<1>2. /\ proc'[p].is = is /\ proc'[p].found = proc[p].found
      /\ proc'[p].mode = (IF Left(p)' = {} THEN "guest" ELSE "chain")
      /\ Left(p) = {h} \cup Left(p)' /\ h \notin Left(p)'
      /\ \A t \in Left(p)' : Rank(h) < Rank(t)
  BY <1>1, ExecDoes
<1>3. On(p) /\ On(p)'
  BY <1>2 DEF On
<1>4. \A tools : Past(p, tools)' => Past(p, tools) \/ h \in tools
  BY <1>2, <1>3 DEF Past
<1>5. is.xid # 0 => is.nid # 0 /\ \A t \in Left(p)' : Rank(t) > 7
  <2> SUFFICES ASSUME is.xid # 0, NEW t \in Left(p) \ {h}
               PROVE  is.nid # 0 /\ Rank(t) > 7
    BY <1>2 DEF Fits, Place
  <2>1. CASE proc[p].is.xid # 0
    BY <2>1 DEF Place, Fits
  <2>2. CASE is.nid # 0 /\ Rank(h) >= 7
    <3>1. Rank(h) < Rank(t) /\ Rank(h) \in 1 .. 20 /\ Rank(t) \in 1 .. 20
      BY <1>2, RankIsNat
    <3> QED
      BY <2>2, <3>1
  <2> QED
    BY <1>1, <2>1, <2>2 DEF Fits
<1>6. p = "visit" /\ proc'[p].mode = "chain" => is.xid = 0
  <2> SUFFICES ASSUME p = "visit", NEW t \in Left(p)' PROVE h # "vcontext-migrate"
    BY <1>1, <1>2 DEF Fits
  <2>1. Rank(h) < Rank(t) /\ Rank(h) \in 1 .. 20 /\ Rank(t) \in 1 .. 20
    BY <1>2, RankIsNat
  <2> QED
    BY <2>1, Ranks
<1>7. Vnet' = Vnet /\ Migrate' = Migrate
  BY DEF Vnet, Migrate
<1>8. proc[p].found = 0 /\ Migrate /\ Past(p, {"vcontext-self"})' => ~ctx'.setup
  <2> SUFFICES ASSUME proc[p].found = 0, Migrate, Past(p, {"vcontext-self"})'
               PROVE  ~ctx'.setup
    OBVIOUS
  <2>1. "vcontext-self" \notin Left(p)'
    BY DEF Past
  <2>2. CASE h = "vcontext-self"
    BY <1>1, <2>2 DEF Fits
  <2>3. CASE h # "vcontext-self"
    <3>1. Past(p, {"vcontext-self"})
      BY <1>4, <2>3
    <3> QED
      BY <2>1, <3>1 DEF Place
  <2> QED
    BY <2>2, <2>3
<1>9. /\ is.nid <= net'.gen /\ (Vnet' => is.nid \in {0, net'.gen})
      /\ is.xid \in {0, ctx'.gen} /\ is.ns <= starts' /\ (~Migrate' => is.ns = 0)
  BY <1>7 DEF Fits
<1>10. /\ Past(p, {"ncontext-create", "ncontext-migrate", "chbind-compat"})' => is.nid # 0
       /\ Past(p, {"vcontext-create", "chcontext-compat", "vcontext-migrate"})' => is.xid # 0
  BY <1>1, <1>4 DEF Fits, Place
<1>11. /\ Past(p, {"vtag-create", "vtag-migrate"})' /\ "pptag" \in kernel => is.tag
       /\ Past(p, {"vspace-new", "vspace-enter"})' /\ Migrate => is.ns # 0
  BY <1>1, <1>4 DEF Fits, Place
<1>12. /\ Past(p, {"vcontext-self", "capchroot", "vcontext-migrate"})' => is.root
       /\ proc[p].found = 0 /\ Past(p, {"env"})' => is.env
  BY <1>1, <1>4 DEF Fits, Place
<1> QED
  BY <1>2, <1>3, <1>5, <1>6, <1>7, <1>8, <1>9, <1>10, <1>11, <1>12 DEF Place

\* What a tool adds to the configuration of the contexts.
Configures(p, is) ==
    LET h == Head(proc[p].todo)
    IN  /\ h \in Required => h \in ctx'.conf
        /\ h \in NetConfigure => h \in net'.conf
        /\ h = "vspace-set" => is.ns = ctx'.spaces
        /\ h = "vspace-enter" => is.ns = ctx'.spaces
        /\ h \notin {"vspace-new", "vspace-enter"} => is.ns = proc[p].is.ns

\* What is behind the process is configured, the tool that it leaves behind included.
LEMMA MadeAfter ==
    ASSUME Typed, NEW p \in {"start", "visit"}, NEW is \in Confinement, Shape(p), Made(p),
           proc[p].mode = "chain", Exec(p, is), Configures(p, is), UNCHANGED kernel,
           ctx'.gen = ctx.gen, ctx.conf \subseteq ctx'.conf,
           Head(proc[p].todo) # "vspace-set" => ctx'.spaces = ctx.spaces,
           p = "visit" => ctx'.spaces = ctx.spaces
    PROVE  Made(p)'
<1>1. PICK h : h = Head(proc[p].todo)
  OBVIOUS
<1>2. /\ proc'[p].is = is /\ proc'[p].found = proc[p].found
      /\ proc'[p].mode = (IF Left(p)' = {} THEN "guest" ELSE "chain")
      /\ Left(p) = {h} \cup Left(p)' /\ h \notin Left(p)'
  BY <1>1, ExecDoes DEF Process
<1>3. On(p) /\ On(p)'
  BY <1>2 DEF On
<1>4. \A tools : Past(p, tools)' => Past(p, tools) \/ h \in tools
  BY <1>2, <1>3 DEF Past
<1>5. Migrate' = Migrate
  BY DEF Migrate
<1>6. ASSUME Migrate, proc[p].found = 0
      PROVE  /\ \A t \in Required : Past(p, {t})' => t \in ctx'.conf
             /\ Past(p, {"vspace-set"})' => is.ns = ctx'.spaces
  <2>1. ASSUME NEW t \in Required, Past(p, {t})' PROVE t \in ctx'.conf
    BY <1>1, <1>4, <1>6, <2>1 DEF Made, Configures
  <2>2. ASSUME Past(p, {"vspace-set"})', h # "vspace-set" PROVE is.ns = ctx'.spaces
    <3>1. Past(p, {"vspace-set"})
      BY <1>4, <2>2
    <3>2. p = "start"
      BY <1>3, <1>6 DEF Shape
    <3>3. h # "vspace-new"
      <4>1. "vspace-set" \in Plan(p) \ {"ncontext-migrate"}
        BY <1>6, <3>2 DEF Plan, Configure
      <4>2. Rank("vspace-new") < Rank("vspace-set")
        BY Ranks
      <4>3. "vspace-set" \notin Left(p)
        BY <3>1 DEF Past
      <4> QED
        BY <1>2, <4>1, <4>2, <4>3 DEF Shape
    <3> QED
      BY <1>1, <1>6, <2>2, <3>1, <3>3 DEF Made, Configures
  <2> QED
    BY <1>1, <2>1, <2>2 DEF Configures
<1>7. ASSUME Migrate, proc[p].found # 0, proc[p].found = ctx.gen
      PROVE  /\ Required \subseteq ctx'.conf
             /\ Past(p, {"vspace-enter"})' => is.ns = ctx'.spaces
  <2>1. p = "visit"
    BY <1>7 DEF Shape
  <2>2. h # "vspace-new"
    <3>1. h \in Plan(p)
      BY <1>2 DEF Shape
    <3> QED
      BY <2>1, <3>1 DEF Plan, NetPlan
  <2>3. Past(p, {"vspace-enter"})' => is.ns = ctx'.spaces
    BY <1>1, <1>4, <1>7, <2>1, <2>2 DEF Made, Configures
  <2> QED
    BY <1>7, <2>3 DEF Made
<1> QED
  BY <1>2, <1>5, <1>6, <1>7 DEF Made

CtxType == [gen : Nat, setup : BOOLEAN, conf : SUBSET Configure, spaces : Nat]
NetType == [gen : Nat, conf : SUBSET NetConfigure]

\* What every step does besides.
Watched == UNCHANGED kernel /\ outlived' = (outlived \/ Late')

\* The types, part by part.
LEMMA TypedAfter ==
    ASSUME Typed, proc' \in [Process -> State], ctx' \in CtxType, net' \in NetType,
           runfile' \in Nat, starts' \in 0 .. MaxStarts, visits' \in 0 .. MaxVisits, Watched,
           ctx'.spaces <= starts'
    PROVE  Typed'
<1>1. outlived' \in BOOLEAN
  <2>1. Late' \in BOOLEAN
    BY DEF Late
  <2> QED
    BY <2>1 DEF Watched
<1> QED
  BY <1>1 DEF Typed, CtxType, NetType, Watched, Vnet, Migrate

\* A tool leaves the other processes alone and executes the next one.
Did(p, is) ==
    /\ \A q \in Process \ {p} : proc'[q] = proc[q] /\ Left(q)' = Left(q)
    /\ \A q \in Process : proc'[q].found = proc[q].found /\ proc'[q].script = proc[q].script
    /\ proc'[p].is = is /\ (proc'[p].mode = IF Left(p)' = {} THEN "guest" ELSE "chain")
    /\ Left(p) = {Head(proc[p].todo)} \cup Left(p)' /\ Head(proc[p].todo) \notin Left(p)'
    /\ \A t \in Left(p)' : Rank(Head(proc[p].todo)) < Rank(t)
    /\ Vnet' = Vnet /\ Migrate' = Migrate

\* The types, the chain of the process, and what else no tool changes.
LEMMA Executed ==
    ASSUME IInv, NEW p \in {"start", "visit"}, NEW is \in Confinement,
           proc[p].mode = "chain", Exec(p, is), UNCHANGED <<starts, visits>>, Watched,
           ctx' \in CtxType, net' \in NetType, runfile' \in Nat,
           ctx.gen <= ctx'.gen, ctx'.spaces <= starts
    PROVE  Typed' /\ Shape(p)' /\ StartInv' /\ Did(p, is)
<1>1. Typed /\ StartInv /\ p \in Process /\ Shape(p)
  BY DEF IInv, Process
<1>2. PICK h : h = Head(proc[p].todo)
  OBVIOUS
<1>3. /\ proc' \in [Process -> State] /\ \A q \in Process \ {p} : proc'[q] = proc[q]
      /\ proc'[p].is = is /\ proc'[p].found = proc[p].found
      /\ proc'[p].script = proc[p].script
      /\ proc'[p].mode = (IF Left(p)' = {} THEN "guest" ELSE "chain")
      /\ proc'[p].execs = (IF Left(p)' = {} THEN proc[p].execs + 1 ELSE proc[p].execs)
      /\ Left(p) = {h} \cup Left(p)' /\ h \notin Left(p)'
      /\ \A t \in Left(p)' : Rank(h) < Rank(t)
  BY <1>1, <1>2, ExecDoes
<1>4. UNCHANGED kernel /\ Vnet' = Vnet /\ Migrate' = Migrate
  BY DEF Watched, Vnet, Migrate
<1>5. ctx.gen \in Nat /\ ctx'.gen \in Nat /\ starts \in Nat
  BY <1>1, NewGen DEF CtxType
<1>6. Typed'
  BY <1>1, <1>3, <1>5, TypedAfter DEF Typed
<1>7. Shape(p)'
  BY <1>1, <1>4, <1>5, ShapeKept
<1>8. \A q \in Process \ {p} : Left(q)' = Left(q)
  BY <1>3, <1>4, Same
<1>9. StartInv'
  BY <1>1, <1>3 DEF StartInv, On, Process
<1> QED
  BY <1>2, <1>3, <1>4, <1>6, <1>7, <1>8, <1>9 DEF Did

\* A tool that neither makes nor enters a network context.
LEMMA NetKept ==
    ASSUME Typed, NetInv, NEW p \in {"start", "visit"}, NEW is, Did(p, is), Watched,
           net' \in NetType, net'.gen = net.gen, net.conf \subseteq net'.conf,
           is.nid = proc[p].is.nid, Head(proc[p].todo) \in NetConfigure =>
               Head(proc[p].todo) \in net'.conf,
           Head(proc[p].todo) # "ncontext-create"
    PROVE  NetInv'
<1>0. PICK h : h = Head(proc[p].todo)
  OBVIOUS
<1>1. ~Vnet /\ net.gen # 0 => net'.conf = NetConfigure
  BY DEF NetInv, NetType
<1> SUFFICES ASSUME ~outlived'
             PROVE  /\ ~Late'
                    /\ Vnet /\ proc'["visit"].script => "ncontext-create" \in Left("visit")'
                    /\ Vnet /\ NetThere' => NetMade'
  BY <1>1 DEF NetInv, Did
<1>2. ~outlived /\ ~Late'
  BY DEF Watched
<1>3. Vnet /\ proc'["visit"].script => "ncontext-create" \in Left("visit")'
  <2>1. Vnet /\ proc["visit"].script => "ncontext-create" \in Left("visit")
    BY <1>2 DEF NetInv
  <2>2. proc'["visit"].script = proc["visit"].script
    BY DEF Did, Process
  <2>3. CASE p = "visit"
    BY <1>0, <2>1, <2>2, <2>3 DEF Did
  <2>4. CASE p # "visit"
    BY <2>1, <2>2, <2>4 DEF Did, Process
  <2> QED
    BY <2>3, <2>4
<1>4. ASSUME Vnet, NetThere' PROVE NetMade'
  <2>1. \A q \in Process : proc'[q].is.nid = proc[q].is.nid
    BY DEF Did
  <2>2. NetMade
    BY <1>2, <1>4, <2>1 DEF NetInv, NetThere
  <2>3. CASE net.conf = NetConfigure
    BY <2>3 DEF NetMade, NetType
  <2>4. CASE /\ proc["start"].is.nid = net.gen
             /\ NetConfigure \subseteq net.conf \cup Left("start")
             /\ \A q \in Process \ {"start"} : proc[q].is.nid # net.gen
    <3>1. NetConfigure \subseteq net'.conf \cup Left("start")'
      <4>1. CASE p = "start"
        BY <1>0, <2>4, <4>1 DEF Did
      <4>2. CASE p # "start"
        BY <2>4, <4>2 DEF Process, Did
      <4> QED
        BY <4>1, <4>2
    <3>2. "start" \in Process
      BY DEF Process
    <3> QED
      BY <2>1, <2>4, <3>1, <3>2 DEF NetMade
  <2> QED
    BY <2>2, <2>3, <2>4 DEF NetMade
<1> QED
  BY <1>2, <1>3, <1>4

\* A tool that neither makes nor enters a network context, makes no context, sets
\* no spaces and writes no run file.
LEMMA Ordinary ==
    ASSUME IInv, NEW p \in {"start", "visit"}, NEW is \in Confinement,
           proc[p].mode = "chain", Exec(p, is), Fits(p, is), Configures(p, is),
           UNCHANGED <<runfile, starts, visits>>, Watched,
           ctx' \in CtxType, net' \in NetType, CtxGrows, net'.gen = net.gen,
           net.conf \subseteq net'.conf, is.nid = proc[p].is.nid,
           p = "start" /\ Migrate => is.xid = proc[p].is.xid,
           Head(proc[p].todo) \notin {"vspace-set", "ncontext-create"}
    PROVE  IInv'
<1>0. Typed /\ BuildInv /\ RunInv /\ NetInv /\ p \in Process
      /\ \A q \in Process : Shape(q) /\ Place(q) /\ Made(q)
  BY DEF IInv, Process
<1>1. /\ ctx'.gen = ctx.gen /\ ctx.conf \subseteq ctx'.conf /\ ctx'.spaces = ctx.spaces
      /\ (ctx'.setup => ctx.setup)
      /\ ctx.gen \in Nat /\ net.gen \in Nat /\ starts \in Nat /\ net'.gen \in Nat
      /\ ctx.spaces <= starts /\ runfile \in Nat /\ ctx.gen <= ctx'.gen
  BY <1>0, NewGen DEF CtxGrows, Typed
<1>2. Typed' /\ Shape(p)' /\ StartInv' /\ Did(p, is)
  BY <1>1, Executed
<1>3. UNCHANGED kernel
  BY DEF Watched
<1>4. ASSUME NEW q \in Process, q # p PROVE Shape(q)' /\ Place(q)' /\ Made(q)'
  <2>1. proc'[q] = proc[q]
    BY <1>2, <1>4 DEF Did
  <2>2. NetGrows /\ starts' \in Nat /\ starts <= starts' /\ Shape(q) /\ Place(q) /\ Made(q)
    BY <1>0, <1>1 DEF NetGrows
  <2> QED
    BY <1>0, <1>1, <1>3, <2>1, <2>2, Bystander
<1>5. Place(p)' /\ Made(p)'
  BY <1>0, <1>1, <1>3, PlaceAfter, MadeAfter
<1>6. BuildInv'
  <2>1. Building' => Building
    BY <1>2 DEF Building, Process, Did
  <2>2. p = "visit" => proc[p].found # 0
    BY <1>0 DEF Shape, On
  <2> QED
    BY <1>0, <1>1, <1>2, <2>1, <2>2 DEF BuildInv, Did
<1>7. RunInv'
  BY <1>0, <1>1, <1>2 DEF RunInv, Process, Did
<1>8. NetInv'
  BY <1>0, <1>2, NetKept DEF Configures
<1> QED
  BY <1>2, <1>4, <1>5, <1>6, <1>7, <1>8 DEF IInv

-----------------------------------------------------------------------------
(* Processes begin and end.                                                *)

\* A process is at the begin of its chain, the first time or again.
Begun(p) ==
    /\ proc'[p].mode = "chain" /\ proc'[p].is = Host /\ proc'[p].todo # << >>
    /\ Ordered(proc'[p].todo)
    /\ \/ Left(p)' = Plan(p) \ {"ncontext-migrate"} /\ proc'[p].script = Vnet
       \/ /\ Left(p)' = (Plan(p) \ NetPlan) \cup {"ncontext-migrate"}
          /\ Vnet /\ ~proc'[p].script

\* It fulfils what is said of every process, as it has nothing behind it but to wait.
LEMMA BegunIsFine ==
    ASSUME NEW p \in {"start", "visit"}, Begun(p), UNCHANGED kernel, Typed,
           starts' \in Nat, ctx'.gen \in Nat, net'.gen \in Nat,
           IF p = "start" THEN proc'[p].found = 0
           ELSE proc'[p].found # 0 /\ proc'[p].found <= ctx'.gen,
           Migrate /\ proc'[p].found # 0 /\ proc'[p].found = ctx'.gen =>
               Required \subseteq ctx'.conf
    PROVE  Shape(p)' /\ Place(p)' /\ Made(p)'
<1>1. Vnet' = Vnet /\ Migrate' = Migrate /\ Plan(p)' = Plan(p)
  BY DEF Vnet, Migrate, Plan, NetPlan
<1>2. \A t \in Plan(p) \ NetPlan : Rank(t) > 3
  <2>1. CASE p = "visit"
    BY <2>1, Ranks DEF Plan
  <2>2. CASE p = "start" /\ Migrate
    <3>1. \A t \in Configure : Rank(t) > 3
      <4>1. \A t \in Configure : Rank(t) \in 8 .. 16
        BY MigratingChain
      <4> QED
        BY <4>1
    <3> QED
      BY <2>2, <3>1, Ranks DEF Plan
  <2>3. CASE p = "start" /\ ~Migrate
    BY <2>3, Ranks DEF Plan
  <2> QED
    BY <2>1, <2>2, <2>3
<1>3. \A t \in NetPlan : Rank(t) <= 3
  BY Ranks DEF NetPlan
<1>4. \A t \in Left(p)', u \in Plan(p) \ {"ncontext-migrate"} :
         Rank(t) < Rank(u) => u \in Left(p)'
  <2>1. CASE Left(p)' = Plan(p) \ {"ncontext-migrate"}
    BY <2>1
  <2>2. CASE Left(p)' = (Plan(p) \ NetPlan) \cup {"ncontext-migrate"}
    <3> SUFFICES ASSUME NEW t \in Left(p)', NEW u \in NetPlan \ {"ncontext-migrate"},
                        Rank(t) < Rank(u)
                 PROVE  FALSE
      BY <2>2
    <3>1. Rank(u) <= 3 /\ Rank(t) \in 1 .. 20 /\ Rank(u) \in 1 .. 20
      BY <1>3, RankIsNat
    <3>2. t = "ncontext-migrate"
      BY <1>2, <2>2, <3>1
    <3> QED
      BY <3>1, <3>2, Ranks
  <2> QED
    BY <2>1, <2>2 DEF Begun
<1>5. /\ Left(p)' \subseteq Plan(p)
      /\ proc'[p].script => Vnet /\ "ncontext-migrate" \notin Left(p)'
      /\ Vnet /\ ~proc'[p].script =>
            {"ncontext-create", "nattribute", "naddress"} \cap Left(p)' = {}
  <2>1. Vnet => NetPlan = {"ncontext-create", "ncontext-migrate", "nattribute", "naddress"}
    BY DEF NetPlan
  <2>2. NetPlan \subseteq Plan(p)
    BY DEF Plan
  <2> QED
    BY <2>1, <2>2 DEF Begun
<1>6. Shape(p)'
  BY <1>1, <1>4, <1>5 DEF Shape, Begun, On
<1>7. Plan(p) \ NetPlan \subseteq Left(p)'
  <2>1. Rank("ncontext-migrate") = 3 /\ ~(3 > 3)
    BY Ranks
  <2>2. "ncontext-migrate" \notin Plan(p) \ NetPlan
    BY <1>2, <2>1
  <2> QED
    BY <2>2 DEF Begun
<1>8. IF p = "visit"
      THEN {"vspace-enter", "vtag-migrate", "vcontext-migrate"} \subseteq Left(p)'
      ELSE IF Migrate
      THEN {"vtag-create", "vspace-new", "vcontext-create", "env", "vcontext-self"}
              \cup Configure \subseteq Left(p)'
      ELSE {"chcontext-compat", "env", "capchroot"} \subseteq Left(p)'
  <2>1. Configure \cap NetPlan = {}
    BY DEF Configure, NetPlan
  <2> QED
    BY <1>7, <2>1 DEF Plan, NetPlan
<1>9. {"ncontext-create", "ncontext-migrate", "chbind-compat"} \cap Left(p)' # {}
  BY DEF Begun, Plan, NetPlan
<1>10. Place(p)'
  <2>1. "pptag" \in kernel => Migrate
    BY DEF Typed, Vnet, Migrate
  <2>2. proc'[p].is = Host
    BY DEF Begun
  <2> QED
    BY <1>1, <1>8, <1>9, <2>1, <2>2 DEF Place, Host, Past
<1>11. Made(p)'
  <2>1. Required \subseteq Configure /\ "vspace-set" \in Configure
    BY DEF Required, Configure
  <2> QED
    BY <1>1, <1>8, <2>1 DEF Made, Past
<1> QED
  BY <1>6, <1>10, <1>11

Gone(p) == /\ proc'[p].mode = "idle" /\ proc'[p].is = Host /\ proc'[p].found = 0
           /\ ~proc'[p].script /\ proc'[p].execs = 0 /\ proc'[p].todo = << >>

\* Processes that end take nothing away from those that do not.
LEMMA ProcessesEnd ==
    ASSUME IInv, Watched, UNCHANGED <<ctx, net, runfile, starts, visits>>,
           proc' \in [Process -> State], \A q \in Process : proc'[q] = proc[q] \/ Gone(q)
    PROVE  IInv'
<1>0. Typed /\ BuildInv /\ RunInv /\ NetInv /\ StartInv
      /\ \A q \in Process : Shape(q) /\ Place(q) /\ Made(q)
  BY DEF IInv
<1>1. UNCHANGED kernel /\ Vnet' = Vnet /\ Migrate' = Migrate
  BY DEF Watched, Vnet, Migrate
<1>2. Typed'
  BY <1>0, TypedAfter DEF Typed, CtxType, NetType
<1>3. ASSUME NEW q \in Process
      PROVE  /\ Shape(q)' /\ Place(q)' /\ Made(q)'
             /\ Left(q)' = {} \/ (Left(q)' = Left(q) /\ proc'[q] = proc[q])
  <2>1. CASE proc'[q] = proc[q]
    <3>1. Shape(q)' /\ Place(q)' /\ Made(q)'
      BY <1>0, <1>1, <2>1, NewGen, Bystander DEF NetGrows, CtxGrows
    <3> QED
      BY <1>1, <2>1, <3>1, Same
  <2>2. CASE Gone(q)
    <3>1. IdleFits'
      BY IdleIsFine, PTL
    <3> QED
      BY <1>2, <2>2, <3>1 DEF IdleFits, Gone
  <2> QED
    BY <2>1, <2>2
<1>4. \A q \in Process : proc'[q].is = Host \/ proc'[q] = proc[q]
  BY DEF Gone
<1>5. {"start", "visit"} \subseteq Process
  BY DEF Process
<1>6. BuildInv'
  <2>1. Building' => Building
    BY <1>1, <1>3, <1>5 DEF Building
  <2>2. Host.xid = 0
    BY DEF Host
  <2> QED
    BY <1>0, <2>1, <2>2 DEF BuildInv, Gone
<1>7. RunInv'
  BY <1>0, <1>1, <1>3, <1>5 DEF RunInv
<1>8. NetInv'
  <2> SUFFICES ASSUME ~outlived'
               PROVE  /\ ~Late'
                      /\ Vnet /\ proc'["visit"].script => "ncontext-create" \in Left("visit")'
                      /\ Vnet /\ NetThere' => NetMade'
    BY <1>0, <1>1 DEF NetInv
  <2>1. ~outlived /\ ~Late'
    BY DEF Watched
  <2>2. Vnet /\ proc'["visit"].script => "ncontext-create" \in Left("visit")'
    <3>1. Left("visit")' = {} => ~proc'["visit"].script \/ proc'["visit"] = proc["visit"]
      BY <1>5 DEF Gone
    <3>2. proc'["visit"] = proc["visit"] => Left("visit")' = Left("visit")
      BY DEF Left
    <3> QED
      BY <1>0, <1>3, <1>5, <2>1, <3>1, <3>2 DEF NetInv
  <2>3. ASSUME Vnet, NetThere' PROVE NetMade'
    <3>1. PICK q \in Process : net.gen # 0 /\ proc'[q].is.nid = net.gen
      BY <2>3 DEF NetThere
    <3>2. Host.nid = 0
      BY DEF Host
    <3>3. proc'[q] = proc[q]
      BY <1>4, <3>1, <3>2
    <3>4. NetMade
      BY <1>0, <2>1, <2>3, <3>1, <3>3 DEF NetInv, NetThere
    <3>5. CASE net.conf = NetConfigure
      BY <3>5 DEF NetMade
    <3>6. CASE /\ proc["start"].is.nid = net.gen
               /\ NetConfigure \subseteq net.conf \cup Left("start")
               /\ \A r \in Process \ {"start"} : proc[r].is.nid # net.gen
      <4>1. q = "start" /\ proc'["start"] = proc["start"]
        BY <3>1, <3>3, <3>6
      <4>2. Left("start")' = Left("start")
        BY <4>1 DEF Left
      <4>3. \A r \in Process \ {"start"} : proc'[r].is.nid # net.gen
        BY <1>4, <3>1, <3>2, <3>6
      <4> QED
        BY <3>6, <4>1, <4>2, <4>3 DEF NetMade
    <3> QED
      BY <3>4, <3>5, <3>6 DEF NetMade
  <2> QED
    BY <2>1, <2>2, <2>3
<1>9. StartInv'
  BY <1>0, <1>5 DEF StartInv, On, Gone
<1> QED
  BY <1>2, <1>3, <1>6, <1>7, <1>8, <1>9 DEF IInv

\* chbind does the rest of the command over again.
LEMMA RunAgain ==
    ASSUME IInv, NEW p \in {"start", "visit"}, Watched,
           UNCHANGED <<ctx, net, runfile, starts, visits>>,
           proc' \in [Process -> State], \A q \in Process \ {p} : proc'[q] = proc[q],
           proc[p].mode = "chain", Vnet, Begun(p), ~proc'[p].script,
           proc'[p].found = proc[p].found, proc'[p].execs = proc[p].execs,
           p = "start" => runfile = 0
    PROVE  IInv'
<1>0. Typed /\ BuildInv /\ RunInv /\ NetInv /\ StartInv /\ p \in Process
      /\ \A q \in Process : Shape(q) /\ Place(q) /\ Made(q)
  BY DEF IInv, Process
<1>1. UNCHANGED kernel /\ Vnet' = Vnet /\ Migrate' = Migrate
  BY DEF Watched, Vnet, Migrate
<1>2. Typed'
  BY <1>0, TypedAfter DEF Typed, CtxType, NetType
<1>3. \A q \in Process \ {p} : Left(q)' = Left(q)
  BY <1>1, Same
<1>4. ASSUME NEW q \in Process, q # p PROVE Shape(q)' /\ Place(q)' /\ Made(q)'
  BY <1>0, <1>1, <1>4, NewGen, Bystander DEF NetGrows, CtxGrows
<1>5. /\ IF p = "start" THEN proc[p].found = 0
         ELSE proc[p].found # 0 /\ proc[p].found <= ctx.gen
      /\ Migrate /\ proc[p].found # 0 /\ proc[p].found = ctx.gen => Required \subseteq ctx.conf
  BY <1>0 DEF Shape, Made, On
<1>6. Shape(p)' /\ Place(p)' /\ Made(p)'
  BY <1>0, <1>1, <1>5, NewGen, BegunIsFine
<1>7. proc'[p].is.nid = 0 /\ proc'[p].is.xid = 0
  BY DEF Begun, Host
<1>8. BuildInv'
  <2>1. CASE p = "start"
    BY <1>7, <2>1 DEF BuildInv, Building
  <2>2. CASE p = "visit"
    <3>1. Building' => Building
      BY <1>1, <1>3, <2>2 DEF Building, Process
    <3>2. \A q \in Process : proc'[q].found = proc[q].found
      BY <1>0
    <3>3. \A q \in Process : proc'[q].is.xid # 0 => proc'[q] = proc[q]
      BY <1>7
    <3> QED
      BY <1>0, <3>1, <3>2, <3>3 DEF BuildInv
  <2> QED
    BY <2>1, <2>2
<1>9. RunInv'
  BY <1>0, <1>1, <1>3 DEF RunInv, Process
<1>10. NetInv'
  <2> SUFFICES ASSUME ~outlived'
               PROVE  /\ ~Late'
                      /\ Vnet /\ proc'["visit"].script => "ncontext-create" \in Left("visit")'
                      /\ Vnet /\ NetThere' => NetMade'
    BY <1>0, <1>1 DEF NetInv
  <2>1. ~outlived /\ ~Late'
    BY DEF Watched
  <2>2. Vnet /\ proc'["visit"].script => "ncontext-create" \in Left("visit")'
    BY <1>0, <1>3, <2>1 DEF NetInv, Process
  <2>3. ASSUME Vnet, NetThere' PROVE NetMade'
    <3>1. PICK q \in Process : net.gen # 0 /\ proc'[q].is.nid = net.gen
      BY <2>3 DEF NetThere
    <3>2. q # p /\ proc[q].is.nid = net.gen
      BY <1>7, <3>1
    <3>3. NetMade
      BY <1>0, <2>1, <2>3, <3>1, <3>2 DEF NetInv, NetThere
    <3>4. CASE net.conf = NetConfigure
      BY <3>4 DEF NetMade
    <3>5. CASE /\ proc["start"].is.nid = net.gen
               /\ NetConfigure \subseteq net.conf \cup Left("start")
               /\ \A r \in Process \ {"start"} : proc[r].is.nid # net.gen
      <4>1. q = "start" /\ p = "visit"
        BY <3>2, <3>5
      <4>2. proc'["start"] = proc["start"] /\ Left("start")' = Left("start")
        BY <1>3, <4>1
      <4>3. \A r \in Process \ {"start"} : proc'[r].is.nid # net.gen
        BY <1>7, <3>1, <3>5
      <4> QED
        BY <3>5, <4>2, <4>3 DEF NetMade
    <3> QED
      BY <3>3, <3>4, <3>5 DEF NetMade
  <2> QED
    BY <2>1, <2>2, <2>3
<1>11. StartInv'
  BY <1>0 DEF StartInv, On, Begun, Process
<1> QED
  BY <1>2, <1>4, <1>6, <1>8, <1>9, <1>10, <1>11 DEF IInv

\* An exit ends the process, or chbind takes its code 254 for its own.
LEMMA ExitKeeps ==
    ASSUME IInv, NEW p \in Process, NEW c \in 0 .. 255, Exit(p, c), Watched,
           UNCHANGED <<starts, visits>>,
           c = 254 /\ proc[p].script =>
               /\ proc[p].mode = "chain"
               /\ p = "start" => runfile = 0
    PROVE  IInv'
<1>0. Typed /\ Shape(p) /\ proc[p] \in State
  BY DEF IInv, Typed
<1>1. PICK s : s = Ended(proc[p], p, c)
  OBVIOUS
<1>2. /\ UNCHANGED <<ctx, net, runfile>> /\ proc' = [proc EXCEPT ![p] = s]
  BY <1>1 DEF Exit
<1>3. CASE proc[p].script /\ c = 254
  <2>1. p \in {"start", "visit"} /\ Vnet
    BY <1>0, <1>3 DEF Shape, Process
  <2>2. /\ s.mode = "chain" /\ s.is = Host /\ s.found = proc[p].found /\ ~s.script
        /\ s.execs = proc[p].execs /\ s.todo = <<"ncontext-migrate">> \o ToolsOf(p)
        /\ s \in State
    <3>1. AgainIs(proc[p], p, s)
      BY <1>0, <1>1, <1>3, EndedIs
    <3> QED
      BY <2>1, <3>1 DEF AgainIs
  <2>3. /\ s.todo # << >> /\ Ordered(s.todo)
        /\ Elems(s.todo) = (Plan(p) \ NetPlan) \cup {"ncontext-migrate"}
    BY <2>1, <2>2, Chains
  <2>4. /\ proc' \in [Process -> State] /\ proc'[p] = s
        /\ \A q \in Process \ {p} : proc'[q] = proc[q]
    BY <1>0, <1>2, <2>2 DEF Typed
  <2>5. Left(p)' = Elems(s.todo)
    BY <2>4 DEF Left
  <2>6. Begun(p)
    BY <2>1, <2>2, <2>3, <2>4, <2>5 DEF Begun
  <2> QED
    BY <1>2, <1>3, <2>1, <2>2, <2>4, <2>6, RunAgain
<1>4. CASE ~(proc[p].script /\ c = 254)
  <2>1. /\ s \in State /\ s.mode = "idle" /\ s.is = Host /\ s.found = 0 /\ ~s.script
        /\ s.execs = 0 /\ s.todo = << >>
    <3>1. IdleIs(s)
      BY <1>0, <1>1, <1>4, EndedIs
    <3> QED
      BY <3>1 DEF IdleIs
  <2>2. /\ proc' \in [Process -> State] /\ proc'[p] = s
        /\ \A q \in Process \ {p} : proc'[q] = proc[q]
    BY <1>0, <1>2, <2>1 DEF Typed
  <2>3. \A q \in Process : proc'[q] = proc[q] \/ Gone(q)
    BY <2>1, <2>2 DEF Gone
  <2> QED
    BY <1>2, <2>2, <2>3, ProcessesEnd
<1> QED
  BY <1>3, <1>4

\* A program of the guest ends, by itself.
LEMMA ProgramEnds == 254 \notin ExitCodes /\ IInv /\ programEnds /\ Watched => IInv'
<1> SUFFICES ASSUME 254 \notin ExitCodes, IInv, programEnds, Watched PROVE IInv'
  OBVIOUS
<1>1. PICK p \in Process, c \in ExitCodes : Exit(p, c)
  BY DEF programEnds
<1>2. c \in 0 .. 255 /\ c # 254
  BY ChainAssumption
<1>3. UNCHANGED <<starts, visits>>
  BY DEF programEnds
<1> QED
  BY <1>1, <1>2, <1>3, ExitKeeps

\* "vserver stop" ends the processes of the context and no chain is run again.
LEMMA StopVserver == IInv /\ stopVserver /\ Watched => IInv'
<1> SUFFICES ASSUME IInv, stopVserver, Watched PROVE IInv'
  OBVIOUS
<1>1. /\ UNCHANGED <<ctx, net, runfile, starts, visits>>
      /\ proc' = [q \in Process |-> IF q \in InCtx(ctx.gen) THEN Ended(proc[q], q, 137)
                                    ELSE proc[q]]
  BY DEF stopVserver
<1>2. ASSUME NEW q \in Process
      PROVE  /\ proc'[q] \in State /\ (proc'[q] = proc[q] \/ Gone(q))
  <2>1. proc[q] \in State /\ 137 \in 0 .. 255 /\ 137 # 254
    BY DEF IInv, Typed
  <2>2. CASE proc'[q] = proc[q]
    BY <2>1, <2>2
  <2>3. CASE proc'[q] = Ended(proc[q], q, 137)
    <3>1. IdleIs(proc'[q])
      BY <2>1, <2>3, EndedIs
    <3> QED
      BY <3>1 DEF IdleIs, Gone
  <2> QED
    BY <1>1, <2>2, <2>3
<1>3. proc' \in [Process -> State]
  BY <1>1, <1>2
<1> QED
  BY <1>1, <1>2, <1>3, ProcessesEnd

\* A daemon is what the program is that starts it.
LEMMA Fork == IInv /\ fork /\ Watched => IInv'
<1> SUFFICES ASSUME IInv, fork, Watched PROVE IInv'
  OBVIOUS
<1>0. Typed /\ BuildInv /\ RunInv /\ NetInv /\ StartInv
      /\ \A q \in Process : Shape(q) /\ Place(q) /\ Made(q)
  BY DEF IInv
<1>1. PICK p \in {"start", "visit"} :
         /\ proc[p].mode = "guest" /\ proc["daemon"].mode = "idle"
         /\ proc' = [proc EXCEPT !["daemon"] = [proc[p] EXCEPT !.script = FALSE]]
  BY DEF fork
<1>2. UNCHANGED <<kernel, ctx, net, runfile, starts, visits>> /\ Vnet' = Vnet /\ Migrate' = Migrate
  BY DEF fork, Watched, Vnet, Migrate
<1>3. PICK s : s = [proc[p] EXCEPT !.script = FALSE]
  OBVIOUS
<1>4. p \in Process /\ "daemon" \in Process /\ proc[p] \in State
  BY <1>0 DEF Process, Typed
<1>5. /\ s \in State /\ s.mode = "guest" /\ s.todo = proc[p].todo /\ ~s.script
      /\ s.is = proc[p].is /\ s.found = proc[p].found
  BY <1>1, <1>3, <1>4 DEF State
<1>6. /\ proc' \in [Process -> State] /\ proc'["daemon"] = s
      /\ \A q \in Process \ {"daemon"} : proc'[q] = proc[q]
  BY <1>0, <1>1, <1>3, <1>4, <1>5 DEF Typed
<1>7. Typed'
  BY <1>0, <1>2, <1>6, TypedAfter DEF Typed, CtxType, NetType
<1>8. ASSUME NEW q \in Process \ {"daemon"}
      PROVE  /\ Shape(q)' /\ Place(q)' /\ Made(q)' /\ Left(q)' = Left(q)
  BY <1>0, <1>2, <1>6, NewGen, Bystander, Same DEF NetGrows, CtxGrows
<1>9. Left(p) = {} /\ Left("daemon")' = {}
  <2>1. Left(p) = {}
    BY <1>0, <1>1, <1>4 DEF Shape
  <2> QED
    BY <1>5, <1>6, <2>1 DEF Left
<1>10. Shape("daemon")'
  <2>1. Ordered(proc[p].todo) /\ proc[p].found <= ctx.gen
    BY <1>0, <1>4 DEF Shape
  <2> QED
    BY <1>2, <1>5, <1>6, <1>9, <2>1 DEF Shape
<1>11. On(p) /\ On("daemon")' /\ \A tools : Past(p, tools) /\ Past("daemon", tools)'
  BY <1>1, <1>5, <1>6, <1>9 DEF On, Past
<1>12. Place("daemon")'
  <2>1. Place(p)
    BY <1>0, <1>4
  <2> QED
    BY <1>2, <1>5, <1>6, <1>9, <1>11, <2>1 DEF Place
<1>13. Made("daemon")'
  <2>1. Made(p)
    BY <1>0, <1>4
  <2> QED
    BY <1>2, <1>5, <1>6, <1>11, <2>1 DEF Made
<1>14. BuildInv'
  <2>1. Building' => Building /\ p # "start"
    BY <1>2, <1>6, <1>8, <1>9 DEF Building, Process
  <2> QED
    BY <1>0, <1>2, <1>4, <1>5, <1>6, <2>1 DEF BuildInv
<1>15. RunInv'
  BY <1>0, <1>2, <1>8 DEF RunInv, Process
<1>16. NetInv'
  <2> SUFFICES ASSUME ~outlived'
               PROVE  /\ ~Late'
                      /\ Vnet /\ proc'["visit"].script => "ncontext-create" \in Left("visit")'
                      /\ Vnet /\ NetThere' => NetMade'
    BY <1>0, <1>2 DEF NetInv
  <2>1. ~outlived /\ ~Late'
    BY DEF Watched
  <2>2. Vnet /\ proc'["visit"].script => "ncontext-create" \in Left("visit")'
    BY <1>0, <1>6, <1>8, <2>1 DEF NetInv, Process
  <2>3. ASSUME Vnet, NetThere' PROVE NetMade'
    <3>1. NetThere
      BY <1>2, <1>4, <1>5, <1>6, <2>3 DEF NetThere
    <3>2. NetMade
      BY <1>0, <2>1, <2>3, <3>1 DEF NetInv
    <3>3. CASE net.conf = NetConfigure
      BY <1>2, <3>3 DEF NetMade
    <3>4. CASE /\ proc["start"].is.nid = net.gen
               /\ NetConfigure \subseteq net.conf \cup Left("start")
               /\ \A r \in Process \ {"start"} : proc[r].is.nid # net.gen
      <4>1. CASE p = "start"
        <5>1. net.conf = NetConfigure
          BY <1>9, <3>4, <4>1, <1>0, NewGen
        <5> QED
          BY <1>2, <5>1 DEF NetMade
      <4>2. CASE p = "visit"
        <5>1. \A r \in Process \ {"start"} : proc'[r].is.nid # net.gen
          BY <1>4, <1>5, <1>6, <3>4, <4>2
        <5> QED
          BY <1>2, <1>6, <1>8, <3>4, <5>1 DEF NetMade, Process
      <4> QED
        BY <4>1, <4>2
    <3> QED
      BY <3>2, <3>3, <3>4 DEF NetMade
  <2> QED
    BY <2>1, <2>2, <2>3
<1>17. StartInv'
  BY <1>0, <1>2, <1>6 DEF StartInv, On, Process
<1> QED
  BY <1>7, <1>8, <1>10, <1>12, <1>13, <1>14, <1>15, <1>16, <1>17 DEF IInv, Process

\* A start and a visitor begin in front of the whole chain.
LEMMA WholeChain ==
    ASSUME NEW p \in {"start", "visit"}, Typed, NEW found \in Nat, UNCHANGED kernel,
           proc' = [proc EXCEPT ![p] =
                      [Idle EXCEPT !.mode = "chain", !.script = "vnet" \in kernel,
                                   !.todo = NetTools \o ToolsOf(p), !.found = found]]
    PROVE  /\ proc' \in [Process -> State] /\ \A q \in Process \ {p} : proc'[q] = proc[q]
           /\ Begun(p) /\ proc'[p].found = found /\ proc'[p].execs = 0
           /\ proc'[p].script => "ncontext-create" \in Left(p)'
<1>1. PICK c : c = NetTools \o ToolsOf(p)
  OBVIOUS
<1>2. /\ c \in Seq(Tools) /\ Ordered(c) /\ c # << >>
      /\ Elems(c) = Plan(p) \ {"ncontext-migrate"}
  BY <1>1, Chains
<1>3. PICK b : b = ("vnet" \in kernel)
  OBVIOUS
<1>4. PICK s : s = [Idle EXCEPT !.mode = "chain", !.script = b, !.todo = c, !.found = found]
  OBVIOUS
<1>5. s = [mode |-> "chain", todo |-> c, script |-> b, is |-> Host, found |-> found,
           execs |-> 0, rc |-> 0]
  BY <1>4 DEF Idle
<1>6. Host \in Confinement
  BY DEF Host, Confinement
<1>7. s \in State
  BY <1>2, <1>3, <1>5, <1>6 DEF State
<1>8. /\ s.mode = "chain" /\ s.todo = c /\ s.script = b /\ s.is = Host /\ s.found = found
      /\ s.execs = 0
  BY <1>5
<1>9. proc' = [proc EXCEPT ![p] = s]
  BY <1>1, <1>3, <1>4
<1>10. /\ proc' \in [Process -> State] /\ proc'[p] = s
       /\ \A q \in Process \ {p} : proc'[q] = proc[q]
  BY <1>7, <1>9 DEF Typed, Process
<1>11. Left(p)' = Plan(p) \ {"ncontext-migrate"}
  BY <1>2, <1>8, <1>10 DEF Left
<1>12. Begun(p)
  BY <1>2, <1>3, <1>8, <1>10, <1>11 DEF Begun, Vnet
<1>13. Vnet => "ncontext-create" \in Left(p)'
  BY <1>11 DEF Plan, NetPlan
<1> QED
  BY <1>3, <1>8, <1>10, <1>12, <1>13 DEF Vnet

\* "vserver start", when the guest does not run.
LEMMA StartVserver == IInv /\ startVserver /\ Watched => IInv'
<1> SUFFICES ASSUME IInv, startVserver, Watched PROVE IInv'
  OBVIOUS
<1>0. Typed /\ BuildInv /\ RunInv /\ NetInv /\ StartInv
      /\ \A q \in Process : Shape(q) /\ Place(q) /\ Made(q)
  BY DEF IInv
<1>1. /\ proc["start"].mode = "idle" /\ starts < MaxStarts /\ starts' = starts + 1
      /\ runfile' = 0 /\ UNCHANGED <<ctx, net, visits>>
  BY DEF startVserver
<1>2. UNCHANGED kernel /\ Vnet' = Vnet /\ Migrate' = Migrate
  BY DEF Watched, Vnet, Migrate
<1>3. proc' = [proc EXCEPT !["start"] =
                 [Idle EXCEPT !.mode = "chain", !.script = "vnet" \in kernel,
                              !.todo = NetTools \o ToolsOf("start"), !.found = 0]]
  <2>1. proc' = [proc EXCEPT !["start"] =
                   [Idle EXCEPT !.mode = "chain", !.script = "vnet" \in kernel,
                                !.todo = NetTools \o ToolsOf("start")]]
    BY DEF startVserver, ToolsOf
  <2>2. PICK b : b = ("vnet" \in kernel)
    OBVIOUS
  <2>3. PICK c : c = NetTools \o ToolsOf("start")
    OBVIOUS
  <2>4. [Idle EXCEPT !.mode = "chain", !.script = b, !.todo = c]
           = [Idle EXCEPT !.mode = "chain", !.script = b, !.todo = c, !.found = 0]
    <3>1. PICK x : x = [Idle EXCEPT !.mode = "chain", !.script = b, !.todo = c]
      OBVIOUS
    <3>2. PICK y : y = [Idle EXCEPT !.mode = "chain", !.script = b, !.todo = c, !.found = 0]
      OBVIOUS
    <3>3. x = [mode |-> "chain", todo |-> c, script |-> b, is |-> Host, found |-> 0,
               execs |-> 0, rc |-> 0]
      BY <3>1 DEF Idle
    <3>4. y = [mode |-> "chain", todo |-> c, script |-> b, is |-> Host, found |-> 0,
               execs |-> 0, rc |-> 0]
      BY <3>2 DEF Idle
    <3> QED
      BY <3>1, <3>2, <3>3, <3>4
  <2> QED
    BY <2>1, <2>2, <2>3, <2>4
<1>4. /\ proc' \in [Process -> State] /\ \A q \in Process \ {"start"} : proc'[q] = proc[q]
      /\ Begun("start") /\ proc'["start"].found = 0 /\ proc'["start"].execs = 0
  BY <1>0, <1>2, <1>3, WholeChain
<1>5. starts \in Nat /\ starts' \in 0 .. MaxStarts /\ starts <= starts' /\ ctx.spaces <= starts'
  BY <1>0, <1>1, ChainAssumption DEF Typed
<1>6. Typed'
  BY <1>0, <1>1, <1>4, <1>5, TypedAfter DEF Typed, CtxType, NetType
<1>7. ASSUME NEW q \in Process, q # "start"
      PROVE  Shape(q)' /\ Place(q)' /\ Made(q)' /\ Left(q)' = Left(q)
  BY <1>0, <1>1, <1>2, <1>4, <1>5, <1>7, NewGen, Bystander, Same DEF NetGrows, CtxGrows
<1>8. Shape("start")' /\ Place("start")' /\ Made("start")'
  BY <1>0, <1>1, <1>2, <1>4, <1>5, NewGen, BegunIsFine
<1>9. proc'["start"].is = Host /\ proc["start"].is = Host /\ Host.xid = 0 /\ Host.nid = 0
  BY <1>0, <1>1, <1>4 DEF Begun, Shape, Host, Process
<1>10. BuildInv'
  BY <1>9 DEF BuildInv, Building
<1>11. RunInv'
  BY <1>0, <1>1, <1>2 DEF RunInv
<1>12. NetInv'
  <2> SUFFICES ASSUME ~outlived'
               PROVE  /\ ~Late'
                      /\ Vnet /\ proc'["visit"].script => "ncontext-create" \in Left("visit")'
                      /\ Vnet /\ NetThere' => NetMade'
    BY <1>0, <1>1, <1>2 DEF NetInv
  <2>1. ~outlived /\ ~Late'
    BY DEF Watched
  <2>2. Vnet /\ proc'["visit"].script => "ncontext-create" \in Left("visit")'
    BY <1>0, <1>4, <1>7, <2>1 DEF NetInv, Process
  <2>3. ASSUME Vnet, NetThere' PROVE NetMade'
    <3>1. net.gen # 0 /\ NetThere
      BY <1>1, <1>4, <1>9, <2>3 DEF NetThere
    <3>2. net.conf = NetConfigure
      BY <1>0, <1>9, <2>1, <2>3, <3>1 DEF NetInv, NetMade
    <3> QED
      BY <1>1, <3>2 DEF NetMade
  <2> QED
    BY <2>1, <2>2, <2>3
<1>13. StartInv'
  BY <1>1, <1>4, <1>5 DEF StartInv, On, Begun
<1> QED
  BY <1>6, <1>7, <1>8, <1>10, <1>11, <1>12, <1>13 DEF IInv, Process

\* "vserver suexec", when the guest runs, and so is configured.
LEMMA SuexecVserver == IInv /\ suexecVserver /\ Watched => IInv'
<1> SUFFICES ASSUME IInv, suexecVserver, Watched PROVE IInv'
  OBVIOUS
<1>0. Typed /\ BuildInv /\ RunInv /\ NetInv /\ StartInv
      /\ \A q \in Process : Shape(q) /\ Place(q) /\ Made(q)
  BY DEF IInv
<1>1. /\ proc["visit"].mode = "idle" /\ visits < MaxVisits /\ visits' = visits + 1
      /\ runfile # 0 /\ ctx.gen # 0 /\ UNCHANGED <<ctx, net, runfile, starts>>
  BY DEF suexecVserver, isVserverRunning, CtxThere
<1>2. UNCHANGED kernel /\ Vnet' = Vnet /\ Migrate' = Migrate
  BY DEF Watched, Vnet, Migrate
<1>3. /\ proc' \in [Process -> State] /\ \A q \in Process \ {"visit"} : proc'[q] = proc[q]
      /\ Begun("visit") /\ proc'["visit"].found = ctx.gen
      /\ proc'["visit"].script => "ncontext-create" \in Left("visit")'
  <2>1. ToolsOf("visit") = VisitTools
    BY DEF ToolsOf
  <2>2. proc' = [proc EXCEPT !["visit"] =
                   [Idle EXCEPT !.mode = "chain", !.script = "vnet" \in kernel,
                                !.todo = NetTools \o ToolsOf("visit"), !.found = ctx.gen]]
    BY <2>1 DEF suexecVserver
  <2> QED
    BY <1>0, <1>2, <2>2, NewGen, WholeChain
<1>4. visits' \in 0 .. MaxVisits
  BY <1>0, <1>1, ChainAssumption DEF Typed
<1>5. Typed'
  BY <1>0, <1>1, <1>3, <1>4, TypedAfter DEF Typed, CtxType, NetType
<1>6. ASSUME NEW q \in Process, q # "visit"
      PROVE  Shape(q)' /\ Place(q)' /\ Made(q)' /\ Left(q)' = Left(q)
  BY <1>0, <1>1, <1>2, <1>3, <1>6, NewGen, Bystander, Same DEF NetGrows, CtxGrows
<1>7. Migrate => Required \subseteq ctx.conf
  BY <1>0, <1>1 DEF RunInv
<1>8. Shape("visit")' /\ Place("visit")' /\ Made("visit")'
  BY <1>0, <1>1, <1>2, <1>3, <1>7, NewGen, BegunIsFine
<1>9. proc'["visit"].is = Host /\ proc["visit"].is = Host /\ Host.nid = 0
  BY <1>0, <1>1, <1>3 DEF Begun, Shape, Host, Process
<1>10. BuildInv'
  <2>1. ~Building
    BY <1>0, <1>1 DEF Building, RunInv
  <2> QED
    BY <1>2, <1>3, <1>6, <2>1 DEF BuildInv, Building, Process
<1>11. RunInv'
  BY <1>0, <1>1, <1>2, <1>6 DEF RunInv, Process
<1>12. NetInv'
  <2> SUFFICES ASSUME ~outlived'
               PROVE  /\ ~Late'
                      /\ Vnet /\ proc'["visit"].script => "ncontext-create" \in Left("visit")'
                      /\ Vnet /\ NetThere' => NetMade'
    BY <1>0, <1>1, <1>2 DEF NetInv
  <2>1. ~outlived /\ ~Late'
    BY DEF Watched
  <2>2. ASSUME Vnet, NetThere' PROVE NetMade'
    <3>1. NetThere /\ net.gen # 0
      BY <1>1, <1>3, <1>9, <2>2 DEF NetThere
    <3>2. NetMade
      BY <1>0, <2>1, <2>2, <3>1 DEF NetInv
    <3>3. /\ proc'["start"] = proc["start"] /\ Left("start")' = Left("start")
          /\ \A q \in Process \ {"start"} : proc'[q].is.nid \in {0, proc[q].is.nid}
      BY <1>3, <1>6, <1>9 DEF Process
    <3> QED
      BY <1>1, <3>1, <3>2, <3>3 DEF NetMade
  <2> QED
    BY <1>3, <2>1, <2>2
<1>13. StartInv'
  BY <1>0, <1>1, <1>3 DEF StartInv, On, Process
<1> QED
  BY <1>5, <1>6, <1>8, <1>10, <1>11, <1>12, <1>13 DEF IInv, Process

\* "vserver suexec", when only the run file is there.
LEMMA SuexecRefused == IInv /\ suexecRefused /\ Watched => IInv'
<1> SUFFICES ASSUME IInv, suexecRefused, Watched PROVE IInv'
  OBVIOUS
<1>0. Typed /\ BuildInv /\ RunInv /\ NetInv /\ StartInv
      /\ \A q \in Process : Shape(q) /\ Place(q) /\ Made(q)
  BY DEF IInv
<1>1. /\ visits < MaxVisits /\ visits' = visits + 1 /\ runfile' = 0
      /\ UNCHANGED <<proc, ctx, net, starts>>
  BY DEF suexecRefused
<1>2. UNCHANGED kernel /\ Vnet' = Vnet /\ Migrate' = Migrate
  BY DEF Watched, Vnet, Migrate
<1>3. visits' \in 0 .. MaxVisits
  BY <1>0, <1>1, ChainAssumption DEF Typed
<1>4. Typed'
  BY <1>0, <1>1, <1>3, TypedAfter DEF Typed, CtxType, NetType
<1>5. ASSUME NEW q \in Process
      PROVE  Shape(q)' /\ Place(q)' /\ Made(q)' /\ Left(q)' = Left(q)
  BY <1>0, <1>1, <1>2, NewGen, Bystander, Same DEF NetGrows, CtxGrows
<1>6. BuildInv' /\ RunInv' /\ StartInv'
  BY <1>0, <1>1, <1>2, <1>5 DEF BuildInv, Building, RunInv, StartInv, On, Process
<1>7. NetInv'
  <2>1. NetThere' = NetThere /\ NetMade' = NetMade
    BY <1>1, <1>5 DEF NetThere, NetMade, Process
  <2>2. ~outlived' => ~outlived /\ ~Late'
    BY DEF Watched
  <2> QED
    BY <1>0, <1>1, <1>2, <1>5, <2>1, <2>2 DEF NetInv, Process
<1> QED
  BY <1>4, <1>5, <1>6, <1>7 DEF IInv

-----------------------------------------------------------------------------
(* The tools that make something.                                          *)

\* Which tools are before a process whose next tool is known.
LEMMA Where ==
    ASSUME IInv, NEW p \in {"start", "visit"}, NEW tool, At(p, tool)
    PROVE  /\ p \in Process /\ Typed /\ Shape(p) /\ Place(p) /\ Made(p)
           /\ proc[p].mode = "chain" /\ Head(proc[p].todo) = tool
           /\ tool \in Left(p) /\ tool \in Plan(p) /\ On(p)
           /\ \A t \in Left(p) : t = tool \/ Rank(tool) < Rank(t)
           /\ \A t \in Plan(p) \ {"ncontext-migrate"} : Rank(tool) < Rank(t) => t \in Left(p)
           /\ \A tools : (\A t \in tools : Rank(t) < Rank(tool)) => Past(p, tools)
<1>1. p \in Process /\ Typed /\ Shape(p) /\ Place(p) /\ Made(p)
  BY DEF IInv, Process
<1>2. proc[p].mode = "chain" /\ proc[p].todo # << >> /\ Head(proc[p].todo) = tool /\ On(p)
  BY DEF At, On
<1>3. proc[p].todo \in Seq(Tools) /\ Ordered(proc[p].todo)
  BY <1>1 DEF Typed, State, Shape
<1>4. tool \in Left(p) /\ \A t \in Left(p) : t = tool \/ Rank(tool) < Rank(t)
  BY <1>2, <1>3, OneLess DEF Left
<1>5. tool \in Plan(p)
  BY <1>1, <1>4 DEF Shape
<1>6. \A t \in Plan(p) \ {"ncontext-migrate"} : Rank(tool) < Rank(t) => t \in Left(p)
  BY <1>1, <1>4 DEF Shape
<1>7. ASSUME NEW tools, \A t \in tools : Rank(t) < Rank(tool) PROVE Past(p, tools)
  <2> SUFFICES ASSUME NEW t \in tools \cap Left(p) PROVE FALSE
    BY <1>2 DEF Past
  <2>1. Rank(t) < Rank(tool) /\ (t = tool \/ Rank(tool) < Rank(t))
    BY <1>4, <1>7
  <2> QED
    BY <2>1, RankIsNat
<1> QED
  BY <1>1, <1>2, <1>4, <1>5, <1>6, <1>7

\* A tool that fails or ends the chain with another code than 254.
LEMMA ToolFails ==
    ASSUME IInv, NEW p \in {"start", "visit"}, NEW c \in 0 .. 255, Exit(p, c), c # 254,
           Watched, UNCHANGED <<starts, visits>>
    PROVE  IInv'
<1>1. p \in Process
  BY DEF Process
<1> QED
  BY <1>1, ExitKeeps

\* A tool that finds the context or the network context where there must be none.
LEMMA ToolRefuses ==
    ASSUME IInv, NEW p \in {"start", "visit"}, NEW tool, At(p, tool), Rank(tool) < 17,
           Exit(p, 254), Watched, UNCHANGED <<starts, visits>>
    PROVE  IInv'
<1>1. p \in Process /\ proc[p].mode = "chain" /\ RunInv
  BY Where DEF IInv
<1>2. p = "start" => runfile = 0
  <2> SUFFICES ASSUME p = "start" PROVE "save_ctxinfo" \in Left(p)
    BY <1>1 DEF RunInv
  <2>1. "save_ctxinfo" \in Plan(p) \ {"ncontext-migrate"}
    BY DEF Plan
  <2> QED
    BY <2>1, Where, Ranks
<1> QED
  BY <1>1, <1>2, ExitKeeps

\* The confinement of the process that executes a tool.
LEMMA ItsState ==
    ASSUME IInv, NEW p \in {"start", "visit"}
    PROVE  /\ proc[p].is \in Confinement /\ Is(p) = proc[p].is
           /\ ctx \in CtxType /\ net \in NetType /\ runfile \in Nat /\ starts \in Nat
           /\ ctx.gen \in Nat /\ net.gen \in Nat /\ ctx.gen <= ctx.gen /\ ctx.spaces <= starts
BY DEF IInv, Typed, State, Is, Process, CtxType, NetType

\* A tool that makes a network context: there was none, or everybody has addresses
\* of his own.
LEMMA MakesNet ==
    ASSUME IInv, NEW p \in {"start", "visit"},
           \/ At(p, "ncontext-create") /\ ~NetThere
           \/ At(p, "chbind-compat") /\ net'.conf = NetConfigure,
           net' \in NetType, net'.gen = net.gen + 1,
           Exec(p, [Is(p) EXCEPT !.nid = net.gen + 1]),
           UNCHANGED <<ctx, runfile, starts, visits>>, Watched
    PROVE  IInv'
<1>0. BuildInv /\ RunInv /\ NetInv /\ \A q \in Process : Shape(q) /\ Place(q) /\ Made(q)
  BY DEF IInv
<1>1. PICK h : h = Head(proc[p].todo)
  OBVIOUS
<1>2. PICK is : is = [proc[p].is EXCEPT !.nid = net.gen + 1]
  OBVIOUS
<1>3. /\ is \in Confinement /\ is.nid = net.gen + 1 /\ is.xid = proc[p].is.xid
      /\ is.tag = proc[p].is.tag /\ is.ns = proc[p].is.ns /\ is.root = proc[p].is.root
      /\ is.env = proc[p].is.env /\ Exec(p, is)
  BY <1>2, ItsState DEF Confinement
<1>4. \/ h = "ncontext-create" /\ ~NetThere /\ At(p, "ncontext-create")
      \/ h = "chbind-compat" /\ net'.conf = NetConfigure /\ At(p, "chbind-compat")
  BY <1>1, Where
<1>5. p \in Process /\ Typed /\ Shape(p) /\ Place(p) /\ Made(p) /\ proc[p].mode = "chain"
      /\ h \in Plan(p)
  BY <1>1, Where
<1>6. Vnet <=> h = "ncontext-create"
  BY <1>4, <1>5 DEF Plan, NetPlan, Configure
<1>7. Typed' /\ Shape(p)' /\ StartInv' /\ Did(p, is)
  BY <1>3, <1>5, ItsState, Executed
<1>8. UNCHANGED kernel
  BY DEF Watched
<1>9. Fits(p, is)
  <2>1. is.nid <= net'.gen /\ is.nid # 0 /\ is.nid \in {0, net'.gen}
    BY <1>3, ItsState
  <2>2. p = "visit" => is.xid = 0
    BY <1>3, <1>5 DEF Place
  <2>3. is.ns <= starts /\ (~Migrate => is.ns = 0) /\ is.xid \in {0, ctx'.gen}
    BY <1>3, <1>5 DEF Place
  <2> QED
    BY <1>1, <1>3, <1>4, <2>1, <2>2, <2>3 DEF Fits
<1>10. Configures(p, is)
  BY <1>1, <1>3, <1>4 DEF Configures, Required, Configure, NetConfigure
<1>11. Place(p)' /\ Made(p)'
  BY <1>1, <1>3, <1>4, <1>5, <1>8, <1>9, <1>10, PlaceAfter, MadeAfter
<1>12. NetGrows /\ CtxGrows
  BY <1>4, <1>6 DEF NetGrows, CtxGrows
<1>13. ASSUME NEW q \in Process, q # p PROVE Shape(q)' /\ Place(q)' /\ Made(q)'
  BY <1>0, <1>5, <1>7, <1>8, <1>12, <1>13, ItsState, Bystander DEF Did, NetType
<1>14. BuildInv'
  <2>1. Building' => Building
    BY <1>3, <1>7 DEF Building, Process, Did
  <2>2. \A q \in Process : proc'[q].is.xid = proc[q].is.xid
    BY <1>3, <1>7 DEF Did
  <2> QED
    BY <1>0, <1>7, <2>1, <2>2 DEF BuildInv, Did
<1>15. RunInv'
  BY <1>0, <1>7 DEF RunInv, Process, Did
<1>16. NetInv'
  <2> SUFFICES ASSUME Vnet, ~outlived'
               PROVE  /\ ~Late'
                      /\ proc'["visit"].script => "ncontext-create" \in Left("visit")'
                      /\ NetMade'
    BY <1>4, <1>6, <1>7 DEF NetInv, Did, Watched
  <2>1. ~outlived /\ ~Late'
    BY DEF Watched
  <2>2. At(p, "ncontext-create") /\ ~NetThere /\ h = "ncontext-create"
    BY <1>4, <1>6
  <2>3. \A q \in Process : proc[q].is.xid = 0 /\ proc[q].is.nid = 0
    BY <1>0, <1>5, <2>2, Outside DEF Place
  <2>4. p = "start"
    <3> SUFFICES ASSUME p = "visit" PROVE Late'
      BY <2>1
    <3>1. "vcontext-migrate" \in Left(p)
      <4>1. "vcontext-migrate" \in Plan(p) \ {"ncontext-migrate"}
        BY DEF Plan
      <4> QED
        BY <2>2, <4>1, Where, Ranks
    <3>2. proc'["visit"].mode = "chain"
      BY <1>1, <1>7, <2>2, <3>1 DEF Did
    <3>3. proc'["visit"].found # 0
      BY <1>5, <1>7 DEF Did, Shape, On
    <3>4. \A q \in Process : proc'[q].is.xid = 0
      BY <1>3, <1>7, <2>3 DEF Did
    <3> QED
      BY <3>2, <3>3, <3>4 DEF Late, InCtx
  <2>5. proc'["visit"].script => "ncontext-create" \in Left("visit")'
    BY <1>0, <1>7, <2>1, <2>4 DEF NetInv, Did, Process
  <2>6. NetConfigure \subseteq Left("start")'
    <3>1. NetConfigure \subseteq Plan(p) \ {"ncontext-migrate"}
      BY <2>4 DEF NetConfigure, Plan, NetPlan
    <3>2. \A t \in NetConfigure : Rank("ncontext-create") < Rank(t) /\ t # h
      BY <2>2, Ranks DEF NetConfigure
    <3> QED
      BY <1>1, <1>7, <2>2, <2>4, <3>1, <3>2, Where DEF Did
  <2>7. \A q \in Process \ {"start"} : proc'[q].is.nid # net.gen + 1
    BY <1>7, <2>3, <2>4, ItsState DEF Did
  <2>8. proc'["start"].is.nid = net.gen + 1
    BY <1>3, <1>7, <2>4 DEF Did
  <2> QED
    BY <2>1, <2>5, <2>6, <2>7, <2>8 DEF NetMade
<1> QED
  BY <1>7, <1>11, <1>13, <1>14, <1>15, <1>16 DEF IInv

\* ncontext --create: 254 when the network context is there, which chbind waits for.
LEMMA NcontextCreate ==
    ASSUME IInv, NEW p \in {"start", "visit"}, ncontextCreate(p), Watched,
           UNCHANGED <<starts, visits>>
    PROVE  IInv'
<1>1. At(p, "ncontext-create") /\ Rank("ncontext-create") < 17
  BY Ranks DEF ncontextCreate
<1>2. \/ Exit(p, 254)
      \/ /\ ~NetThere /\ net' = [gen |-> net.gen + 1, conf |-> {}]
         /\ Exec(p, [Is(p) EXCEPT !.nid = net.gen + 1]) /\ UNCHANGED <<ctx, runfile>>
      \/ Exit(p, 255)
  BY DEF ncontextCreate, Fails
<1>3. CASE Exit(p, 254)
  BY <1>1, <1>3, ToolRefuses
<1>4. CASE /\ ~NetThere /\ net' = [gen |-> net.gen + 1, conf |-> {}]
           /\ Exec(p, [Is(p) EXCEPT !.nid = net.gen + 1]) /\ UNCHANGED <<ctx, runfile>>
  <2>1. net' \in NetType /\ net'.gen = net.gen + 1
    BY <1>4, ItsState DEF NetType
  <2> QED
    BY <1>1, <1>4, <2>1, MakesNet
<1>5. CASE Exit(p, 255)
  BY <1>5, ToolFails
<1> QED
  BY <1>2, <1>3, <1>4, <1>5

\* chbind-compat gives the process addresses that nobody shares.
LEMMA ChbindCompat ==
    ASSUME IInv, NEW p \in {"start", "visit"}, chbindCompat(p), Watched,
           UNCHANGED <<starts, visits>>
    PROVE  IInv'
<1>1. At(p, "chbind-compat")
  BY DEF chbindCompat
<1>2. \/ /\ net' = [gen |-> net.gen + 1, conf |-> NetConfigure]
         /\ Exec(p, [Is(p) EXCEPT !.nid = net.gen + 1]) /\ UNCHANGED <<ctx, runfile>>
      \/ Exit(p, 255)
  BY DEF chbindCompat, Fails
<1>3. CASE /\ net' = [gen |-> net.gen + 1, conf |-> NetConfigure]
           /\ Exec(p, [Is(p) EXCEPT !.nid = net.gen + 1]) /\ UNCHANGED <<ctx, runfile>>
  <2>1. net' \in NetType /\ net'.gen = net.gen + 1 /\ net'.conf = NetConfigure
    BY <1>3, ItsState DEF NetType
  <2> QED
    BY <1>1, <1>3, <2>1, MakesNet
<1>4. CASE Exit(p, 255)
  BY <1>4, ToolFails
<1> QED
  BY <1>2, <1>3, <1>4

\* A chain that chbind runs again joins the network context; one whose guest is
\* there finds it configured.
LEMMA JoinsNet ==
    ASSUME IInv, NEW p \in {"start", "visit"}, At(p, "ncontext-migrate"), NetThere,
           Exec(p, [Is(p) EXCEPT !.nid = net.gen]),
           UNCHANGED <<ctx, net, runfile, starts, visits>>, Watched
    PROVE  IInv'
<1>0. BuildInv /\ RunInv /\ NetInv /\ \A q \in Process : Shape(q) /\ Place(q) /\ Made(q)
  BY DEF IInv
<1>1. PICK is : is = [proc[p].is EXCEPT !.nid = net.gen]
  OBVIOUS
<1>2. /\ is \in Confinement /\ is.nid = net.gen /\ is.xid = proc[p].is.xid
      /\ is.tag = proc[p].is.tag /\ is.ns = proc[p].is.ns /\ is.root = proc[p].is.root
      /\ is.env = proc[p].is.env /\ Exec(p, is)
  BY <1>1, ItsState DEF Confinement
<1>3. /\ p \in Process /\ Typed /\ Shape(p) /\ Place(p) /\ Made(p) /\ proc[p].mode = "chain"
      /\ Head(proc[p].todo) = "ncontext-migrate" /\ "ncontext-migrate" \in Left(p)
      /\ "ncontext-migrate" \in Plan(p)
  BY Where
<1>4. Vnet /\ ~proc[p].script
  BY <1>3 DEF Plan, NetPlan, Configure, Shape
<1>5. Typed' /\ Shape(p)' /\ StartInv' /\ Did(p, is)
  BY <1>2, <1>3, ItsState, Executed
<1>6. UNCHANGED kernel
  BY DEF Watched
<1>7. Fits(p, is)
  <2>1. is.nid <= net'.gen /\ is.nid # 0 /\ is.nid \in {0, net'.gen}
    BY <1>2, ItsState DEF NetThere
  <2>2. p = "visit" => is.xid = 0
    BY <1>2, <1>3 DEF Place
  <2>3. is.ns <= starts /\ (~Migrate => is.ns = 0) /\ is.xid \in {0, ctx'.gen}
    BY <1>2, <1>3 DEF Place
  <2> QED
    BY <1>2, <1>3, <2>1, <2>2, <2>3 DEF Fits
<1>8. Configures(p, is)
  BY <1>2, <1>3 DEF Configures, Required, Configure, NetConfigure
<1>9. Place(p)' /\ Made(p)'
  BY <1>2, <1>3, <1>6, <1>7, <1>8, PlaceAfter, MadeAfter
<1>10. ASSUME NEW q \in Process, q # p PROVE Shape(q)' /\ Place(q)' /\ Made(q)'
  <2>1. NetGrows /\ CtxGrows /\ proc'[q] = proc[q]
    BY <1>5, <1>10 DEF NetGrows, CtxGrows, Did
  <2> QED
    BY <1>0, <1>3, <1>6, <2>1, ItsState, Bystander
<1>11. BuildInv'
  <2>1. Building' => Building
    BY <1>2, <1>5 DEF Building, Process, Did
  <2>2. \A q \in Process : proc'[q].is.xid = proc[q].is.xid
    BY <1>2, <1>5 DEF Did
  <2> QED
    BY <1>0, <1>5, <2>1, <2>2 DEF BuildInv, Did
<1>12. RunInv'
  BY <1>0, <1>5 DEF RunInv, Process, Did
<1>13. NetInv'
  <2> SUFFICES ASSUME ~outlived'
               PROVE  /\ ~Late'
                      /\ proc'["visit"].script => "ncontext-create" \in Left("visit")'
                      /\ NetMade'
    BY <1>0, <1>4, <1>5 DEF NetInv, Did
  <2>1. ~outlived /\ ~Late' /\ ~Late
    BY <1>0 DEF Watched, NetInv
  <2>2. proc'["visit"].script => "ncontext-create" \in Left("visit")'
    BY <1>0, <1>4, <1>5, <2>1 DEF NetInv, Did, Process
  <2>3. NetMade
    BY <1>0, <1>4, <2>1 DEF NetInv
  <2>4. ASSUME net.conf = NetConfigure PROVE NetMade'
    BY <2>4 DEF NetMade
  <2>5. ASSUME /\ proc["start"].is.nid = net.gen
               /\ NetConfigure \subseteq net.conf \cup Left("start")
               /\ \A q \in Process \ {"start"} : proc[q].is.nid # net.gen
        PROVE  NetMade'
    <3>1. CASE p = "start"
      <4>1. "ncontext-migrate" \notin NetConfigure
        BY DEF NetConfigure
      <4>2. NetConfigure \subseteq net'.conf \cup Left("start")'
        BY <1>3, <1>5, <2>5, <3>1, <4>1 DEF Did
      <4>3. /\ proc'["start"].is.nid = net.gen
            /\ \A q \in Process \ {"start"} : proc'[q].is.nid # net.gen
        BY <1>2, <1>5, <2>5, <3>1 DEF Did
      <4> QED
        BY <4>2, <4>3 DEF NetMade
    <3>2. CASE p = "visit"
      <4>1. PICK q \in Process : proc[q].is.xid = proc["visit"].found
        BY <1>3, <2>1, <3>2 DEF Late, InCtx
      <4>2. proc[q].is.xid # 0 /\ Place(q)
        BY <1>0, <1>3, <3>2, <4>1 DEF Shape, On
      <4>3. proc[q].is.nid = net.gen /\ \A t \in Left(q) : Rank(t) > 7
        BY <1>4, <4>2 DEF Place
      <4>4. q = "start"
        BY <2>5, <4>3
      <4>5. NetConfigure \cap Left("start") = {}
        <5> SUFFICES ASSUME NEW t \in NetConfigure PROVE ~(Rank(t) > 7)
          BY <4>3, <4>4
        <5> QED
          BY Ranks DEF NetConfigure
      <4>6. net.conf = NetConfigure
        BY <2>5, <4>5, ItsState DEF NetType
      <4> QED
        BY <4>6 DEF NetMade
    <3> QED
      BY <3>1, <3>2
  <2> QED
    BY <2>1, <2>2, <2>3, <2>4, <2>5 DEF NetMade
<1> QED
  BY <1>5, <1>9, <1>10, <1>11, <1>12, <1>13 DEF IInv

\* ncontext --migrate, of a chain that runs again.
LEMMA NcontextMigrate ==
    ASSUME IInv, NEW p \in {"start", "visit"}, ncontextMigrate(p), Watched,
           UNCHANGED <<starts, visits>>
    PROVE  IInv'
<1>1. At(p, "ncontext-migrate")
  BY DEF ncontextMigrate
<1>2. \/ /\ NetThere /\ Exec(p, [Is(p) EXCEPT !.nid = net.gen])
         /\ UNCHANGED <<ctx, net, runfile>>
      \/ Exit(p, 255)
  BY DEF ncontextMigrate, Joins
<1>3. CASE /\ NetThere /\ Exec(p, [Is(p) EXCEPT !.nid = net.gen])
           /\ UNCHANGED <<ctx, net, runfile>>
  BY <1>1, <1>3, JoinsNet
<1>4. CASE Exit(p, 255)
  BY <1>4, ToolFails
<1> QED
  BY <1>2, <1>3, <1>4

\* A tool that makes a context, where there was none.
LEMMA MakesContext ==
    ASSUME IInv, NEW p \in {"start", "visit"}, ~CtxThere,
           \/ At(p, "vcontext-create")
           \/ At(p, "chcontext-compat") /\ ~ctx'.setup,
           ctx' \in CtxType, ctx'.gen = ctx.gen + 1, ctx'.spaces = 0,
           Exec(p, [Is(p) EXCEPT !.xid = ctx.gen + 1]),
           UNCHANGED <<net, runfile, starts, visits>>, Watched
    PROVE  IInv'
<1>0. BuildInv /\ RunInv /\ NetInv /\ \A q \in Process : Shape(q) /\ Place(q) /\ Made(q)
  BY DEF IInv
<1>1. PICK h : h = Head(proc[p].todo)
  OBVIOUS
<1>2. PICK is : is = [proc[p].is EXCEPT !.xid = ctx.gen + 1]
  OBVIOUS
<1>3. /\ is \in Confinement /\ is.xid = ctx.gen + 1 /\ is.nid = proc[p].is.nid
      /\ is.tag = proc[p].is.tag /\ is.ns = proc[p].is.ns /\ is.root = proc[p].is.root
      /\ is.env = proc[p].is.env /\ Exec(p, is)
  BY <1>2, ItsState DEF Confinement
<1>4. \/ h = "vcontext-create" /\ At(p, h)
      \/ h = "chcontext-compat" /\ At(p, h) /\ ~ctx'.setup
  BY <1>1, Where
<1>5. /\ p \in Process /\ Typed /\ Shape(p) /\ Place(p) /\ Made(p) /\ proc[p].mode = "chain"
      /\ h \in Plan(p) /\ At(p, h) /\ Rank(h) = 7
  BY <1>1, <1>4, Where, Ranks
<1>6. p = "start" /\ (Migrate <=> h = "vcontext-create")
  BY <1>4, <1>5 DEF Plan, NetPlan, Configure
<1>7. Typed' /\ Shape(p)' /\ StartInv' /\ Did(p, is)
  BY <1>3, <1>5, ItsState, Executed
<1>8. UNCHANGED kernel
  BY DEF Watched
<1>9. \A t \in Plan(p) : 7 < Rank(t) => t \in Left(p)'
  <2>1. \A t \in Plan(p) : 7 < Rank(t) => t \in Left(p) /\ t # h
    BY <1>5, Where, Ranks
  <2> QED
    BY <1>1, <1>7, <2>1 DEF Did
<1>10. is.nid # 0
  <2>1. Past(p, {"ncontext-create", "ncontext-migrate", "chbind-compat"})
    BY <1>5, Where, Ranks
  <2> QED
    BY <1>3, <1>5, <2>1 DEF Place
<1>11. Fits(p, is)
  <2>1. is.nid <= net'.gen /\ (Vnet => is.nid \in {0, net'.gen}) /\ is.xid \in {0, ctx'.gen}
    BY <1>3, <1>5 DEF Place
  <2>2. is.ns <= starts /\ (~Migrate => is.ns = 0) /\ is.xid # 0
    BY <1>3, <1>5, ItsState DEF Place
  <2> QED
    BY <1>1, <1>3, <1>4, <1>5, <1>6, <1>10, <2>1, <2>2 DEF Fits
<1>12. Place(p)'
  <2>1. ctx'.setup => "vcontext-self" \in Left(p)'
    <3>1. Migrate => "vcontext-self" \in Plan(p) /\ 7 < Rank("vcontext-self")
      BY <1>6, Ranks DEF Plan
    <3> QED
      BY <1>4, <1>6, <1>9, <3>1
  <2> QED
    BY <1>3, <1>5, <1>8, <1>11, <2>1, PlaceAfter
<1>13. Migrate => Configure \subseteq Left(p)'
  <2>1. Migrate => Configure \subseteq Plan(p)
    BY <1>6 DEF Plan
  <2>2. \A t \in Configure : 7 < Rank(t)
    BY MigratingChain
  <2> QED
    BY <1>9, <2>1, <2>2
<1>14. Made(p)'
  <2>1. proc'[p].found = 0
    BY <1>5, <1>6, <1>7 DEF Did, Shape
  <2>2. Required \subseteq Configure /\ "vspace-set" \in Configure
    BY DEF Required, Configure
  <2> QED
    BY <1>7, <1>13, <2>1, <2>2 DEF Made, Past, Did
<1>15. ASSUME NEW q \in Process, q # p PROVE Shape(q)' /\ Place(q)' /\ Made(q)'
  <2>1. proc'[q] = proc[q]
    BY <1>7, <1>15 DEF Did
  <2> QED
    BY <1>0, <1>5, <1>6, <1>8, <1>15, <2>1, BystanderOfNew
<1>16. BuildInv'
  <2>1. ASSUME NEW q \in Process \ {"start"}
        PROVE  proc'[q].found # ctx'.gen /\ proc'[q].is.xid = 0
    <3>1. proc'[q] = proc[q] /\ proc[q].is.xid = 0 /\ proc[q].found <= ctx.gen
      BY <1>0, <1>5, <1>6, <1>7, Outside DEF Did, Shape
    <3>2. proc[q].found \in Nat /\ ctx.gen \in Nat
      BY <1>5 DEF Typed, State
    <3> QED
      BY <3>1, <3>2
  <2> QED
    BY <2>1 DEF BuildInv
<1>17. runfile = 0
  <2>1. "save_ctxinfo" \in Plan(p) /\ 7 < Rank("save_ctxinfo") /\ h # "save_ctxinfo"
    BY <1>4, <1>6, Ranks DEF Plan
  <2>2. "save_ctxinfo" \in Left(p)
    BY <1>7, <1>9, <2>1 DEF Did
  <2> QED
    BY <1>0, <1>6, <2>2 DEF RunInv
<1>18. RunInv'
  BY <1>4, <1>6, <1>7, <1>17 DEF RunInv, Did, CtxType
<1>19. NetInv'
  <2>1. /\ net' \in NetType /\ net'.gen = net.gen /\ net.conf \subseteq net'.conf
        /\ is.nid = proc[p].is.nid /\ Head(proc[p].todo) # "ncontext-create"
        /\ Head(proc[p].todo) \in NetConfigure => Head(proc[p].todo) \in net'.conf
    BY <1>1, <1>3, <1>4, ItsState DEF NetConfigure
  <2> QED
    BY <1>0, <1>5, <1>7, <2>1, NetKept
<1> QED
  BY <1>7, <1>12, <1>14, <1>15, <1>16, <1>18, <1>19 DEF IInv

\* vcontext --create: 254 when the context is there.
LEMMA VcontextCreate ==
    ASSUME IInv, NEW p \in {"start", "visit"}, vcontextCreate(p), Watched,
           UNCHANGED <<starts, visits>>
    PROVE  IInv'
<1>1. At(p, "vcontext-create") /\ Rank("vcontext-create") < 17
  BY Ranks DEF vcontextCreate
<1>2. \/ Exit(p, 254)
      \/ /\ ~CtxThere
         /\ ctx' = [gen |-> ctx.gen + 1, setup |-> TRUE, conf |-> {}, spaces |-> 0]
         /\ Exec(p, [Is(p) EXCEPT !.xid = ctx.gen + 1]) /\ UNCHANGED <<net, runfile>>
      \/ Exit(p, 255)
  BY DEF vcontextCreate, Fails
<1>3. CASE Exit(p, 254)
  BY <1>1, <1>3, ToolRefuses
<1>4. CASE /\ ~CtxThere
           /\ ctx' = [gen |-> ctx.gen + 1, setup |-> TRUE, conf |-> {}, spaces |-> 0]
           /\ Exec(p, [Is(p) EXCEPT !.xid = ctx.gen + 1]) /\ UNCHANGED <<net, runfile>>
  <2>1. ctx' \in CtxType /\ ctx'.gen = ctx.gen + 1 /\ ctx'.spaces = 0
    BY <1>4, ItsState DEF CtxType
  <2> QED
    BY <1>1, <1>4, <2>1, MakesContext
<1>5. CASE Exit(p, 255)
  BY <1>5, ToolFails
<1> QED
  BY <1>2, <1>3, <1>4, <1>5

\* The tools that change what their process is confined by.
Confining ==
    {"ncontext-create", "ncontext-migrate", "chbind-compat", "vcontext-create",
     "chcontext-compat", "vcontext-migrate", "vspace-new", "vspace-enter", "vcontext-self",
     "capchroot", "env"}

\* A tool that does not change what its process is confined by.
LEMMA Stays ==
    ASSUME IInv, NEW p \in {"start", "visit"}, NEW tool, At(p, tool), tool \notin Confining,
           tool \in {"vtag-create", "vtag-migrate"} => "pptag" \notin kernel,
           ctx'.gen = ctx.gen, net'.gen = net.gen
    PROVE  Fits(p, Is(p))
<1>1. Place(p) /\ proc[p].mode = "chain" /\ Head(proc[p].todo) = tool
  BY Where
<1>2. p = "visit" => proc[p].is.xid = 0
  BY <1>1 DEF Place
<1>3. /\ proc[p].is.nid <= net'.gen /\ (Vnet => proc[p].is.nid \in {0, net'.gen})
      /\ proc[p].is.xid \in {0, ctx'.gen} /\ proc[p].is.ns <= starts
      /\ (~Migrate => proc[p].is.ns = 0)
  BY <1>1 DEF Place
<1> QED
  BY <1>1, <1>2, <1>3 DEF Fits, Is, Confining

\* A start sets the spaces of the context that it has made.
LEMMA SetsSpaces ==
    ASSUME IInv, NEW p \in {"start", "visit"}, At(p, "vspace-set"),
           ctx' = [ctx EXCEPT !.spaces = Is(p).ns, !.conf = @ \cup {"vspace-set"}],
           Exec(p, Is(p)), UNCHANGED <<net, runfile, starts, visits>>, Watched
    PROVE  IInv'
<1>0. BuildInv /\ RunInv /\ NetInv /\ \A q \in Process : Shape(q) /\ Place(q) /\ Made(q)
  BY DEF IInv
<1>1. PICK is : is = proc[p].is
  OBVIOUS
<1>2. is \in Confinement /\ Is(p) = is /\ Exec(p, is) /\ is.ns \in Nat
  BY <1>1, ItsState DEF Confinement
<1>3. /\ p \in Process /\ Typed /\ Shape(p) /\ Place(p) /\ Made(p) /\ proc[p].mode = "chain"
      /\ Head(proc[p].todo) = "vspace-set" /\ "vspace-set" \in Plan(p) /\ Rank("vspace-set") = 8
  BY Where, Ranks
<1>4. p = "start" /\ Migrate
  BY <1>3 DEF Plan, NetPlan
<1>5. /\ ctx'.spaces = is.ns /\ ctx'.conf = ctx.conf \cup {"vspace-set"}
      /\ ctx'.gen = ctx.gen /\ ctx'.setup = ctx.setup /\ ctx' \in CtxType
  BY <1>2, ItsState DEF CtxType, Configure
<1>6. is.ns <= starts
  BY <1>1, <1>3 DEF Place
<1>7. Typed' /\ Shape(p)' /\ StartInv' /\ Did(p, is)
  BY <1>2, <1>3, <1>5, <1>6, ItsState, Executed
<1>8. UNCHANGED kernel
  BY DEF Watched
<1>9. Building
  <2>1. "save_ctxinfo" \in Plan(p) \ {"ncontext-migrate"} /\ 8 < Rank("save_ctxinfo")
    BY <1>4, Ranks DEF Plan
  <2>2. "save_ctxinfo" \in Left(p)
    BY <1>3, <2>1, Where
  <2>3. Past(p, {"vcontext-create", "chcontext-compat"})
    BY Where, Ranks
  <2>4. "vcontext-migrate" \notin Plan(p)
    BY <1>4 DEF Plan, NetPlan, Configure
  <2>5. Past(p, {"vcontext-create", "chcontext-compat", "vcontext-migrate"})
    BY <1>3, <2>3, <2>4 DEF Past, Shape
  <2> QED
    BY <1>3, <1>4, <2>2, <2>5 DEF Building, Place
<1>10. Fits(p, is)
  BY <1>2, <1>5, Stays DEF Confining
<1>11. Configures(p, is)
  BY <1>1, <1>3, <1>5 DEF Configures, NetConfigure
<1>12. Place(p)' /\ Made(p)'
  BY <1>2, <1>3, <1>4, <1>5, <1>8, <1>10, <1>11, PlaceAfter, MadeAfter
<1>13. ASSUME NEW q \in Process, q # p PROVE Shape(q)' /\ Place(q)' /\ Made(q)'
  <2>1. proc'[q] = proc[q]
    BY <1>7, <1>13 DEF Did
  <2> QED
    BY <1>0, <1>3, <1>4, <1>5, <1>8, <1>9, <1>13, <2>1, BystanderOfSpaces
<1>14. BuildInv'
  BY <1>0, <1>4, <1>5, <1>7, <1>9 DEF BuildInv, Did
<1>15. RunInv'
  BY <1>0, <1>4, <1>5, <1>7 DEF RunInv, Did
<1>16. NetInv'
  <2>1. /\ net' \in NetType /\ net'.gen = net.gen /\ net.conf \subseteq net'.conf
        /\ is.nid = proc[p].is.nid /\ Head(proc[p].todo) # "ncontext-create"
        /\ Head(proc[p].todo) \in NetConfigure => Head(proc[p].todo) \in net'.conf
    BY <1>1, <1>3, ItsState DEF NetConfigure
  <2> QED
    BY <1>0, <1>3, <1>7, <2>1, NetKept
<1> QED
  BY <1>7, <1>12, <1>13, <1>14, <1>15, <1>16 DEF IInv

\* A start writes the run file when its context is configured.
LEMMA SavesCtxinfo ==
    ASSUME IInv, NEW p \in {"start", "visit"}, At(p, "save_ctxinfo"), runfile' = Is(p).xid,
           Exec(p, Is(p)), UNCHANGED <<ctx, net, starts, visits>>, Watched
    PROVE  IInv'
<1>0. BuildInv /\ RunInv /\ NetInv /\ \A q \in Process : Shape(q) /\ Place(q) /\ Made(q)
  BY DEF IInv
<1>1. PICK is : is = proc[p].is
  OBVIOUS
<1>2. is \in Confinement /\ Is(p) = is /\ Exec(p, is) /\ is.xid \in Nat
  BY <1>1, ItsState DEF Confinement
<1>3. /\ p \in Process /\ Typed /\ Shape(p) /\ Place(p) /\ Made(p) /\ proc[p].mode = "chain"
      /\ Head(proc[p].todo) = "save_ctxinfo" /\ "save_ctxinfo" \in Plan(p)
      /\ Rank("save_ctxinfo") = 17
  BY Where, Ranks
<1>4. p = "start"
  BY <1>3 DEF Plan, NetPlan
<1>5. Typed' /\ Shape(p)' /\ StartInv' /\ Did(p, is)
  BY <1>2, <1>3, ItsState, Executed
<1>6. UNCHANGED kernel
  BY DEF Watched
<1>7. Fits(p, is)
  BY <1>2, Stays DEF Confining
<1>8. Configures(p, is)
  BY <1>1, <1>3 DEF Configures, NetConfigure, Required, Configure
<1>9. Place(p)' /\ Made(p)'
  BY <1>2, <1>3, <1>6, <1>7, <1>8, PlaceAfter, MadeAfter
<1>10. ASSUME NEW q \in Process, q # p PROVE Shape(q)' /\ Place(q)' /\ Made(q)'
  <2>1. NetGrows /\ CtxGrows /\ proc'[q] = proc[q]
    BY <1>5, <1>10 DEF NetGrows, CtxGrows, Did
  <2> QED
    BY <1>0, <1>3, <1>6, <2>1, ItsState, Bystander
<1>11. "save_ctxinfo" \notin Left("start")'
  BY <1>3, <1>4, <1>5 DEF Did
<1>12. BuildInv'
  BY <1>11 DEF BuildInv, Building
<1>13. RunInv'
  <2>1. runfile' # 0 => runfile' = ctx.gen
    BY <1>1, <1>2, <1>3 DEF Place
  <2>2. Migrate => Required \subseteq ctx.conf
    <3> SUFFICES ASSUME Migrate, NEW t \in Required PROVE t \in ctx.conf
      OBVIOUS
    <3>1. Rank(t) < 17
      <4>1. Rank(t) \in 8 .. 16
        BY MigratingChain DEF Required
      <4> QED
        BY <4>1
    <3>2. Past(p, {t})
      BY <1>3, <3>1, Where
    <3>3. proc[p].found = 0
      BY <1>3, <1>4 DEF Shape
    <3> QED
      BY <1>3, <3>2, <3>3 DEF Made
  <2> QED
    BY <1>0, <1>5, <1>11, <2>1, <2>2 DEF RunInv, Did
<1>14. NetInv'
  <2>1. /\ net' \in NetType /\ net'.gen = net.gen /\ net.conf \subseteq net'.conf
        /\ is.nid = proc[p].is.nid /\ Head(proc[p].todo) # "ncontext-create"
        /\ Head(proc[p].todo) \in NetConfigure => Head(proc[p].todo) \in net'.conf
    BY <1>1, <1>3, ItsState DEF NetConfigure
  <2> QED
    BY <1>0, <1>3, <1>5, <2>1, NetKept
<1> QED
  BY <1>5, <1>9, <1>10, <1>12, <1>13, <1>14 DEF IInv

\* vspace --set.
LEMMA SetSpaces ==
    ASSUME IInv, NEW p \in {"start", "visit"}, setSpaces(p), Watched,
           UNCHANGED <<starts, visits>>
    PROVE  IInv'
<1>1. CASE Exit(p, 255)
  BY <1>1, ToolFails
<1> QED
  BY <1>1, SetsSpaces DEF setSpaces, Fails

\* save_ctxinfo, which does not overwrite a run file.
LEMMA SaveCtxinfo ==
    ASSUME IInv, NEW p \in {"start", "visit"}, saveCtxinfo(p), Watched,
           UNCHANGED <<starts, visits>>
    PROVE  IInv'
<1>1. CASE Exit(p, 255)
  BY <1>1, ToolFails
<1> QED
  BY <1>1, SavesCtxinfo DEF saveCtxinfo, Fails

-----------------------------------------------------------------------------
(* The other tools.                                                        *)

\* A tool that does nothing, or nothing that matters here.
LEMMA GoesOnKeeps ==
    ASSUME IInv, NEW p \in {"start", "visit"}, NEW tool, At(p, tool),
           tool \notin Confining \cup Required \cup NetConfigure,
           tool \in {"vtag-create", "vtag-migrate"} => "pptag" \notin kernel,
           GoesOn(p), Watched, UNCHANGED <<starts, visits>>
    PROVE  IInv'
<1>1. proc[p].mode = "chain" /\ Head(proc[p].todo) = tool
  BY Where
<1>2. Exec(p, Is(p)) /\ UNCHANGED <<ctx, net, runfile>>
  BY DEF GoesOn
<1>3. Fits(p, Is(p))
  BY <1>2, Stays
<1>4. tool # "vspace-set" /\ tool # "ncontext-create"
  BY DEF Confining, Required, Configure, Tolerant
<1>5. Configures(p, Is(p))
  BY <1>1, <1>2, <1>4 DEF Configures, Confining, Is
<1>6. CtxGrows /\ ctx' \in CtxType /\ net' \in NetType /\ Is(p) \in Confinement
  BY <1>2, ItsState DEF CtxGrows
<1> QED
  BY <1>1, <1>2, <1>3, <1>4, <1>5, <1>6, Ordinary DEF Is

\* A tool that configures the context.
LEMMA AppliesKeeps ==
    ASSUME IInv, NEW p \in {"start", "visit"}, NEW tool \in Configure \ {"vspace-set"},
           At(p, tool), Applies(p, tool), Watched, UNCHANGED <<starts, visits>>
    PROVE  IInv'
<1>1. proc[p].mode = "chain" /\ Head(proc[p].todo) = tool
  BY Where
<1>2. /\ Exec(p, Is(p)) /\ UNCHANGED <<net, runfile>>
      /\ ctx' = [ctx EXCEPT !.conf = @ \cup {tool}]
  BY DEF Applies
<1>3. /\ ctx' \in CtxType /\ ctx'.gen = ctx.gen /\ ctx'.conf = ctx.conf \cup {tool}
      /\ ctx'.setup = ctx.setup /\ ctx'.spaces = ctx.spaces
  BY <1>2, ItsState DEF CtxType
<1>4. tool \notin Confining \cup NetConfigure \cup {"vtag-create", "vtag-migrate"}
  BY DEF Configure, Confining, NetConfigure
<1>5. Fits(p, Is(p))
  BY <1>2, <1>3, <1>4, Stays
<1>6. Configures(p, Is(p))
  BY <1>1, <1>2, <1>3, <1>4 DEF Configures, Confining, Is
<1>7. CtxGrows /\ net' \in NetType /\ Is(p) \in Confinement
  BY <1>2, <1>3, ItsState DEF CtxGrows
<1> QED
  BY <1>1, <1>2, <1>3, <1>4, <1>5, <1>6, <1>7, Ordinary DEF Is, Confining

\* A tool that configures the network context.
LEMMA NetAppliesKeeps ==
    ASSUME IInv, NEW p \in {"start", "visit"}, NEW tool \in NetConfigure,
           At(p, tool), NetApplies(p, tool), Watched, UNCHANGED <<starts, visits>>
    PROVE  IInv'
<1>1. proc[p].mode = "chain" /\ Head(proc[p].todo) = tool
  BY Where
<1>2. /\ Exec(p, Is(p)) /\ UNCHANGED <<ctx, runfile>>
      /\ net' = [net EXCEPT !.conf = @ \cup {tool}]
  BY DEF NetApplies
<1>3. net' \in NetType /\ net'.gen = net.gen /\ net'.conf = net.conf \cup {tool}
  BY <1>2, ItsState DEF NetType
<1>4. tool \notin Confining \cup Required \cup {"vtag-create", "vtag-migrate", "vspace-set"}
  BY DEF Configure, Required, Confining, NetConfigure
<1>5. Fits(p, Is(p))
  BY <1>2, <1>3, <1>4, Stays
<1>6. Configures(p, Is(p))
  BY <1>1, <1>2, <1>3, <1>4 DEF Configures, Confining, Is
<1>7. CtxGrows /\ ctx' \in CtxType /\ Is(p) \in Confinement
  BY <1>2, ItsState DEF CtxGrows
<1> QED
  BY <1>1, <1>2, <1>3, <1>4, <1>5, <1>6, <1>7, Ordinary DEF Is, Confining

\* A tool that changes what its process is confined by.
LEMMA JoinsKeeps ==
    ASSUME IInv, NEW p \in {"start", "visit"}, NEW tool, At(p, tool), NEW is \in Confinement,
           Exec(p, is), Fits(p, is), ctx' \in CtxType, CtxGrows,
           UNCHANGED <<net, runfile, starts, visits>>, Watched, is.nid = proc[p].is.nid,
           p = "start" /\ Migrate => is.xid = proc[p].is.xid,
           tool \notin Required \cup NetConfigure \cup {"vspace-set", "ncontext-create"},
           tool = "vspace-enter" => is.ns = ctx.spaces,
           tool \notin {"vspace-new", "vspace-enter"} => is.ns = proc[p].is.ns
    PROVE  IInv'
<1>1. proc[p].mode = "chain" /\ Head(proc[p].todo) = tool
  BY Where
<1>2. Configures(p, is)
  BY <1>1 DEF Configures, CtxGrows
<1>3. net' \in NetType
  BY ItsState
<1> QED
  BY <1>1, <1>2, <1>3, Ordinary

\* What a process is confined by, as far as a tool may add to it.
LEMMA Before ==
    ASSUME IInv, NEW p \in {"start", "visit"}, NEW tool, At(p, tool)
    PROVE  /\ proc[p].is.nid <= net.gen /\ (Vnet => proc[p].is.nid \in {0, net.gen})
           /\ proc[p].is.xid \in {0, ctx.gen} /\ proc[p].is.ns <= starts
           /\ (~Migrate => proc[p].is.ns = 0) /\ (p = "visit" => proc[p].is.xid = 0)
           /\ Head(proc[p].todo) = tool /\ tool \in Plan(p)
           /\ Rank(tool) >= 7 => proc[p].is.nid # 0
<1>1. Place(p) /\ proc[p].mode = "chain" /\ Head(proc[p].todo) = tool /\ tool \in Plan(p)
  BY Where
<1>2. Rank(tool) >= 7 => proc[p].is.nid # 0
  <2>1. Rank(tool) >= 7 => Past(p, {"ncontext-create", "ncontext-migrate", "chbind-compat"})
    <3>1. \A t \in {"ncontext-create", "ncontext-migrate", "chbind-compat"} : Rank(t) <= 3
      BY Ranks
    <3>2. Rank(tool) >= 7 => \A t \in {"ncontext-create", "ncontext-migrate", "chbind-compat"} :
                                Rank(t) < Rank(tool)
      BY <3>1, RankIsNat
    <3> QED
      BY <3>2, Where
  <2> QED
    BY <1>1, <2>1 DEF Place
<1> QED
  BY <1>1, <1>2 DEF Place

\* nattribute: capabilities and flags of the network context.
LEMMA Nattribute ==
    ASSUME IInv, NEW p \in {"start", "visit"}, nattribute(p), Watched,
           UNCHANGED <<starts, visits>>
    PROVE  IInv'
<1>1. CASE Exit(p, 1)
  BY <1>1, ToolFails
<1>2. CASE NetApplies(p, "nattribute")
  BY <1>2, NetAppliesKeeps DEF nattribute, NetConfigure
<1> QED
  BY <1>1, <1>2 DEF nattribute

\* naddress: addresses of the network context.
LEMMA Naddress ==
    ASSUME IInv, NEW p \in {"start", "visit"}, naddress(p), Watched,
           UNCHANGED <<starts, visits>>
    PROVE  IInv'
<1>1. CASE Exit(p, 255)
  BY <1>1, ToolFails
<1>2. CASE NetApplies(p, "naddress")
  BY <1>2, NetAppliesKeeps DEF naddress, NetConfigure
<1> QED
  BY <1>1, <1>2 DEF naddress, Fails

\* exec-ulimit: limits of the process.
LEMMA ExecUlimit ==
    ASSUME IInv, NEW p \in {"start", "visit"}, execUlimit(p), Watched,
           UNCHANGED <<starts, visits>>
    PROVE  IInv'
<1>1. CASE Exit(p, 255)
  BY <1>1, ToolFails
<1>2. CASE GoesOn(p)
  BY <1>2, GoesOnKeeps DEF execUlimit, Confining, Required, Configure, NetConfigure
<1> QED
  BY <1>1, <1>2 DEF execUlimit, Fails

\* The tools that only go on: exec-remount without pid spaces, chain-echo.
LEMMA NothingDone ==
    ASSUME IInv, NEW p \in {"start", "visit"}, execRemount(p) \/ chainEcho(p), Watched,
           UNCHANGED <<starts, visits>>
    PROVE  IInv'
<1>1. CASE execRemount(p)
  BY <1>1, GoesOnKeeps DEF execRemount, Confining, Required, Configure, NetConfigure
<1>2. CASE chainEcho(p)
  BY <1>2, GoesOnKeeps DEF chainEcho, Confining, Required, Configure, NetConfigure
<1> QED
  BY <1>1, <1>2

\* The tools that configure the context.
LEMMA Configuring ==
    ASSUME IInv, NEW p \in {"start", "visit"}, Watched, UNCHANGED <<starts, visits>>,
           \/ vlimit(p) \/ vsched(p) \/ vsysctl(p) \/ vunameDir(p) \/ vunameSet(p)
           \/ vmemctrl(p) \/ vattribute(p)
    PROVE  IInv'
<1>1. PICK tool \in Configure \ {"vspace-set"} :
         /\ At(p, tool)
         /\ \/ Applies(p, tool) \/ Exit(p, 255) \/ Exit(p, 1)
            \/ tool \in Tolerant /\ GoesOn(p)
  <2>1. \A t \in {"vlimit", "vsched", "vsysctl", "vuname-dir", "vuname-context", "vmemctrl",
                  "vattribute"} : t \in Configure \ {"vspace-set"}
    BY DEF Configure
  <2>2. CASE vlimit(p)
    BY <2>1, <2>2 DEF vlimit, Tolerant
  <2>3. CASE vsysctl(p)
    BY <2>1, <2>3 DEF vsysctl, Tolerant, Fails
  <2>4. CASE vsched(p) \/ vunameDir(p) \/ vunameSet(p)
    BY <2>1, <2>4 DEF vsched, vunameDir, vunameSet, Fails
  <2>5. CASE vmemctrl(p) \/ vattribute(p)
    BY <2>1, <2>5 DEF vmemctrl, vattribute, Fails
  <2> QED
    BY <2>2, <2>3, <2>4, <2>5
<1>2. CASE Exit(p, 255) \/ Exit(p, 1)
  BY <1>2, ToolFails
<1>3. CASE Applies(p, tool)
  BY <1>1, <1>3, AppliesKeeps
<1>4. CASE tool \in Tolerant /\ GoesOn(p)
  <2>1. tool \notin Confining \cup Required \cup NetConfigure \cup {"vtag-create", "vtag-migrate"}
    BY <1>4 DEF Confining, Required, NetConfigure, Tolerant
  <2> QED
    BY <1>1, <1>4, <2>1, GoesOnKeeps
<1> QED
  BY <1>1, <1>2, <1>3, <1>4

\* vtag, with and without the kernel feature.
LEMMA Vtag ==
    ASSUME IInv, NEW p \in {"start", "visit"}, vtag(p), Watched, UNCHANGED <<starts, visits>>
    PROVE  IInv'
<1>1. PICK tool \in {"vtag-create", "vtag-migrate"} : At(p, tool)
  BY DEF vtag
<1>2. CASE Exit(p, 255)
  BY <1>2, ToolFails
<1>3. CASE "pptag" \notin kernel /\ GoesOn(p)
  BY <1>1, <1>3, GoesOnKeeps DEF Confining, Required, Configure, NetConfigure
<1>4. CASE Joins(p, [Is(p) EXCEPT !.tag = TRUE])
  <2>1. PICK is : is = [proc[p].is EXCEPT !.tag = TRUE]
    OBVIOUS
  <2>2. /\ is \in Confinement /\ is.tag /\ is.nid = proc[p].is.nid /\ is.xid = proc[p].is.xid
        /\ is.ns = proc[p].is.ns /\ is.root = proc[p].is.root /\ is.env = proc[p].is.env
    BY <2>1, ItsState DEF Confinement
  <2>3. Exec(p, is) /\ UNCHANGED <<ctx, net, runfile>>
    BY <1>4, <2>1, ItsState DEF Joins
  <2>4. Fits(p, is)
    BY <1>1, <2>2, <2>3, Before DEF Fits
  <2>5. CtxGrows /\ ctx' \in CtxType
    BY <2>3, ItsState DEF CtxGrows
  <2> QED
    BY <1>1, <2>2, <2>3, <2>4, <2>5, JoinsKeeps DEF Required, Configure, NetConfigure
<1> QED
  BY <1>2, <1>3, <1>4 DEF vtag, Fails

\* vspace --new, of a start.
LEMMA NewSpaces ==
    ASSUME IInv, NEW p \in {"start", "visit"}, newSpaces(p), Watched,
           UNCHANGED <<starts, visits>>
    PROVE  IInv'
<1>1. At(p, "vspace-new")
  BY DEF newSpaces
<1>2. CASE Exit(p, 255)
  BY <1>2, ToolFails
<1>3. CASE Joins(p, [Is(p) EXCEPT !.ns = starts])
  <2>1. PICK is : is = [proc[p].is EXCEPT !.ns = starts]
    OBVIOUS
  <2>2. /\ is \in Confinement /\ is.tag = proc[p].is.tag /\ is.nid = proc[p].is.nid
        /\ is.xid = proc[p].is.xid /\ is.ns = starts /\ is.root = proc[p].is.root
        /\ is.env = proc[p].is.env
    BY <2>1, ItsState DEF Confinement
  <2>3. Exec(p, is) /\ UNCHANGED <<ctx, net, runfile>>
    BY <1>3, <2>1, ItsState DEF Joins
  <2>4. p = "start" /\ Migrate
    BY <1>1, Before DEF Plan, NetPlan
  <2>5. starts # 0 /\ starts <= starts
    BY <1>1, <2>4, Where, ItsState DEF IInv, StartInv
  <2>6. Fits(p, is)
    BY <1>1, <2>2, <2>3, <2>4, <2>5, Before DEF Fits
  <2>7. CtxGrows /\ ctx' \in CtxType
    BY <2>3, ItsState DEF CtxGrows
  <2> QED
    BY <1>1, <2>2, <2>3, <2>6, <2>7, JoinsKeeps DEF Required, Configure, NetConfigure
<1> QED
  BY <1>2, <1>3 DEF newSpaces, Fails

\* vspace --enter, of a visitor.
LEMMA EnterSpaces ==
    ASSUME IInv, NEW p \in {"start", "visit"}, enterSpaces(p), Watched,
           UNCHANGED <<starts, visits>>
    PROVE  IInv'
<1>1. At(p, "vspace-enter")
  BY DEF enterSpaces
<1>2. CASE Exit(p, 255)
  BY <1>2, ToolFails
<1>3. CASE ctx.spaces # 0 /\ Joins(p, [Is(p) EXCEPT !.ns = ctx.spaces])
  <2>1. PICK is : is = [proc[p].is EXCEPT !.ns = ctx.spaces]
    OBVIOUS
  <2>2. /\ is \in Confinement /\ is.tag = proc[p].is.tag /\ is.nid = proc[p].is.nid
        /\ is.xid = proc[p].is.xid /\ is.ns = ctx.spaces /\ is.root = proc[p].is.root
        /\ is.env = proc[p].is.env
    BY <2>1, ItsState DEF Confinement, CtxType
  <2>3. Exec(p, is) /\ UNCHANGED <<ctx, net, runfile>>
    BY <1>3, <2>1, ItsState DEF Joins
  <2>4. Migrate
    BY <1>3 DEF IInv, RunInv
  <2>5. Fits(p, is)
    BY <1>1, <1>3, <2>2, <2>3, <2>4, Before, ItsState DEF Fits
  <2>6. CtxGrows /\ ctx' \in CtxType
    BY <2>3, ItsState DEF CtxGrows
  <2> QED
    BY <1>1, <2>2, <2>3, <2>5, <2>6, JoinsKeeps DEF Required, Configure, NetConfigure
<1> QED
  BY <1>2, <1>3 DEF enterSpaces, Fails

\* env, which a start executes the program with.
LEMMA Env ==
    ASSUME IInv, NEW p \in {"start", "visit"}, env(p), Watched, UNCHANGED <<starts, visits>>
    PROVE  IInv'
<1>1. At(p, "env")
  BY DEF env
<1>2. PICK is : is = [proc[p].is EXCEPT !.env = TRUE]
  OBVIOUS
<1>3. /\ is \in Confinement /\ is.tag = proc[p].is.tag /\ is.nid = proc[p].is.nid
      /\ is.xid = proc[p].is.xid /\ is.ns = proc[p].is.ns /\ is.root = proc[p].is.root
      /\ is.env
  BY <1>2, ItsState DEF Confinement
<1>4. Exec(p, is) /\ UNCHANGED <<ctx, net, runfile>>
  BY <1>2, ItsState DEF env, Joins
<1>5. Fits(p, is)
  BY <1>1, <1>3, <1>4, Before DEF Fits
<1>6. CtxGrows /\ ctx' \in CtxType
  BY <1>4, ItsState DEF CtxGrows
<1> QED
  BY <1>1, <1>3, <1>4, <1>5, <1>6, JoinsKeeps DEF Required, Configure, NetConfigure

\* The last tool of a start: into the root, and the setup of the context ends.
LEMMA VcontextSelf ==
    ASSUME IInv, NEW p \in {"start", "visit"}, vcontextSelf(p), Watched,
           UNCHANGED <<starts, visits>>
    PROVE  IInv'
<1>1. At(p, "vcontext-self")
  BY DEF vcontextSelf
<1>2. CASE Exit(p, 255)
  BY <1>2, ToolFails
<1>3. CASE /\ ctx' = [ctx EXCEPT !.setup = FALSE]
           /\ Exec(p, [Is(p) EXCEPT !.root = TRUE]) /\ UNCHANGED <<net, runfile>>
  <2>1. PICK is : is = [proc[p].is EXCEPT !.root = TRUE]
    OBVIOUS
  <2>2. /\ is \in Confinement /\ is.tag = proc[p].is.tag /\ is.nid = proc[p].is.nid
        /\ is.xid = proc[p].is.xid /\ is.ns = proc[p].is.ns /\ is.root
        /\ is.env = proc[p].is.env
    BY <2>1, ItsState DEF Confinement
  <2>3. Exec(p, is) /\ UNCHANGED <<net, runfile>>
    BY <1>3, <2>1, ItsState
  <2>4. /\ CtxGrows /\ ctx' \in CtxType /\ ctx'.gen = ctx.gen /\ ~ctx'.setup
    BY <1>3, ItsState DEF CtxGrows, CtxType
  <2>5. Fits(p, is)
    BY <1>1, <2>2, <2>3, <2>4, Before DEF Fits
  <2> QED
    BY <1>1, <2>2, <2>3, <2>4, <2>5, JoinsKeeps DEF Required, Configure, NetConfigure
<1> QED
  BY <1>2, <1>3 DEF vcontextSelf, Fails

\* The last tool of a visitor: into the root and into the context.
LEMMA VcontextMigrate ==
    ASSUME IInv, NEW p \in {"start", "visit"}, vcontextMigrate(p), Watched,
           UNCHANGED <<starts, visits>>
    PROVE  IInv'
<1>1. At(p, "vcontext-migrate") /\ Rank("vcontext-migrate") = 20
  BY Ranks DEF vcontextMigrate
<1>2. CASE Exit(p, 255)
  BY <1>2, ToolFails
<1>3. CASE CtxThere /\ Joins(p, [Is(p) EXCEPT !.root = TRUE, !.xid = ctx.gen])
  <2>1. PICK is : is = [proc[p].is EXCEPT !.root = TRUE, !.xid = ctx.gen]
    OBVIOUS
  <2>2. /\ is \in Confinement /\ is.tag = proc[p].is.tag /\ is.nid = proc[p].is.nid
        /\ is.xid = ctx.gen /\ is.ns = proc[p].is.ns /\ is.root
        /\ is.env = proc[p].is.env
    BY <2>1, ItsState DEF Confinement
  <2>3. Exec(p, is) /\ UNCHANGED <<ctx, net, runfile>> /\ ctx.gen # 0
    BY <1>3, <2>1, ItsState DEF Joins, CtxThere
  <2>4. p = "visit"
    BY <1>1, Before DEF Plan, NetPlan, Configure
  <2>5. Fits(p, is)
    BY <1>1, <2>2, <2>3, <2>4, Before DEF Fits
  <2>6. CtxGrows /\ ctx' \in CtxType
    BY <2>3, ItsState DEF CtxGrows
  <2> QED
    BY <1>1, <2>2, <2>3, <2>4, <2>5, <2>6, JoinsKeeps DEF Required, Configure, NetConfigure
<1> QED
  BY <1>2, <1>3 DEF vcontextMigrate, Fails

\* chcontext-compat enters the context or makes it.
LEMMA ChcontextCompat ==
    ASSUME IInv, NEW p \in {"start", "visit"}, chcontextCompat(p), Watched,
           UNCHANGED <<starts, visits>>
    PROVE  IInv'
<1>1. At(p, "chcontext-compat") /\ Rank("chcontext-compat") = 7
  BY Ranks DEF chcontextCompat
<1>2. CASE Exit(p, 255)
  BY <1>2, ToolFails
<1>3. CASE CtxThere /\ Joins(p, [Is(p) EXCEPT !.xid = ctx.gen])
  <2>1. PICK is : is = [proc[p].is EXCEPT !.xid = ctx.gen]
    OBVIOUS
  <2>2. /\ is \in Confinement /\ is.tag = proc[p].is.tag /\ is.nid = proc[p].is.nid
        /\ is.xid = ctx.gen /\ is.ns = proc[p].is.ns /\ is.root = proc[p].is.root
        /\ is.env = proc[p].is.env
    BY <2>1, ItsState DEF Confinement
  <2>3. Exec(p, is) /\ UNCHANGED <<ctx, net, runfile>> /\ ctx.gen # 0
    BY <1>3, <2>1, ItsState DEF Joins, CtxThere
  <2>4. p = "start" /\ ~Migrate
    BY <1>1, Before DEF Plan, NetPlan, Configure
  <2>5. Fits(p, is)
    BY <1>1, <2>2, <2>3, <2>4, Before DEF Fits
  <2>6. CtxGrows /\ ctx' \in CtxType
    BY <2>3, ItsState DEF CtxGrows
  <2> QED
    BY <1>1, <2>2, <2>3, <2>4, <2>5, <2>6, JoinsKeeps DEF Required, Configure, NetConfigure
<1>4. CASE /\ ~CtxThere
           /\ ctx' = [gen |-> ctx.gen + 1, setup |-> FALSE, conf |-> {}, spaces |-> 0]
           /\ Exec(p, [Is(p) EXCEPT !.xid = ctx.gen + 1]) /\ UNCHANGED <<net, runfile>>
  <2>1. ctx' \in CtxType /\ ctx'.gen = ctx.gen + 1 /\ ctx'.spaces = 0 /\ ~ctx'.setup
    BY <1>4, ItsState DEF CtxType
  <2> QED
    BY <1>1, <1>4, <2>1, MakesContext
<1> QED
  BY <1>2, <1>3, <1>4 DEF chcontextCompat, Fails

\* capchroot, the last tool of a start where the kernel cannot migrate.
LEMMA Capchroot ==
    ASSUME IInv, NEW p \in {"start", "visit"}, capchroot(p), Watched,
           UNCHANGED <<starts, visits>>
    PROVE  IInv'
<1>1. At(p, "capchroot")
  BY DEF capchroot
<1>2. CASE Exit(p, 1)
  BY <1>2, ToolFails
<1>3. CASE Joins(p, [Is(p) EXCEPT !.root = TRUE])
  <2>1. PICK is : is = [proc[p].is EXCEPT !.root = TRUE]
    OBVIOUS
  <2>2. /\ is \in Confinement /\ is.tag = proc[p].is.tag /\ is.nid = proc[p].is.nid
        /\ is.xid = proc[p].is.xid /\ is.ns = proc[p].is.ns /\ is.root
        /\ is.env = proc[p].is.env
    BY <2>1, ItsState DEF Confinement
  <2>3. Exec(p, is) /\ UNCHANGED <<ctx, net, runfile>>
    BY <1>3, <2>1, ItsState DEF Joins
  <2>4. Fits(p, is)
    BY <1>1, <2>2, <2>3, Before DEF Fits
  <2>5. CtxGrows /\ ctx' \in CtxType
    BY <2>3, ItsState DEF CtxGrows
  <2> QED
    BY <1>1, <2>2, <2>3, <2>4, <2>5, JoinsKeeps DEF Required, Configure, NetConfigure
<1> QED
  BY <1>2, <1>3 DEF capchroot

\* Every tool keeps the invariant.
LEMMA ToolKeeps ==
    ASSUME IInv, NEW p \in {"start", "visit"}, Tool(p), Watched, UNCHANGED <<starts, visits>>
    PROVE  IInv'
<1>1. CASE ncontextCreate(p) \/ ncontextMigrate(p) \/ chbindCompat(p)
  BY <1>1, NcontextCreate, NcontextMigrate, ChbindCompat
<1>2. CASE nattribute(p) \/ naddress(p) \/ execUlimit(p) \/ vtag(p)
  BY <1>2, Nattribute, Naddress, ExecUlimit, Vtag
<1>3. CASE newSpaces(p) \/ setSpaces(p) \/ enterSpaces(p)
  BY <1>3, NewSpaces, SetSpaces, EnterSpaces
<1>4. CASE vcontextCreate(p) \/ chcontextCompat(p) \/ vcontextSelf(p) \/ vcontextMigrate(p)
  BY <1>4, VcontextCreate, ChcontextCompat, VcontextSelf, VcontextMigrate
<1>5. CASE execRemount(p) \/ chainEcho(p)
  BY <1>5, NothingDone
<1>6. CASE \/ vlimit(p) \/ vsched(p) \/ vsysctl(p) \/ vunameDir(p) \/ vunameSet(p)
           \/ vmemctrl(p) \/ vattribute(p)
  BY <1>6, Configuring
<1>7. CASE saveCtxinfo(p) \/ env(p) \/ capchroot(p)
  BY <1>7, SaveCtxinfo, Env, Capchroot
<1> QED
  BY <1>1, <1>2, <1>3, <1>4, <1>5, <1>6, <1>7 DEF Tool

-----------------------------------------------------------------------------
(* The theorems.                                                           *)

\* The invariant holds before the first start.
LEMMA Initially == Init => IInv
<1> SUFFICES ASSUME Init PROVE IInv
  OBVIOUS
<1>1. \A p \in Process : /\ proc[p] = Idle /\ Idle \in State
                         /\ Idle.mode = "idle" /\ Idle.todo = << >> /\ ~Idle.script
                         /\ Idle.is = Host /\ Idle.found = 0 /\ Idle.execs = 0
  <2>1. Host \in Confinement /\ << >> \in Seq(Tools)
    BY DEF Host, Confinement
  <2> QED
    BY <2>1 DEF Init, Idle, State
<1>2. Host.xid = 0 /\ Host.nid = 0 /\ {"start", "visit"} \subseteq Process
  BY DEF Host, Process
<1>3. Typed
  <2>1. proc \in [Process -> State]
    BY <1>1 DEF Init
  <2>2. /\ ctx \in [gen : Nat, setup : BOOLEAN, conf : SUBSET Configure, spaces : Nat]
        /\ net \in [gen : Nat, conf : SUBSET NetConfigure] /\ ctx.spaces = 0
    BY DEF Init
  <2>3. kernel \subseteq {"migrate", "vnet", "pptag"} /\ (Vnet => Migrate)
        /\ ("pptag" \in kernel => Vnet)
    BY DEF Init, Vnet, Migrate
  <2>4. starts \in 0 .. MaxStarts /\ visits \in 0 .. MaxVisits
    <3>1. 0 \in 0 .. MaxStarts /\ 0 \in 0 .. MaxVisits
      BY ChainAssumption
    <3> QED
      BY <3>1 DEF Init
  <2>5. outlived \in BOOLEAN
    BY DEF Init
  <2>6. runfile \in Nat /\ ctx.spaces <= starts
    BY <2>2 DEF Init
  <2> QED
    BY <2>1, <2>2, <2>3, <2>4, <2>5, <2>6 DEF Typed
<1>4. \A p \in Process : Shape(p) /\ Place(p) /\ Made(p) /\ Left(p) = {}
  BY <1>1, <1>3, IdleIsFine DEF IdleFits
<1>5. BuildInv /\ RunInv /\ StartInv
  BY <1>1, <1>2, <1>4 DEF Init, BuildInv, Building, RunInv, StartInv, On
<1>6. NetInv
  BY <1>1, <1>2 DEF Init, NetInv, Late, NetThere
<1> QED
  BY <1>3, <1>4, <1>5, <1>6 DEF IInv

\* Every step keeps the invariant.
LEMMA Invariance == 254 \notin ExitCodes /\ IInv /\ [Next]_vars => IInv'
<1> SUFFICES ASSUME 254 \notin ExitCodes, IInv, [Next]_vars PROVE IInv'
  OBVIOUS
<1>1. CASE UNCHANGED vars
  <2>1. /\ Typed' = Typed /\ BuildInv' = BuildInv /\ RunInv' = RunInv /\ NetInv' = NetInv
        /\ StartInv' = StartInv
    BY <1>1 DEF vars, Typed, BuildInv, Building, RunInv, NetInv, NetMade, NetThere, Late, InCtx,
                StartInv, On, Left, Vnet, Migrate
  <2>2. \A p \in Process : /\ Shape(p)' = Shape(p) /\ Place(p)' = Place(p)
                           /\ Made(p)' = Made(p)
    BY <1>1 DEF vars, Shape, Place, Made, Past, On, Left, Plan, NetPlan, Vnet, Migrate
  <2> QED
    BY <2>1, <2>2 DEF IInv
<1>2. CASE Next
  <2>1. Watched /\ Step
    BY <1>2 DEF Next, Watched
  <2>2. CASE startVserver \/ suexecVserver \/ suexecRefused
    BY <2>1, <2>2, StartVserver, SuexecVserver, SuexecRefused
  <2>3. CASE fork \/ programEnds \/ stopVserver
    BY <2>1, <2>3, Fork, ProgramEnds, StopVserver
  <2>4. CASE \E p \in {"start", "visit"} : Tool(p) /\ UNCHANGED <<starts, visits>>
    BY <2>1, <2>4, ToolKeeps
  <2> QED
    BY <2>1, <2>2, <2>3, <2>4 DEF Step
<1> QED
  BY <1>1, <1>2

\* A program of the guest has every tool of its chain behind it.
LEMMA AllBehind ==
    ASSUME IInv, NEW p \in Guest
    PROVE  p \in Process /\ On(p) /\ Shape(p) /\ Place(p) /\ Made(p) /\ \A tools : Past(p, tools)
BY DEF IInv, Guest, On, Past, Shape

\* The invariant implies the types.
LEMMA IsTyped == IInv => TypeOK
<1> SUFFICES ASSUME IInv PROVE TypeOK
  OBVIOUS
<1>1. Typed
  BY DEF IInv
<1>2. ASSUME NEW p \in Process
      PROVE  /\ proc[p].mode \in {"idle", "chain", "guest"} /\ proc[p].todo \in Seq(Tools)
             /\ proc[p].script \in BOOLEAN /\ proc[p].rc \in 0 .. 255
             /\ proc[p].is.nid \in 0 .. net.gen /\ proc[p].is.xid \in 0 .. ctx.gen
             /\ proc[p].is.ns \in 0 .. starts /\ proc[p].found \in 0 .. ctx.gen
             /\ {proc[p].is.tag, proc[p].is.root, proc[p].is.env} \subseteq BOOLEAN
             /\ proc[p].execs \in Nat
  <2>1. proc[p] \in State /\ proc[p].is \in Confinement
    BY <1>1 DEF Typed, State
  <2>2. Place(p) /\ Shape(p) /\ ctx.gen \in Nat /\ net.gen \in Nat /\ starts \in Nat
    BY <1>1 DEF IInv, Typed
  <2>3. /\ proc[p].is.nid \in Nat /\ proc[p].is.xid \in Nat /\ proc[p].is.ns \in Nat
        /\ proc[p].found \in Nat
    BY <2>1 DEF State, Confinement
  <2>4. /\ proc[p].is.nid \in 0 .. net.gen /\ proc[p].is.xid \in 0 .. ctx.gen
        /\ proc[p].is.ns \in 0 .. starts
    BY <2>2, <2>3 DEF Place
  <2>5. proc[p].found \in 0 .. ctx.gen
    BY <2>2, <2>3 DEF Shape
  <2> QED
    BY <2>1, <2>4, <2>5 DEF State, Confinement
<1>3. runfile \in 0 .. ctx.gen
  BY <1>1 DEF IInv, RunInv, Typed
<1> QED
  BY <1>1, <1>2, <1>3 DEF Typed, TypeOK

\* The invariant implies that the programs of the guest are guarded.
LEMMA IsGuarded == IInv => Guarded
<1> SUFFICES ASSUME IInv PROVE Guarded
  OBVIOUS
<1>1. Typed /\ RunInv /\ NetInv /\ TypeOK
  BY IsTyped DEF IInv
<1>2. Confined
  <2> SUFFICES ASSUME NEW p \in Guest
               PROVE  /\ proc[p].is.xid = ctx.gen /\ proc[p].is.root
                      /\ proc[p].is.nid # 0 /\ ("vnet" \in kernel => proc[p].is.nid = net.gen)
                      /\ "migrate" \in kernel => proc[p].is.ns # 0
                      /\ proc[p].found = 0 => proc[p].is.env /\ ~ctx.setup
                      /\ "pptag" \in kernel => proc[p].is.tag
    BY DEF Confined
  <2>1. Place(p) /\ On(p) /\ \A tools : Past(p, tools)
    BY AllBehind
  <2>2. proc[p].is.xid # 0 /\ proc[p].is.root /\ proc[p].is.nid # 0
    BY <2>1 DEF Place
  <2> QED
    BY <1>1, <2>1, <2>2 DEF Place, Vnet, Migrate, RunInv
<1>3. ConfiguredFirst
  <2> SUFFICES ASSUME NEW p \in Guest, Migrate, InTime(p) PROVE Required \subseteq ctx.conf
    BY DEF ConfiguredFirst, Migrate, Required
  <2>1. Made(p) /\ proc[p].is.xid = ctx.gen /\ \A tools : Past(p, tools)
    BY <1>2, AllBehind DEF Confined
  <2> QED
    BY <2>1 DEF Made, InTime
<1>4. NetConfiguredFirst
  <2> SUFFICES ASSUME NEW p \in Guest, ~outlived PROVE net.conf = NetConfigure
    BY DEF NetConfiguredFirst
  <2>1. /\ p \in Process /\ proc[p].is.nid # 0 /\ (Vnet => proc[p].is.nid = net.gen)
        /\ Place(p) /\ Left(p) = {}
    BY <1>2, AllBehind DEF Confined, Vnet, Guest, Shape
  <2>2. net.gen # 0
    <3>1. proc[p].is.nid \in Nat /\ net.gen \in Nat /\ proc[p].is.nid <= net.gen
      BY <1>1, <2>1 DEF Typed, State, Confinement, Place
    <3> QED
      BY <2>1, <3>1
  <2>3. CASE ~Vnet
    BY <1>1, <2>2, <2>3 DEF NetInv
  <2>4. CASE Vnet
    <3>1. NetMade
      BY <1>1, <2>1, <2>2, <2>4 DEF NetInv, NetThere
    <3>2. CASE net.conf # NetConfigure
      <4>1. p = "start" /\ NetConfigure \subseteq net.conf \cup Left("start")
        BY <2>1, <2>4, <3>1, <3>2 DEF NetMade
      <4>2. net.conf \subseteq NetConfigure
        BY <1>1 DEF Typed
      <4> QED
        BY <2>1, <4>1, <4>2
    <3> QED
      BY <3>2
  <2> QED
    BY <2>3, <2>4
<1>5. OneIncarnation
  <2> SUFFICES ASSUME NEW p \in Guest, InTime(p) PROVE proc[p].is.ns = ctx.spaces
    BY DEF OneIncarnation
  <2>1. /\ Made(p) /\ Place(p) /\ proc[p].is.xid = ctx.gen /\ \A tools : Past(p, tools)
    BY <1>2, AllBehind DEF Confined
  <2>2. CASE Migrate
    <3>1. proc[p].found = 0 => proc[p].is.ns = ctx.spaces
      BY <2>1, <2>2 DEF Made
    <3>2. proc[p].found # 0 /\ proc[p].found = ctx.gen => proc[p].is.ns = ctx.spaces
      BY <2>1, <2>2 DEF Made
    <3> QED
      BY <2>1, <3>1, <3>2 DEF InTime
  <2>3. CASE ~Migrate
    BY <1>1, <2>1, <2>3 DEF Place, RunInv
  <2> QED
    BY <2>2, <2>3
<1> QED
  BY <1>1, <1>2, <1>3, <1>4, <1>5 DEF Guarded

\* No step replaces the run file of a guest that runs.
LEMMA RunFileStays ==
    IInv /\ [Next]_vars =>
        [runfile # 0 /\ CtxThere /\ "migrate" \in kernel => runfile' = runfile]_vars
<1> SUFFICES ASSUME IInv, Next, runfile # 0, CtxThere, Migrate PROVE runfile' = runfile
  BY DEF Migrate
<1>1. Required \subseteq ctx.conf /\ "vuname-context" \in Required
  BY DEF IInv, RunInv, Required, Configure, Tolerant
<1>2. isVserverRunning
  BY <1>1 DEF isVserverRunning
<1>3. CASE \/ startVserver \/ suexecVserver \/ suexecRefused \/ fork \/ programEnds
           \/ stopVserver
  BY <1>2, <1>3 DEF startVserver, suexecVserver, suexecRefused, fork, programEnds, stopVserver,
                   Exit
<1>4. ASSUME NEW p \in {"start", "visit"}, Tool(p) PROVE runfile' = runfile
  <2>1. CASE saveCtxinfo(p)
    BY <2>1 DEF saveCtxinfo, Exit
  <2>2. CASE \/ ncontextCreate(p) \/ ncontextMigrate(p) \/ nattribute(p) \/ naddress(p)
             \/ chbindCompat(p) \/ execUlimit(p) \/ vtag(p) \/ newSpaces(p)
    BY <2>2 DEF ncontextCreate, ncontextMigrate, nattribute, naddress, chbindCompat, execUlimit,
                vtag, newSpaces, NetApplies, Joins, GoesOn, Fails, Exit
  <2>3. CASE \/ vcontextCreate(p) \/ setSpaces(p) \/ enterSpaces(p) \/ execRemount(p)
             \/ vlimit(p) \/ vsched(p) \/ vsysctl(p)
    BY <2>3 DEF vcontextCreate, setSpaces, enterSpaces, execRemount, vlimit, vsched, vsysctl,
                Applies, Joins, GoesOn, Fails, Exit
  <2>4. CASE \/ vunameDir(p) \/ vunameSet(p) \/ vmemctrl(p) \/ vattribute(p) \/ env(p)
             \/ vcontextSelf(p) \/ vcontextMigrate(p)
    BY <2>4 DEF vunameDir, vunameSet, vmemctrl, vattribute, env, vcontextSelf, vcontextMigrate,
                Applies, Joins, Fails, Exit
  <2>5. CASE chcontextCompat(p) \/ chainEcho(p) \/ capchroot(p)
    BY <2>5 DEF chcontextCompat, chainEcho, capchroot, Joins, GoesOn, Fails, Exit
  <2> QED
    BY <1>4, <2>1, <2>2, <2>3, <2>4, <2>5 DEF Tool
<1> QED
  BY <1>3, <1>4 DEF Next, Step

\* Whatever tool fails and whoever comes in between, a program runs in the guest
\* only behind the whole chain: in the guest's context, network context, root, tag
\* and spaces, and when all of them are configured (scripts/vserver.start,
\* scripts/vserver.suexec, scripts/chbind and the tools of src/).
THEOREM GuestsAreGuarded == ASSUME 254 \notin ExitCodes PROVE Spec => []Guarded
<1>1. Spec => []IInv
  BY Initially, Invariance, PTL DEF Spec
<1> QED
  BY <1>1, IsGuarded, PTL

\* A start executes the program of the guest once although the chbind script may
\* execute the command twice; the run file comes when the context is configured,
\* and while the context is there nobody writes another (save_ctxinfo).
THEOREM StartsOnce == ASSUME 254 \notin ExitCodes PROVE Spec => StartedOnce
<1>1. Spec => []IInv
  BY Initially, Invariance, PTL DEF Spec
<1>2. IInv => ExecutedOnce
  BY DEF IInv, StartInv, ExecutedOnce
<1>3. IInv => RunFileIsLate
  BY DEF IInv, RunInv, RunFileIsLate, Migrate, Required
<1>4. IInv /\ [Next]_vars =>
         [runfile # 0 /\ CtxThere /\ "migrate" \in kernel => runfile' = runfile]_vars
  BY RunFileStays
<1> QED
  BY <1>1, <1>2, <1>3, <1>4, PTL DEF Spec, StartedOnce, OneRunFile
=============================================================================
