------------------------------ MODULE MCObject ------------------------------
(***************************************************************************)
(* Every kind of reference under every option that matters to it, in       *)
(* 6-bit halves (words of 12 bits, jumps of 9), and 96 layouts.            *)
(***************************************************************************)
EXTENDS Cpu0Object

Plain == [use |-> "address", sort |-> "var", link |-> "global", same |-> FALSE,
          size |-> 4, kind |-> "data", model |-> "LocalExec", pic |-> FALSE,
          useSmall |-> FALSE, lld |-> FALSE, nocpload |-> FALSE, noat |-> FALSE,
          text |-> FALSE, code |-> <<>>, offset |-> 0]

Linkages == {"internal", "private", "global", "weak", "undef"}

Variables ==
  {r \in {[Plain EXCEPT !.link = l, !.pic = p, !.useSmall = u, !.size = n, !.kind = k,
                        !.text = t, !.nocpload = p /\ t] :
            l \in Linkages, p \in BOOLEAN, u \in BOOLEAN, n \in {8, 12},
            k \in {"data", "common", "mergeable"}, t \in BOOLEAN} :
     ~r.useSmall => r.size = 8 /\ r.kind = "data"}

Functions ==
  {r \in {[Plain EXCEPT !.use = u, !.sort = "func", !.link = l, !.same = s, !.pic = p,
                        !.lld = d, !.text = t, !.nocpload = n] :
            u \in {"address", "call", "tail"}, l \in Linkages, s \in BOOLEAN,
            p \in BOOLEAN, d \in BOOLEAN, t \in BOOLEAN, n \in BOOLEAN} :
     /\ r.link = "undef" => ~r.same
     /\ r.nocpload => r.pic /\ r.text}

Labels ==
  {[Plain EXCEPT !.use = u, !.sort = s, !.link = "private", !.same = TRUE, !.pic = p,
                 !.text = t, !.nocpload = p /\ t, !.noat = n] :
     u \in {"address", "data", "entry", "jump", "branch", "compare-branch"},
     s \in {"block", "table"}, p \in BOOLEAN, t \in BOOLEAN, n \in BOOLEAN}

ThreadLocals ==
  {[Plain EXCEPT !.use = "tls", !.model = m, !.text = t, !.nocpload = t,
                 !.pic = m \in {"GeneralDynamic", "LocalDynamic"}] :
     m \in {"GeneralDynamic", "LocalDynamic", "InitialExec", "LocalExec"}, t \in BOOLEAN}

Slots == {[Plain EXCEPT !.use = "cprestore", !.offset = n, !.text = t] :
            n \in {0, 24, 40, 100}, t \in BOOLEAN}

\* Instructions without a symbol: every form, with the edges of its immediate.
Instructions ==
  {Inst(op, <<Reg(a), Reg(b), Reg("ZERO")>>) : op \in {"ADDu", "CMP"}, a \in {"V0", "T9"}, b \in {"A1", "S1"}}
  \cup {Inst(op, <<Reg("T0"), Reg("FP"), Imm(n)>>) : op \in {"ADDiu", "LD", "ST", "BEQ"}, n \in {-32, -29, -28, -1, 0, 31}}
  \cup {Inst(op, <<Reg("AT"), Reg("GP"), Imm(n)>>) : op \in {"ORi", "ANDi"}, n \in {0, 32, 63}}
  \cup {Inst("LUi", <<Reg("V1"), Imm(n)>>) : n \in {0, 63}}
  \cup {Inst("SHL", <<Reg("S0"), Reg("S1"), Imm(5)>>)}
  \cup {Inst(op, <<Reg("SW"), Imm(n)>>) : op \in {"JEQ", "JLT"}, n \in {-256, -224, -1, 255}}
  \cup {Inst(op, <<Imm(n)>>) : op \in {"JMP", "JSUB", "BAL"}, n \in {0, 255}}
  \cup {Inst("JR", <<Reg("T9")>>), Inst("RET", <<Reg("LR")>>), Inst("JALR", <<Reg("T9")>>)}

Codes == {[Plain EXCEPT !.use = "code", !.code = <<i>>, !.text = t] :
            i \in Instructions, t \in BOOLEAN}

MCReferences == Variables \cup Functions \cup Labels \cup ThreadLocals \cup Slots \cup Codes

\* gp at the start of a page or not; the GOT behind it or in front of it; the
\* far entry with a lower half that is negative or not.
Globals == {[gp |-> 1024, small |-> 1024, got |-> 1032, far |-> 1224],
            [gp |-> 1024, small |-> 1040, got |-> 992, far |-> 1124],
            [gp |-> 1060, small |-> 1060, got |-> 1068, far |-> 1260],
            [gp |-> 1060, small |-> 1088, got |-> 1028, far |-> 1064]}

Code == {<<512, 0>>, <<512, 24>>, <<512, 44>>, <<540, 0>>, <<540, 24>>, <<540, 60>>}

Others == {[sym |-> 700, tls |-> 3072, tpoff |-> 5, dtpoff |-> 5],
           [sym |-> 1050, tls |-> 3072, tpoff |-> 1000, dtpoff |-> 75],
           [sym |-> 2301, tls |-> 3100, tpoff |-> 3000, dtpoff |-> 100],
           [sym |-> 300, tls |-> 3072, tpoff |-> 70, dtpoff |-> 63]}

MCLayouts ==
  {[base |-> 512, function |-> c[1], sym |-> o.sym, secoff |-> c[2], small |-> g.small,
    gp |-> g.gp, got |-> g.got, far |-> g.far, tls |-> o.tls, tpoff |-> o.tpoff,
    dtpoff |-> o.dtpoff, sp |-> 2048] : g \in Globals, c \in Code, o \in Others}

=============================================================================
