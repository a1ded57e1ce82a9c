------------------------------- MODULE ForthVM -------------------------------
(***************************************************************************)
(* v1: the Forth interpreter (forth/forth.c).  forth_eval_line is given a  *)
(* line of tokens; since everything but the output cursor persists from    *)
(* one line to the next, the model takes one token at a time and lets a    *)
(* line end anywhere.  A compiled word runs one instruction per action,    *)
(* as a program yields in the middle of one.                               *)
(*                                                                         *)
(* Every error ends in the same ABORT, so an error is a step to it.        *)
(* Positions in the code count from 1.  What is printed is left out, and   *)
(* the sound words only take their arguments here (SynthEngine has them).  *)
(***************************************************************************)
EXTENDS Integers, Sequences

CONSTANTS
  DStackSize, CodeSize, MaxWords, RStackSize, CtrlSize, MemSize,
                \* the FORTH_..._SIZE of forth.h
  CellBits,     \* 32
  Literals,     \* bound: the numbers typed
  Names,        \* bound: the names given to words
  Typed,        \* bound: the primitives typed outside a definition
  Compiled      \* bound: the primitives compiled

CellMin == -(2^(CellBits - 1))
Cell == CellMin .. -CellMin - 1

ASSUME ForthAssumption ==
  /\ {DStackSize, CodeSize, MaxWords, RStackSize, CtrlSize, MemSize} \subseteq Nat
  /\ CellBits \in Nat \ {0} /\ Literals \subseteq Cell

VARIABLES
  dstack,  \* dstack[0 .. dsp - 1]
  mem,     \* mem[], not touched by forth_init
  code,    \* code[0 .. code_len - 1]
  dict,    \* dict[0 .. dict_len - 1]
  ctrl,    \* ctrl_stack[0 .. ctrl_sp - 1]
  rstack,  \* rstack[0 .. rsp - 1]
  mode,    \* "run", "name" (awaiting_name), "body" (compiling), "exec"
  cname, cstart,  \* compile_name, compile_start
  ip       \* forth_exec's ip, 0 outside it
forthVars == << dstack, mem, code, dict, ctrl, rstack, mode, cname, cstart, ip >>

ForthInit ==
  /\ dstack = <<>> /\ code = <<>> /\ dict = <<>> /\ ctrl = <<>> /\ rstack = <<>>
  /\ mem = [a \in 0 .. MemSize - 1 |-> 0]
  /\ mode = "run" /\ cname = "" /\ cstart = 1 /\ ip = 0

\* Two's complement: what the x86 instructions leave of a sum or a product.
Wrapped(n) == ((n - CellMin) % 2^CellBits) + CellMin
Quotient(a, b) ==
  LET size(n) == IF n < 0 THEN -n ELSE n
      q == size(a) \div size(b)
  IN  IF (a < 0) = (b < 0) THEN q ELSE -q
Truth(p) == IF p THEN -1 ELSE 0

\* (mutant) what was being compiled is left open
AbortKeepsCtrl(newCode) ==
  /\ dstack' = <<>> /\ rstack' = <<>> /\ mode' = "run" /\ ip' = 0
  /\ code' = newCode
  /\ UNCHANGED << ctrl, mem, dict, cname, cstart >>

\* The end of forth_eval_line after an error; code_len is not rewound.
Abort(newCode) ==
  /\ dstack' = <<>> /\ rstack' = <<>> /\ ctrl' = <<>>
  /\ mode' = "run" /\ ip' = 0 /\ code' = newCode
  /\ UNCHANGED << mem, dict, cname, cstart >>

----------------------------------------------------------------------------
\* The primitives.  Arity is what a primitive pops; the last one popped is the
\* first argument pushed.
Sound == [VOICE |-> 0 .. 7, WAVE |-> 0 .. 3, ONA |-> 1 .. 88, DUTY |-> Cell,
          CUTOFF |-> Cell, RES |-> Cell, MODE |-> Cell, ROUTE |-> Cell,
          PARTNER |-> 0 .. 7, ARPON |-> 2 .. 4, ARPRATE |-> Cell]
Arity(p) ==
  CASE p \in {"CR", "BEEP", "GATE-ON", "GATE-OFF", "RING-OFF", "ARP-OFF"} -> 0
    [] p \in {"DUP", "DROP", ".", "@"} \cup DOMAIN Sound -> 1
    [] p \in {"+", "-", "*", "/", "SWAP", "OVER", "=", "<", ">", "!", "ARP-NOTE"} -> 2
    [] p = "ADSR" -> 4

\* The arguments a primitive accepts.
Accepts(p, x) ==
  CASE p = "/" -> x[2] # 0 /\ ~(x[1] = CellMin /\ x[2] = -1)
    [] p = "@" -> x[1] \in 0 .. MemSize - 1
    [] p = "!" -> x[2] \in 0 .. MemSize - 1
    [] p = "ARP-NOTE" -> x[1] \in 1 .. 88 /\ x[2] \in 0 .. 3
    [] p \in DOMAIN Sound -> x[1] \in Sound[p]
    [] OTHER -> TRUE

\* What it pushes in their place.
Pushes(p, x) ==
  CASE p = "+" -> << Wrapped(x[1] + x[2]) >>
    [] p = "-" -> << Wrapped(x[1] - x[2]) >>
    [] p = "*" -> << Wrapped(x[1] * x[2]) >>
    [] p = "/" -> << Quotient(x[1], x[2]) >>
    [] p = "DUP" -> << x[1], x[1] >>
    [] p = "SWAP" -> << x[2], x[1] >>
    [] p = "OVER" -> << x[1], x[2], x[1] >>
    [] p = "=" -> << Truth(x[1] = x[2]) >>
    [] p = "<" -> << Truth(x[1] < x[2]) >>
    [] p = ">" -> << Truth(x[1] > x[2]) >>
    [] p = "@" -> << mem[x[1]] >>
    [] OTHER -> <<>>

\* Run primitive p and, when it raises no error, go on as done says.
Primitive(p, done) ==
  LET rest == Len(dstack) - Arity(p)
      args == SubSeq(dstack, rest + 1, Len(dstack))
      fits == rest >= 0 /\ Accepts(p, args)
                        /\ rest + Len(Pushes(p, args)) <= DStackSize
  IN  IF ~fits THEN Abort(code)
      ELSE /\ dstack' = SubSeq(dstack, 1, rest) \o Pushes(p, args)
           /\ mem' = IF p = "!" THEN [mem EXCEPT ![args[2]] = args[1]] ELSE mem
           /\ done
           /\ UNCHANGED << code, dict, ctrl, cname, cstart >>

Literal(n, done) ==
  IF Len(dstack) = DStackSize THEN Abort(code)
  ELSE /\ dstack' = Append(dstack, n) /\ done
       /\ UNCHANGED << mem, code, dict, ctrl, cname, cstart >>

\* Both searches take the oldest entry of that name.
Defined(n) == \E i \in DOMAIN dict : dict[i].name = n
Word(n) == CHOOSE i \in DOMAIN dict :
             dict[i].name = n /\ \A j \in 1 .. i - 1 : dict[j].name # n

----------------------------------------------------------------------------
\* handle_immediate_token
Stay == UNCHANGED << rstack, mode, ip >>

TypeColon ==
  /\ mode = "run" /\ mode' = "name" /\ cstart' = Len(code) + 1
  /\ UNCHANGED << dstack, mem, code, dict, ctrl, rstack, cname, ip >>
TypeLiteral(n) == mode = "run" /\ Literal(n, Stay)
TypePrimitive(p) == mode = "run" /\ Primitive(p, Stay)
TypeWord(n) ==
  /\ mode = "run"
  /\ IF ~Defined(n) THEN Abort(code)
     ELSE /\ mode' = "exec" /\ ip' = dict[Word(n)].code_start
          /\ UNCHANGED << dstack, mem, code, dict, ctrl, rstack, cname, cstart >>

----------------------------------------------------------------------------
\* handle_compile_token
TypeName(n) ==
  /\ mode = "name" /\ mode' = "body" /\ cname' = n
  /\ UNCHANGED << dstack, mem, code, dict, ctrl, rstack, cstart, ip >>

Instr(op, arg) == [op |-> op, arg |-> arg]
Room(n) == Len(code) + n <= CodeSize

\* forth_emit of instrs into base, then the new control stack; CODE FULL drops
\* what does not fit.
Emit(base, instrs, newCtrl) ==
  IF ~Room(Len(instrs)) \/ Len(newCtrl) > CtrlSize
    THEN Abort(SubSeq(base \o instrs, 1, IF Room(Len(instrs)) THEN Len(base) + Len(instrs)
                                         ELSE CodeSize))
    ELSE /\ code' = base \o instrs /\ ctrl' = newCtrl
         /\ UNCHANGED << dstack, mem, dict, rstack, mode, cname, cstart, ip >>

\* ctrl_pop
Open(kind) == ctrl # <<>> /\ ctrl[Len(ctrl)].kind = kind
Opened == ctrl[Len(ctrl)].value
Closed == SubSeq(ctrl, 1, Len(ctrl) - 1)
Entry(kind, value) == [kind |-> kind, value |-> value]
Patched(target) == [code EXCEPT ![Opened].arg = target]

TypeIf ==
  /\ mode = "body"
  /\ Emit(code, << Instr("zbranch", -1) >>, Append(ctrl, Entry("if", Len(code) + 1)))

TypeElse ==
  /\ mode = "body"
  /\ IF ~Open("if") THEN Abort(code)
     ELSE Emit(Patched(Len(code) + 2), << Instr("branch", -1) >>,
               Append(Closed, Entry("if", Len(code) + 1)))

TypeThen ==
  /\ mode = "body"
  /\ IF ~Open("if") THEN Abort(code) ELSE Emit(Patched(Len(code) + 1), <<>>, Closed)

TypeBegin ==
  /\ mode = "body"
  /\ Emit(code, <<>>, Append(ctrl, Entry("begin", Len(code) + 1)))

\* (mutant) the loop's yield emitted behind its branch
TypeUntilYieldsLate ==
  /\ mode = "body"
  /\ IF ~Open("begin") THEN Abort(code)
     ELSE Emit(code, << Instr("zbranch", Opened), Instr("yield", 0) >>, Closed)

TypeUntil ==
  /\ mode = "body"
  /\ IF ~Open("begin") THEN Abort(code)
     ELSE Emit(code, << Instr("yield", 0), Instr("zbranch", Opened) >>, Closed)

CompileLiteral(n) == mode = "body" /\ Emit(code, << Instr("literal", n) >>, ctrl)
CompilePrimitive(p) == mode = "body" /\ Emit(code, << Instr("primitive", p) >>, ctrl)
CompileWord(n) ==
  /\ mode = "body"
  /\ IF Defined(n) THEN Emit(code, << Instr("word", Word(n)) >>, ctrl) ELSE Abort(code)

TypeSemicolon ==
  /\ mode = "body"
  /\ IF ~Room(1) THEN Abort(code)
     ELSE IF ctrl # <<>> \/ Len(dict) = MaxWords
       THEN Abort(Append(code, Instr("exit", 0)))
       ELSE /\ code' = Append(code, Instr("exit", 0))
            /\ dict' = Append(dict, [name |-> cname, code_start |-> cstart])
            /\ mode' = "run"
            /\ UNCHANGED << dstack, mem, ctrl, rstack, cname, cstart, ip >>

----------------------------------------------------------------------------
\* forth_exec; a top-level call always starts with an empty return stack.
Executing(op) == mode = "exec" /\ code[ip].op = op
Arg == code[ip].arg
GoTo(target) == ip' = target /\ UNCHANGED << rstack, mode >>
Jump(target) == GoTo(target) /\ UNCHANGED << dstack, mem, code, dict, ctrl, cname, cstart >>

ExecLiteral == Executing("literal") /\ Literal(Arg, GoTo(ip + 1))
ExecPrimitive == Executing("primitive") /\ Primitive(Arg, GoTo(ip + 1))
ExecBranch == Executing("branch") /\ Jump(Arg)
ExecYield == Executing("yield") /\ Jump(ip + 1)  \* forth_hook_yield

ExecBranchIfZero ==
  /\ Executing("zbranch")
  /\ IF dstack = <<>> THEN Abort(code)
     ELSE /\ dstack' = SubSeq(dstack, 1, Len(dstack) - 1)
          /\ GoTo(IF dstack[Len(dstack)] = 0 THEN Arg ELSE ip + 1)
          /\ UNCHANGED << mem, code, dict, ctrl, cname, cstart >>

ExecWord ==
  /\ Executing("word")
  /\ IF Len(rstack) = RStackSize THEN Abort(code)
     ELSE /\ rstack' = Append(rstack, ip + 1) /\ ip' = dict[Arg].code_start
          /\ UNCHANGED << dstack, mem, code, dict, ctrl, mode, cname, cstart >>

ExecExit ==
  /\ Executing("exit")
  /\ IF rstack = <<>> THEN mode' = "run" /\ ip' = 0 /\ UNCHANGED rstack
     ELSE /\ ip' = rstack[Len(rstack)] /\ rstack' = SubSeq(rstack, 1, Len(rstack) - 1)
          /\ UNCHANGED mode
  /\ UNCHANGED << dstack, mem, code, dict, ctrl, cname, cstart >>

ForthNext ==
  \/ TypeColon \/ TypeIf \/ TypeElse \/ TypeThen \/ TypeBegin \/ TypeUntil
  \/ TypeSemicolon
  \/ \E n \in Literals : TypeLiteral(n) \/ CompileLiteral(n)
  \/ \E p \in Typed : TypePrimitive(p)
  \/ \E p \in Compiled : CompilePrimitive(p)
  \/ \E n \in Names : TypeWord(n) \/ TypeName(n) \/ CompileWord(n)
  \/ ExecLiteral \/ ExecPrimitive \/ ExecWord \/ ExecExit \/ ExecBranch
  \/ ExecBranchIfZero \/ ExecYield

----------------------------------------------------------------------------
\* A word's instructions: from its start to the first exit.
LastOf(w) == CHOOSE e \in dict[w].code_start .. Len(code) :
  code[e].op = "exit" /\ \A i \in dict[w].code_start .. e - 1 : code[i].op # "exit"
BodyOf(w) == dict[w].code_start .. LastOf(w)

(***************************************************************************)
(* A word that reached the dictionary never leaves its own instructions    *)
(* but by a call of an earlier word, whatever was typed, half compiled and *)
(* aborted before it: no branch is left unpatched or leads into waste.     *)
(* A running word is inside one, with every caller waiting inside a later  *)
(* one, so the return stack is never deeper than the dictionary.           *)
(***************************************************************************)
WordsClosed ==
  /\ \A w \in DOMAIN dict : \A i \in BodyOf(w) :
       /\ code[i].op \in {"branch", "zbranch"} => code[i].arg \in BodyOf(w)
       /\ code[i].op = "word" => code[i].arg \in 1 .. w - 1
  /\ mode = "exec" =>
       LET at == Append(rstack, ip)
           owner(i) == CHOOSE w \in DOMAIN dict : at[i] \in BodyOf(w)
       IN  /\ \A i \in DOMAIN at : \E w \in DOMAIN dict : at[i] \in BodyOf(w)
           /\ \A i \in 1 .. Len(rstack) : owner(i + 1) < owner(i)

(***************************************************************************)
(* A word moves forward in its code except right after yielding, so no     *)
(* loop a script can express keeps the machine from the other programs     *)
(* and the desktop for ever (OP_CALL_YIELD).                               *)
(***************************************************************************)
LoopsYield ==
  [][mode = "exec" /\ mode' = "exec" /\ rstack' = rstack /\ ip' <= ip
       => ip > 1 /\ code[ip - 1].op = "yield"]_forthVars
=============================================================================
