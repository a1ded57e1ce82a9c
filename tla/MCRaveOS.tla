------------------------------ MODULE MCRaveOS ------------------------------
(***************************************************************************)
(* The components of the v1 kernel on small instances.  Each is checked by *)
(* itself: a behaviour is one of the component `part', the others stay in  *)
(* their initial states, and the state space is the union of theirs.       *)
(***************************************************************************)
EXTENDS ProgramScheduler, AudioStream, InputRings, ForthVM, SynthEngine,
        Desktop, FilesWindow, Damage, Console, TLC

VARIABLE part
osVars == << part, schedVars, streamVars, inputVars, forthVars, synthVars,
             deskVars, filesVars, damageVars, consoleVars >>

Parts == { "scheduler", "stream", "keyboard", "mouse", "forth", "synth",
           "desktop", "files", "damage", "console" }

Init ==
  /\ SchedInit /\ StreamInit /\ InputInit /\ ForthInit /\ SynthInit
  /\ DeskInit /\ FilesInit /\ DamageInit /\ ConsoleInit
  /\ part \in Parts
  /\ part # "stream" => present  \* the one choice of an initial state

ButSched == UNCHANGED << part, streamVars, inputVars, forthVars, synthVars,
                         deskVars, filesVars, damageVars, consoleVars >>
Scheduler == part = "scheduler" /\ SchedNext /\ ButSched
Stream ==
  /\ part = "stream" /\ StreamNext
  /\ UNCHANGED << part, schedVars, inputVars, forthVars, synthVars,
                  deskVars, filesVars, damageVars, consoleVars >>
Input ==
  /\ (part = "keyboard" /\ KbdNext) \/ (part = "mouse" /\ MouseNext)
  /\ UNCHANGED << part, schedVars, streamVars, forthVars, synthVars,
                  deskVars, filesVars, damageVars, consoleVars >>
Forth ==
  /\ part = "forth" /\ ForthNext
  /\ UNCHANGED << part, schedVars, streamVars, inputVars, synthVars,
                  deskVars, filesVars, damageVars, consoleVars >>
Synth ==
  /\ part = "synth" /\ SynthNext
  /\ UNCHANGED << part, schedVars, streamVars, inputVars, forthVars,
                  deskVars, filesVars, damageVars, consoleVars >>
Desk ==
  /\ part = "desktop" /\ DeskNext
  /\ UNCHANGED << part, schedVars, streamVars, inputVars, forthVars, synthVars,
                  filesVars, damageVars, consoleVars >>
Files ==
  /\ part = "files" /\ FilesNext
  /\ UNCHANGED << part, schedVars, streamVars, inputVars, forthVars, synthVars,
                  deskVars, damageVars, consoleVars >>
Painting ==
  /\ part = "damage" /\ DamageFrame
  /\ UNCHANGED << part, schedVars, streamVars, inputVars, forthVars, synthVars,
                  deskVars, filesVars, consoleVars >>
Typing ==
  /\ part = "console" /\ ConsoleNext
  /\ UNCHANGED << part, schedVars, streamVars, inputVars, forthVars, synthVars,
                  deskVars, filesVars, damageVars >>

Next == Scheduler \/ Stream \/ Input \/ Forth \/ Synth \/ Desk \/ Files
        \/ Painting \/ Typing

\* The frame loop runs on by itself; nothing else is owed a step.
Spec == Init /\ [][Next]_osVars
        /\ WF_schedVars(part = "scheduler" /\ FrameStep /\ ButSched)

----------------------------------------------------------------------------
MCMotions == { << 2, -2 >>, << -14, 300 >>, << 9, 0 >> }
MCKeyMoves == ({ "lshift", "rshift", "arrow", "letter" } \X BOOLEAN)
              \ { << "letter", FALSE >> }
MCFCoeff == << 2, 3 >>
MCQCoeff == << 3, 4 >>
MCInputs == { -2, 0, 2 }
MCPiles == { p \in [Kinds -> WindowParts] :
               Cardinality({ k \in Kinds : p[k] # "out" }) <= 2 }
MCBootOrder == << "shell", "editor", "ring3" >>
MCBootPlace == "x" :> << 0, 0 >> @@ "y" :> << 1, 1 >>
MCBootStack == << "x", "y" >>
MCPointers == { << 0, 0 >>, << 3, 1 >> }
MCReplies == { << "rave" >>, << "ok" >>, << "a" >>, << "b" >> }
MCGreeting == << "rave" >>
MCAnswers == { << >>, << << "ok" >> >>, << << "a" >>, << "b" >> >> }
MCDrags == { << 1, 1 >>, << -1, 0 >> }
=============================================================================
