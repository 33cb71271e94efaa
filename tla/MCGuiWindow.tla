----------------------------- MODULE MCGuiWindow -----------------------------
(* Model checking of GuiWindow.                                            *)
EXTENDS GuiWindow, TLC

(* What the window shows of its tabs is true, and an answer goes where the *)
(* question came from.                                                     *)
WindowIsTrue == TypeOK /\ BusyIsTrue /\ AnswersFit
=============================================================================
