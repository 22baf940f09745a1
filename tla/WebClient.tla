------------------------------ MODULE WebClient ------------------------------
(***************************************************************************)
(* A tab of the web client apart from its chat, which is in ChatTab: the   *)
(* session, the documents page or the settings page.  They share nothing   *)
(* but the requests' way through the interceptor, and one of them is run   *)
(* at a time.                                                              *)
(***************************************************************************)
EXTENDS WebSession

CONSTANTS Op, Doc, PageSize, Provider, Server, Nothing

ASSUME NothingAssumption == Nothing \notin Doc \cup Provider \cup Server

ASSUME PageAssumption == PageSize \in Nat \ {0}

VARIABLES
  part,  \* the part that is run
  documents, isUploading, activeProvider, op, stored, created, active, since, shows,
  overtaken

pageVars == <<documents, isUploading, activeProvider, op, stored, created, active, since, shows,
              overtaken>>

Page == INSTANCE Pages

ClientInit ==
  /\ part \in {"session", "documents", "settings"}
  /\ Init
  /\ part # "session" => req = [r \in Request |-> Idle]
  /\ Page!PagesInit
  /\ part # "documents" => \A d \in Doc : stored[d] = "unborn"

ClientNext ==
  \/ part = "session"   /\ Next               /\ UNCHANGED <<part, pageVars>>
  \/ part = "documents" /\ Page!DocumentsNext /\ UNCHANGED <<part, vars>>
  \/ part = "settings"  /\ Page!SettingsNext  /\ UNCHANGED <<part, vars>>

ClientSpec ==
  /\ ClientInit
  /\ [][ClientNext]_<<part, vars, pageVars>>
  /\ \A r \in Request : WF_vars(Progress(r))

(* What the pages promise.                                                  *)
NewestAtRest  == Page!NewestAtRest
SwitchIsShown == Page!SwitchIsShown
=============================================================================
