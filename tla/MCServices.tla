----------------------------- MODULE MCServices ----------------------------
(* XLogger and ConfigManager, the services that a program sets up once and *)
(* then uses everywhere.  They share no state and are checked together: a  *)
(* behaviour is one of a single component, which the initial state         *)
(* chooses, and neither component has more than one initial state.         *)
EXTENDS MCXLogger, MCConfigManager

VARIABLE component

servicesVars == <<component, loggerVars, vars>>

ServicesInit ==
    /\ component \in {"xlogger", "config_manager"}
    /\ LoggerInit /\ Init

ServicesNext ==
    \/ component = "xlogger" /\ LoggerNext /\ UNCHANGED <<component, vars>>
    \/ component = "config_manager" /\ Next /\ UNCHANGED <<component, loggerVars>>

ServicesSpec == ServicesInit /\ [][ServicesNext]_servicesVars
=============================================================================
