--------------------------- MODULE MCHostedServer ---------------------------
(***************************************************************************)
(* Who may play on a hosted server: the joins Atlas announces, and the ban *)
(* list with its readers.  The admission takes of the list what it bans,   *)
(* the list's own module how it is read, so they share no state here: in a *)
(* behaviour one of them runs and the other stays where it starts.         *)
(***************************************************************************)
EXTENDS ConnectRecords, ServerBans

VARIABLE part        \* the component that runs

hostedServerVars == <<part, recordVars, banVars>>

\* Of the list that stays, one initial state is enough.
HostedServerInit ==
    /\ part \in {"admission", "bans"} /\ ConnectInit /\ BansInit
    /\ part = "admission" => file = <<>>

HostedServerNext ==
    /\ UNCHANGED part
    /\ IF part = "admission" THEN ConnectNext ELSE UNCHANGED recordVars
    /\ IF part = "bans" THEN BansNext ELSE UNCHANGED banVars

HostedServerSpec == HostedServerInit /\ [][HostedServerNext]_hostedServerVars

-----------------------------------------------------------------------------
(* Inputs: by hand the file gets any text that leaves room for the NUL, or *)
(* one line too many for the buffer.                                       *)
Short == UNION {[1 .. n -> Lines] : n \in 0 .. Capacity - 1}
TooLong == CHOOSE list \in [1 .. Capacity -> Players] : TRUE

MCHandTexts == Short \cup {TooLong}

=============================================================================
