--------------------------------- MODULE Desk ---------------------------------
(***************************************************************************)
(* The small parts of the server side by side: UploadSessions, OAuthCache, *)
(* Profiles, PrintDevices and SFTimes.  They share no state and call each  *)
(* other nowhere, so what one of them does together with the others it     *)
(* also does alone, and a behaviour of the desk is one of each part.       *)
(***************************************************************************)
EXTENDS UploadSessions, OAuthCache, Profiles, PrintDevices, SFTimes

VARIABLE part \* the part whose behaviour this is; the others stand still

deskVars == <<part, uploadVars, oauthVars, profileVars, deviceVars, timeVars>>

Parts == {"uploads", "oauth", "profiles", "devices", "times"}

Init ==
  /\ part \in Parts
  /\ UploadInit /\ OAuthInit /\ ProfileInit /\ DeviceInit /\ TimeInit
  \* The modes of the parts that stand still do not matter.
  /\ part # "profiles" => serial = CHOOSE s \in Serials : TRUE
  /\ part # "devices" => mode = CHOOSE m \in Modes : TRUE

Next ==
  /\ UNCHANGED part
  /\ \/ /\ part = "uploads" /\ UploadNext
        /\ UNCHANGED <<oauthVars, profileVars, deviceVars, timeVars>>
     \/ /\ part = "oauth" /\ OAuthNext
        /\ UNCHANGED <<uploadVars, profileVars, deviceVars, timeVars>>
     \/ /\ part = "profiles" /\ ProfileNext
        /\ UNCHANGED <<uploadVars, oauthVars, deviceVars, timeVars>>
     \/ /\ part = "devices" /\ DeviceNext
        /\ UNCHANGED <<uploadVars, oauthVars, profileVars, timeVars>>
     \/ /\ part = "times" /\ TimeNext
        /\ UNCHANGED <<uploadVars, oauthVars, profileVars, deviceVars>>

Spec == Init /\ [][Next]_deskVars

TypeOK == UploadTypeOK /\ OAuthTypeOK /\ ProfileTypeOK /\ DeviceTypeOK
=============================================================================
