----------------------------- MODULE MCServices -----------------------------
(***************************************************************************)
(* Four parts of the daemon that share no state, checked in one run: a     *)
(* behaviour is a behaviour of one of them, and the others do not begin.   *)
(***************************************************************************)
EXTENDS C2Assessment, DeviceObserver, MetadataCache, Settings

VARIABLE part

servicesVars == <<part, c2Vars, observerVars, cacheVars, settingsVars>>

\* Those that do not begin are in one of their initial states.
ServicesInit ==
    /\ part \in {"c2", "observer", "cache", "settings"}
    /\ Init /\ ObserverInit /\ CacheInit /\ SettingsInit
    /\ part # "observer" => node = "absent"
    /\ part # "settings" => disk.found = Missing

ServicesNext ==
    /\ UNCHANGED part
    /\ \/ /\ part = "c2" /\ Next
          /\ UNCHANGED <<observerVars, cacheVars, settingsVars>>
       \/ /\ part = "observer" /\ ObserverNext
          /\ UNCHANGED <<c2Vars, cacheVars, settingsVars>>
       \/ /\ part = "cache" /\ CacheNext
          /\ UNCHANGED <<c2Vars, observerVars, settingsVars>>
       \/ /\ part = "settings" /\ SettingsNext
          /\ UNCHANGED <<c2Vars, observerVars, cacheVars>>

\* The fairness of each part, for the part that began.
ServicesFairness ==
    /\ WF_c2Vars(part = "c2" /\ Thread)
    /\ WF_c2Vars(part = "c2" /\ ~closing /\ (Offer \/ PollOutdated \/ PollReleasing \/ PollStaged))
    /\ WF_c2Vars(part = "c2" /\ ~closing /\ ApplyDevice)
    /\ \A t \in Lookers : WF_cacheVars(part = "cache" /\ Look(t))

ServicesSpec == ServicesInit /\ [][ServicesNext]_servicesVars /\ ServicesFairness
=============================================================================
