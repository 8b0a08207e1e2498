----------------------------- MODULE ServicesProofs -----------------------------
(***************************************************************************)
(* The run of all services together is a run of each of them: a step of one *)
(* leaves the state of the others alone, so what is proved of a service by  *)
(* itself holds in the composition.                                        *)
(***************************************************************************)
EXTENDS MCServices, StorageProofs, AccountProofs, MetadataProofs, SchemaProofs

services == <<component, saveVars, progressVars, sessionVars, userVars, activityVars, mediaVars,
              metadataVars, uiVars, restoreVars, schemaVars, minorVars>>

\* Every service starts as it does by itself.
LEMMA ServicesStart ==
    Init => /\ SavefilesInit /\ ProgressInit /\ SessionsInit /\ UsersInit /\ ActivityInit
            /\ MediaInit /\ MetadataInit /\ WebUIInit /\ RestoreInit /\ SchemaInit
            /\ VersionsInit /\ TransfersInit /\ LimiterInit
  BY DEF Init

LEMMA SavefilesAlone == [Next]_services => [SavefilesNext]_saveVars
  BY DEF Next, services

LEMMA ProgressAlone == [Next]_services => [ProgressNext]_progressVars
  BY DEF Next, services

LEMMA SessionsAlone == [Next]_services => [SessionsNext]_sessionVars
  BY DEF Next, services

LEMMA UsersAlone == [Next]_services => [UsersNext]_userVars
  BY DEF Next, services

LEMMA ActivityAlone == [Next]_services => [ActivityNext]_activityVars
  BY DEF Next, services

LEMMA MediaAlone == [Next]_services => [MediaNext]_mediaVars
  BY DEF Next, services

LEMMA MetadataAlone == [Next]_services => [MetadataNext]_metadataVars
  BY DEF Next, services

LEMMA WebUIAlone == [Next]_services => [WebUINext]_uiVars
  BY DEF Next, services

LEMMA RestoreAlone == [Next]_services => [RestoreNext]_restoreVars
  BY DEF Next, services

LEMMA SchemaAlone == [Next]_services => [SchemaNext]_schemaVars
  BY DEF Next, services

LEMMA VersionsAlone == [Next]_services => [VersionsNext]_listed
  BY DEF Next, services, minorVars

LEMMA TransfersAlone == [Next]_services => [TransfersNext]_transferVars
  BY DEF Next, services, minorVars

LEMMA LimiterAlone == [Next]_services => [LimiterNext]_limiterVars
  BY DEF Next, services, minorVars

\* Every behaviour of the composition is one of each service.
THEOREM ServicesAreIndependent ==
    Spec => /\ SavefilesSpec /\ ProgressSpec /\ SessionsSpec /\ UsersSpec /\ ActivitySpec
            /\ MediaSpec /\ MetadataSpec /\ WebUISpec /\ RestoreSpec /\ SchemaSpec
            /\ VersionsSpec /\ TransfersSpec /\ LimiterSpec
<1>1. Spec => SavefilesSpec
  BY ServicesStart, SavefilesAlone, PTL DEF Spec, services, SavefilesSpec
<1>2. Spec => ProgressSpec
  BY ServicesStart, ProgressAlone, PTL DEF Spec, services, ProgressSpec
<1>3. Spec => SessionsSpec
  BY ServicesStart, SessionsAlone, PTL DEF Spec, services, SessionsSpec
<1>4. Spec => UsersSpec
  BY ServicesStart, UsersAlone, PTL DEF Spec, services, UsersSpec
<1>5. Spec => ActivitySpec
  BY ServicesStart, ActivityAlone, PTL DEF Spec, services, ActivitySpec
<1>6. Spec => MediaSpec
  BY ServicesStart, MediaAlone, PTL DEF Spec, services, MediaSpec
<1>7. Spec => MetadataSpec
  BY ServicesStart, MetadataAlone, PTL DEF Spec, services, MetadataSpec
<1>8. Spec => WebUISpec
  BY ServicesStart, WebUIAlone, PTL DEF Spec, services, WebUISpec
<1>9. Spec => RestoreSpec
  BY ServicesStart, RestoreAlone, PTL DEF Spec, services, RestoreSpec
<1>10. Spec => SchemaSpec
  BY ServicesStart, SchemaAlone, PTL DEF Spec, services, SchemaSpec
<1>11. Spec => VersionsSpec
  BY ServicesStart, VersionsAlone, PTL DEF Spec, services, VersionsSpec
<1>12. Spec => TransfersSpec
  BY ServicesStart, TransfersAlone, PTL DEF Spec, services, TransfersSpec
<1>13. Spec => LimiterSpec
  BY ServicesStart, LimiterAlone, PTL DEF Spec, services, LimiterSpec
<1> QED
  BY <1>1, <1>2, <1>3, <1>4, <1>5, <1>6, <1>7, <1>8, <1>9, <1>10, <1>11, <1>12, <1>13

\* Every value of every service stays in its type (ServicesTypeOK).
THEOREM ServicesTypeCorrect == Spec => []ServicesTypeOK
<1>1. Spec => /\ []SavefilesTypeOK /\ []ProgressTypeOK /\ []SessionsTypeOK /\ []UsersTypeOK
              /\ []ActivityTypeOK /\ []MediaTypeOK /\ []MetadataTypeOK
  BY ServicesAreIndependent, SavefilesTypeCorrect, ProgressTypeCorrect, SessionsTypeCorrect,
     UsersTypeCorrect, ActivityTypeCorrect, MediaTypeCorrect, MetadataTypeCorrect
<1>2. Spec => /\ []WebUITypeOK /\ []RestoreTypeOK /\ []SchemaTypeOK
              /\ []VersionsTypeOK /\ []TransfersTypeOK /\ []LimiterTypeOK
  BY ServicesAreIndependent, WebUITypeCorrect, RestoreTypeCorrect, SchemaTypeCorrect,
     VersionsTypeCorrect, TransfersTypeCorrect, LimiterTypeCorrect
<1>3. /\ SavefilesTypeOK /\ ProgressTypeOK /\ SessionsTypeOK /\ UsersTypeOK /\ ActivityTypeOK
      /\ MediaTypeOK /\ MetadataTypeOK /\ WebUITypeOK /\ RestoreTypeOK /\ SchemaTypeOK
      /\ VersionsTypeOK /\ TransfersTypeOK /\ LimiterTypeOK
      => ServicesTypeOK
  BY DEF ServicesTypeOK
<1> QED
  BY <1>1, <1>2, <1>3, PTL
=============================================================================
