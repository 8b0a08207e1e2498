------------------------ MODULE PostgresMigrations ------------------------
(***************************************************************************)
(* The Postgres migrations (src/src/modules/database/migrations/postgres):  *)
(* Up[n] is the up method of the n-th, Down[n] the down method of those     *)
(* from V13 on.  Plain indexes, sequences, defaults and enum types are left *)
(* out.                                                                    *)
(***************************************************************************)
EXTENDS SchemaTables

\* up returns early when the nine tables exist, which they never do when
\* this migration is pending: it is the first one.
InitTables ==
  <<CreateImage, CreateLookups, CreateGame, CreateProgress, CreateCrackpipeUser,
    CreateGameLookups>>

InitLinks ==
  <<Link([game |-> [box_image_id |-> SetNull("image"), background_image_id |-> SetNull("image")],
          progress |-> [user_id |-> NoAction("crackpipe_user"), game_id |-> NoAction("game")],
          crackpipe_user |-> [profile_picture_id |-> SetNull("image"),
                              background_image_id |-> SetNull("image")]]),
    Link(GameLookupLinks)>>

RenameToGamevault == <<RenameTables([crackpipe_user |-> "gamevault_user"])>>

AddDirectPlay == <<AddRequired({"game"}, {"direct_play"})>>

AddGameType ==
  <<AddRequired({"game"}, {"type"}), Derive("game", "type", "direct_play"),
    DropColumns({"game"}, {"direct_play"})>>

RemoveImageDeduplication ==
  <<NotUnique({"image"}, {{"source"}}), DropColumns({"image"}, {"last_accessed_at"}),
    Unlink({"gamevault_user"}, UserImages),
    Unlink({"game"}, GameImages), Link(ImageLinks)>>

RemoveNotNullConstraints ==
  <<Relax({"image"}, {"source"}), Relax({"game"}, {"release_date"})>>

TooMuchRequiredInfo == <<Relax({"gamevault_user"}, {"email", "first_name", "last_name"})>>

\* Constraints that may have two names are dropped IF EXISTS by each.
ImageUploader ==
  <<Unlink({"gamevault_user"}, UserImages),
    AddColumns({"image"}, {"uploader_id"}),
    Unlink({"progress"}, {"user_id"}),
    Link([image |-> [uploader_id |-> NoAction("gamevault_user")],
          gamevault_user |-> ImageLinks.gamevault_user,
          progress |-> [user_id |-> NoAction("gamevault_user")]])>>

NonUniqueImageSources ==
  <<Unlink({"progress"}, {"user_id"}), Unlink({"image"}, {"uploader_id"}),
    Link([image |-> [uploader_id |-> NoAction("gamevault_user")],
          progress |-> [user_id |-> NoAction("gamevault_user")]])>>

CreateIndices == <<>>

\* Two accounts whose names and e-mail addresses differ only in case.
CheckUserCaseConflicts == <<RefuseIf("case_conflict")>>

\* Deletes progresses of nothing played; what the others store stays.
DeleteEmptyProgresses == <<>>

SocketSecret ==
  <<AddColumns({"gamevault_user"}, {"socket_secret"}),
    Unique({"gamevault_user"}, {{"socket_secret"}}),
    Generate("gamevault_user", {"socket_secret"})>>

SocketSecretNotNull == <<Require({"gamevault_user"}, {"socket_secret"})>>

LinuxPortableGameType == <<Copied({"game"})>>

\* Images used twice are taken from the rows that share them first.
ImagesOneToOne ==
  <<Unlink({"game"}, GameImages),
    Unique({"game"}, Each(GameImages)),
    Unlink({"gamevault_user"}, UserImages),
    Unique({"gamevault_user"}, Each(UserImages)),
    Link(ImageLinks)>>

Bookmarks == <<CreateBookmark, Link(BookmarkLinks)>>

RawgIndependence ==
  <<Unlink({"bookmark"}, {"gamevault_user_id", "game_id"}),
    Relax(LookupTables, {"rawg_id"}), NotUnique(LookupTables, {{"rawg_id"}}),
    Link(BookmarkLinks)>>

QueryResultCache == <<CreateQueryResultCache>>

(***************************************************************************)
(* V13.  A V13 whose parts were applied one by one by a pre-release          *)
(* (checkMigrationRun) is not modelled.                                     *)
(***************************************************************************)
Part1RenameTables == <<RefuseIf("images_mounted")>> \o RenameToV12

Part2Tables ==
  <<CreateMedia, CreateLookupMetadata, CreateGameMetadata, CreateProgress,
    CreateGamevaultGame, CreateGamevaultUser, CreateMetadataJunctions>>

Part2Unique ==
  <<Unique(LookupMetadata \cup {"game_metadata"}, {ProviderEntry}),
    Unique({"gamevault_user"}, {{"socket_secret"}})>>

Part2Links == <<Link(EntityLinks), Link(LookupMetadataLinks), Link(GameLinks)>>

MigrateImages == <<ReadWith({"v12_image"}), CopyImages>>

MigrateTags       == <<ReadWith({"v12_tag"}), CopyLookup("v12_tag", "tag_metadata")>>
MigrateGenres     == <<ReadWith({"v12_genre"}), CopyLookup("v12_genre", "genre_metadata")>>
MigrateDevelopers ==
  <<ReadWith({"v12_developer"}), CopyLookup("v12_developer", "developer_metadata")>>
MigratePublishers ==
  <<ReadWith({"v12_publisher"}), CopyLookup("v12_publisher", "publisher_metadata")>>

\* The inserted game is read back with its relations and saved again.
MigrateGames ==
  <<ReadWith({"v12_game", "v12_image", "v12_tag", "v12_genre", "v12_developer", "v12_publisher"}),
    CopyGames,
    WriteWith("v12_game", {"gamevault_game", "game_version", "game_metadata", "media",
                           "progress", "gamevault_user"} \cup LookupMetadata),
    CopyGameMetadata>> \o CopyGameRelations

MigrateUsers ==
  <<ReadWith({"v12_gamevault_user", "v12_image"}), WriteWith("v12_gamevault_user", {"media"}),
    CopyUsers>>

MigrateBookmarks == <<CopyBookmarks>>

MigrateProgresses ==
  <<ReadWith({"v12_progress", "v12_gamevault_user", "v12_game"}), CopyProgresses>>

Part3MigrateData ==
  MigrateImages \o MigrateTags \o MigrateGenres \o MigrateDevelopers \o MigratePublishers
    \o MigrateGames \o MigrateUsers \o MigrateBookmarks \o MigrateProgresses

Part4DeleteOldTables == <<DropTables(V12Tables)>>

\* The constraint on socket_secret is dropped IF EXISTS and added again.
Part5Sync == <<Unique({"gamevault_user"}, {{"socket_secret"}, {"username"}})>>

V13Final ==
  Part1RenameTables \o Part2Tables \o Part2Unique \o Part2Links \o Part3MigrateData
    \o Part4DeleteOldTables \o Part5Sync \o SortTitles

(***************************************************************************)
(* After V13                                                               *)
(***************************************************************************)
SessionIndexes ==
  {{"id"}, {"user_id"}, {"refresh_token_hash"}, {"revoked"}, {"expires_at"},
   {"user_id", "revoked", "expires_at"}}

Sessions ==
  <<CreateSession, Indexed({"session"}, SessionIndexes),
    Link([session |-> [user_id |-> Cascade("gamevault_user")]])>>

InstallerColumns == {"installer_parameters", "uninstaller_executable", "uninstaller_parameters"}
InstallerParam ==
  <<AddColumns({"game_metadata"}, InstallerColumns),
    Generate("game_metadata", {"installer_parameters"})>>

ApiKey == <<RenameColumns("gamevault_user", [socket_secret |-> "api_key"])>>

GameVersions ==
  <<CreateGameVersion, Link([game_version |-> [game_id |-> Cascade("gamevault_game")]]),
    FirstVersions>>

GamevaultServer == <<CreateServer>>

UmuColumns == {"umu_game_id", "umu_store", "umu_proton_path"}
UmuLaunchOptions == <<AddColumns({"game_metadata"}, UmuColumns)>>

Up ==
  <<InitTables \o InitLinks, RenameToGamevault, AddDirectPlay, AddGameType,
    RemoveImageDeduplication, RemoveNotNullConstraints, TooMuchRequiredInfo, ImageUploader,
    NonUniqueImageSources, CreateIndices, CheckUserCaseConflicts, DeleteEmptyProgresses,
    SocketSecret, SocketSecretNotNull, LinuxPortableGameType, ImagesOneToOne, Bookmarks,
    CreateIndices, RawgIndependence, QueryResultCache, V13Final, Sessions, InstallerParam,
    ApiKey, GameVersions, GamevaultServer, UmuLaunchOptions>>

(***************************************************************************)
(* Down methods, from V13's, which throws, to the last                     *)
(***************************************************************************)
V13Down            == <<RefuseIf("never_undone")>>
\* Mutant: the table stays.
SessionsDownUnlinked == <<Unlink({"session"}, {"user_id"})>>

SessionsDown       == <<Unlink({"session"}, {"user_id"}), DropTables({"session"})>>
\* Mutant: one of the columns stays.
InstallerParamDownPartly ==
  <<DropColumns({"game_metadata"}, {"installer_parameters", "uninstaller_executable"})>>

InstallerParamDown == <<DropColumns({"game_metadata"}, InstallerColumns)>>
ApiKeyDown         == <<RenameColumns("gamevault_user", [api_key |-> "socket_secret"])>>
GameVersionsDown   == <<DropTables({"game_version"})>>
ServerDown         == <<DropTables({"gamevault_server"})>>
UmuDown            == <<DropColumns({"game_metadata"}, UmuColumns)>>

Down ==
  (21 :> V13Down) @@ (22 :> SessionsDown) @@ (23 :> InstallerParamDown) @@ (24 :> ApiKeyDown)
    @@ (25 :> GameVersionsDown) @@ (26 :> ServerDown) @@ (27 :> UmuDown)
=============================================================================
