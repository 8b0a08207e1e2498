------------------------- MODULE SqliteMigrations -------------------------
(***************************************************************************)
(* The SQLite migrations (src/src/modules/database/migrations/sqlite): Up    *)
(* and Down as in PostgresMigrations.  A change of a constraint is a copy   *)
(* of the table; the long migrations are split where a group of copies      *)
(* ends.  Foreign keys are off while migrations run, so that a table may    *)
(* reference one that is not there.                                        *)
(***************************************************************************)
EXTENDS SchemaTables

InitTables ==
  <<CreateImage, CreateLookups, CreateGame, CreateProgress, CreateCrackpipeUser,
    CreateGameLookups>>

InitGameLinks ==
  <<Link([game |-> [box_image_id |-> SetNull("image"), background_image_id |-> SetNull("image")],
          progress |-> [user_id |-> NoAction("crackpipe_user"), game_id |-> NoAction("game")]])>>

InitLinks ==
  <<Link([crackpipe_user |-> [profile_picture_id |-> SetNull("image"),
                              background_image_id |-> SetNull("image")]]),
    Link(GameLookupLinks)>>

RenameToGamevault == <<RenameTables([crackpipe_user |-> "gamevault_user"])>>

AddDirectPlay == <<AddRequired({"game"}, {"direct_play"})>>

AddGameType ==
  <<AddRequired({"game"}, {"type"}), Derive("game", "type", "direct_play"),
    DropColumns({"game"}, {"direct_play"})>>

RemoveImageDeduplication ==
  <<NotUnique({"image"}, {{"source"}}), DropColumns({"image"}, {"last_accessed_at"}),
    Unlink({"gamevault_user"}, UserImages), Unlink({"game"}, GameImages), Link(ImageLinks)>>

RelaxDetached ==
  <<Unlink({"gamevault_user"}, UserImages), Copied({"image"})>>
RelaxImage   == <<Copied({"game"}), Relax({"image"}, {"source"})>>
RelaxGame    == <<Copied({"gamevault_user"}), Relax({"game"}, {"release_date"})>>
RelaxAttached == <<Link([gamevault_user |-> ImageLinks.gamevault_user])>>

TooMuchRequiredInfo == <<Relax({"gamevault_user"}, {"email", "first_name", "last_name"})>>

ImageUploader ==
  <<AddColumns({"image"}, {"uploader_id"}), Copied({"gamevault_user"}),
    Link([image |-> [uploader_id |-> NoAction("gamevault_user")]])>>

\* The constraint on the source is gone since RemoveImageDeduplication.
NonUniqueImageSources == <<Copied({"image"}), Copied({"image"}), Copied({"gamevault_user"})>>

CreateIndices == <<Copied({"gamevault_user"})>>

CheckUserCaseConflicts == <<RefuseIf("case_conflict")>>

DeleteEmptyProgresses == <<>>

SocketSecret ==
  <<AddColumns({"gamevault_user"}, {"socket_secret"}),
    Unique({"gamevault_user"}, {{"socket_secret"}}), Copied({"gamevault_user"}),
    Generate("gamevault_user", {"socket_secret"})>>

SocketSecretNotNull ==
  <<Copied({"gamevault_user"}), Require({"gamevault_user"}, {"socket_secret"})>>

LinuxPortableGameType == <<Copied({"gamevault_user"})>>

OneToOneDetachGame   == <<Unlink({"game"}, GameImages)>>
OneToOneGame         == <<Unique({"game"}, Each(GameImages))>>
OneToOneUser         ==
  <<Unlink({"gamevault_user"}, UserImages), Unique({"gamevault_user"}, Each(UserImages))>>
OneToOneAttach       == <<Link(ImageLinks)>>

Bookmarks == <<CreateBookmark, Link(BookmarkLinks)>>

NewIndexes == <<>>

\* The copies of the lookups drop an index and make it again, developers to
\* publishers and then stores and tags; only the second copy in this
\* migration relaxes rawg_id, and the UNIQUE constraint on it stays.
FirstLookups == {"developer", "genre", "publisher"}
LastLookups  == {"store", "tag"}

RawgDetach       == <<Unlink({"bookmark"}, {"gamevault_user_id", "game_id"})>>
RawgCopiedFirst  == <<Copied(FirstLookups)>>
RawgCopiedLast   == <<Copied(LastLookups)>>
RawgRelaxedFirst == <<Relax(FirstLookups, {"rawg_id"})>>
RawgRelaxedLast  == <<Relax(LastLookups, {"rawg_id"})>>
RawgAttach       == <<Link(BookmarkLinks)>>

CacheCopiedFirst == <<Copied(FirstLookups)>>
CacheCopiedLast  == <<Copied(LastLookups)>>
CacheAgainFirst  == <<Copied(FirstLookups)>>
CacheAgainLast   == <<Copied(LastLookups), CreateQueryResultCache>>

(***************************************************************************)
(* V13.  A V13 whose parts were applied one by one by a pre-release          *)
(* (checkMigrationRun) is not modelled.                                     *)
(***************************************************************************)
SyncCopiedFirst == <<Copied(FirstLookups)>>
SyncCopiedLast  == <<Copied(LastLookups)>>
SyncAgainFirst  == <<Copied(FirstLookups)>>
SyncAgainLast   == <<Copied(LastLookups)>>

Part1RenameTables == <<RefuseIf("images_mounted")>> \o RenameToV12

V12ImageLinks ==
  [v12_game |-> [box_image_id |-> Cascade("v12_image"),
                 background_image_id |-> Cascade("v12_image")],
   v12_gamevault_user |-> [profile_picture_id |-> Cascade("v12_image"),
                           background_image_id |-> Cascade("v12_image")]]

\* The copy of the accounts leaves socket_secret out.
DetachUser ==
  <<Unlink({"v12_image"}, {"uploader_id"}), Unlink({"v12_gamevault_user"}, UserImages),
    NotUnique({"v12_gamevault_user"}, Each(UserImages)),
    DropColumns({"v12_gamevault_user"}, {"socket_secret"})>>

DetachGame ==
  <<Unlink({"v12_game"}, GameImages), NotUnique({"v12_game"}, Each(GameImages))>>

V12FirstLookups == {V12Names[name] : name \in FirstLookups}
V12LastLookups  == {V12Names[name] : name \in LastLookups}
DetachFirst == <<Copied(V12FirstLookups)>>
DetachLast  == <<Copied(V12LastLookups)>>

Part2Lookups ==
  <<CreateMedia, CreateLookupMetadata, Unique(LookupMetadata, {ProviderEntry})>>

Part2Games ==
  <<CreateGameMetadata, Unique({"game_metadata"}, {ProviderEntry}), CreateProgress,
    CreateGamevaultGame>>

Part2Users ==
  <<CreateGamevaultUser, Unique({"gamevault_user"}, {{"socket_secret"}}),
    CreateMetadataJunctions>>

\* socket_secret comes back as a column with nothing in it.
RestoreSecret ==
  <<AddColumns({"v12_gamevault_user"}, {"socket_secret"}),
    Unique({"v12_gamevault_user"}, {{"socket_secret"}}), Copied({"v12_developer"})>>

RestoreUserImages == <<Unique({"v12_gamevault_user"}, Each(UserImages))>>
RestoreLookups    == <<Copied({"v12_genre", "v12_publisher", "v12_store"})>>
RestoreGameImages == <<Unique({"v12_game"}, Each(GameImages)), Copied({"v12_tag"})>>

LinkMetadata ==
  <<Link([media |-> EntityLinks.media]), NotUnique({"game_metadata"}, {ProviderEntry}),
    Link([game_metadata |-> EntityLinks.game_metadata]),
    Unique({"game_metadata"}, {ProviderEntry})>>

\* Mutant: the new progresses reference the old games.
LinkProgressToOldGame ==
  <<Link([progress |-> [user_id |-> NoAction("gamevault_user"), game_id |-> NoAction("v12_game")]]),
    Link([gamevault_game |-> EntityLinks.gamevault_game])>>

LinkProgressAndGame ==
  <<Link([progress |-> EntityLinks.progress]),
    Link([gamevault_game |-> EntityLinks.gamevault_game])>>

LinkUser == <<Link([gamevault_user |-> EntityLinks.gamevault_user])>>

LinkV12Users ==
  <<Link([v12_image |-> [uploader_id |-> NoAction("v12_gamevault_user")]]),
    Link([v12_gamevault_user |-> V12ImageLinks.v12_gamevault_user])>>

LinkV12Game == <<Link([v12_game |-> V12ImageLinks.v12_game])>>

LinkLookups == <<Link(LookupMetadataLinks)>>
LinkGames   == <<Link(GameLinks)>>

Part2NewSchema ==
  DetachUser \o DetachGame \o DetachFirst \o DetachLast
    \o Part2Lookups \o Part2Games \o Part2Users
    \o RestoreSecret \o RestoreUserImages \o RestoreLookups \o RestoreGameImages
    \o LinkMetadata \o LinkProgressAndGame \o LinkUser \o LinkV12Users \o LinkV12Game
    \o LinkLookups \o LinkGames

MigrateImages ==
  <<ReadWith({"v12_image"}), WriteWith("v12_image", {"media"}), CopyImages>>

MigrateTags ==
  <<ReadWith({"v12_tag"}), WriteWith("v12_tag", {"tag_metadata"}),
    CopyLookup("v12_tag", "tag_metadata")>>

MigrateGenres ==
  <<ReadWith({"v12_genre"}), WriteWith("v12_genre", {"genre_metadata"}),
    CopyLookup("v12_genre", "genre_metadata")>>

MigrateDevelopers ==
  <<ReadWith({"v12_developer"}), WriteWith("v12_developer", {"developer_metadata"}),
    CopyLookup("v12_developer", "developer_metadata")>>

MigratePublishers ==
  <<ReadWith({"v12_publisher"}), WriteWith("v12_publisher", {"publisher_metadata"}),
    CopyLookup("v12_publisher", "publisher_metadata")>>

MigrateGames ==
  <<ReadWith({"v12_game", "v12_image", "v12_tag", "v12_genre", "v12_developer", "v12_publisher"}),
    WriteWith("v12_game", {"gamevault_game", "media", "game_metadata"} \cup LookupMetadata),
    CopyGames, CopyGameMetadata>> \o CopyGameRelations

\* The bookmarks are saved with the account they belong to.
MigrateUsersAndBookmarks ==
  <<ReadWith({"v12_gamevault_user", "v12_image", "v12_game"}),
    WriteWith("v12_gamevault_user", {"media", "gamevault_game", "gamevault_user"}),
    CopyUsers, CopyBookmarks>>

MigrateProgresses ==
  <<ReadWith({"v12_progress", "v12_gamevault_user", "v12_game"}),
    WriteWith("v12_progress", {"gamevault_user", "gamevault_game", "progress"}), CopyProgresses>>

Part3MigrateData ==
  MigrateImages \o MigrateTags \o MigrateGenres \o MigrateDevelopers \o MigratePublishers
    \o MigrateGames \o MigrateUsersAndBookmarks \o MigrateProgresses

\* The tables of lookup metadata are copied one by one, each after the
\* junction that references it, with its UNIQUE index dropped and made again.
NumberedFirst == <<Copied(V12FirstLookups)>>
NumberedLast  == <<Copied(V12LastLookups)>>

Numbered(table, junction, column) ==
  <<Unlink({junction}, {"game_metadata_id", column}), NotUnique({table}, {ProviderEntry}),
    Copied({table}), Unique({table}, {ProviderEntry})>>

NumberedDevelopers ==
  Numbered("developer_metadata", "game_metadata_developers_developer_metadata",
           "developer_metadata_id")
NumberedGenres ==
  Numbered("genre_metadata", "game_metadata_genres_genre_metadata", "genre_metadata_id")
NumberedPublishers ==
  Numbered("publisher_metadata", "game_metadata_publishers_publisher_metadata",
           "publisher_metadata_id")
NumberedTags ==
  Numbered("tag_metadata", "game_metadata_tags_tag_metadata", "tag_metadata_id")

NumberedAgainFirst == <<Copied(V12FirstLookups)>>
NumberedAgainLast  == <<Copied(V12LastLookups)>>
RelinkLookups      == <<Link(LookupMetadataLinks)>>

Part4EnableAutoIncrement ==
  NumberedFirst \o NumberedLast \o NumberedDevelopers \o NumberedGenres \o NumberedPublishers
    \o NumberedTags \o NumberedAgainFirst \o NumberedAgainLast \o RelinkLookups

Part5DeleteOldTables == <<DropTables(V12Tables)>>

V13Final ==
  SyncCopiedFirst \o SyncCopiedLast \o SyncAgainFirst \o SyncAgainLast \o Part1RenameTables
    \o Part2NewSchema \o Part3MigrateData \o Part4EnableAutoIncrement
    \o Part5DeleteOldTables \o SortTitles

(***************************************************************************)
(* After V13                                                               *)
(***************************************************************************)
SessionIndexes ==
  {{"id"}, {"user_id"}, {"refresh_token_hash"}, {"revoked"}, {"expires_at"},
   {"user_id", "revoked", "expires_at"}}

\* Generated while the V12 entities were loaded: the junctions that V13
\* dropped are created again, with references to tables that are gone.
V12Junctions ==
  [v12_bookmark |-> [v12_gamevault_user_id |-> Cascade("v12_gamevault_user"),
                     v12_game_id |-> NoAction("v12_game")],
   v12_game_publishers_v12_publisher |->
     [v12_game_id |-> Cascade("v12_game"), v12_publisher_id |-> NoAction("v12_publisher")],
   v12_game_developers_v12_developer |->
     [v12_game_id |-> Cascade("v12_game"), v12_developer_id |-> NoAction("v12_developer")],
   v12_game_stores_v12_store |->
     [v12_game_id |-> Cascade("v12_game"), v12_store_id |-> NoAction("v12_store")],
   v12_game_tags_v12_tag |->
     [v12_game_id |-> Cascade("v12_game"), v12_tag_id |-> NoAction("v12_tag")],
   v12_game_genres_v12_genre |->
     [v12_game_id |-> Cascade("v12_game"), v12_genre_id |-> NoAction("v12_genre")]]

SessionTables ==
  <<CreateSession, Indexed({"session"}, SessionIndexes),
    CreateJunctions([name \in DOMAIN V12Junctions |-> DOMAIN V12Junctions[name]])>>

SessionLinks == <<Link([session |-> [user_id |-> Cascade("gamevault_user")]])>>
V12Relinked  == <<Link(V12Junctions)>>

InstallerColumns == {"installer_parameters", "uninstaller_executable", "uninstaller_parameters"}
InstallerParam ==
  <<AddColumns({"game_metadata"}, InstallerColumns),
    Generate("game_metadata", {"installer_parameters"})>>

ApiKey == <<RenameColumns("gamevault_user", [socket_secret |-> "api_key"])>>

GameVersions ==
  <<CreateGameVersion, Link([game_version |-> [game_id |-> Cascade("gamevault_game")]]),
    FirstVersions>>

GamevaultServer == <<CreateServer>>

UmuColumns == {"umu_game_id", "umu_store", "umu_proton_path"}

\* Mutant: one of the columns is forgotten.
UmuLaunchOptionsPartly == <<AddColumns({"game_metadata"}, {"umu_game_id", "umu_store"})>>

UmuLaunchOptions == <<AddColumns({"game_metadata"}, UmuColumns)>>

Up ==
  <<InitTables \o InitGameLinks \o InitLinks, RenameToGamevault, AddDirectPlay, AddGameType,
    RemoveImageDeduplication, RelaxDetached \o RelaxImage \o RelaxGame \o RelaxAttached,
    TooMuchRequiredInfo, ImageUploader, NonUniqueImageSources, CreateIndices,
    CheckUserCaseConflicts, DeleteEmptyProgresses, SocketSecret, SocketSecretNotNull,
    LinuxPortableGameType, OneToOneDetachGame \o OneToOneGame \o OneToOneUser \o OneToOneAttach,
    Bookmarks, NewIndexes,
    RawgDetach \o RawgCopiedFirst \o RawgCopiedLast \o RawgRelaxedFirst \o RawgRelaxedLast
      \o RawgAttach,
    CacheCopiedFirst \o CacheCopiedLast \o CacheAgainFirst \o CacheAgainLast,
    V13Final, SessionTables \o SessionLinks \o V12Relinked, InstallerParam, ApiKey,
    GameVersions, GamevaultServer, UmuLaunchOptions>>

(***************************************************************************)
(* Down methods, from V13's, which throws, to the last                     *)
(***************************************************************************)
V13Down == <<RefuseIf("never_undone")>>

V12Unlinked ==
  <<Unlink({"v12_game_genres_v12_genre"}, {"v12_game_id", "v12_genre_id"}),
    Unlink({"v12_game_tags_v12_tag"}, {"v12_game_id", "v12_tag_id"}),
    Unlink({"v12_game_stores_v12_store"}, {"v12_game_id", "v12_store_id"}),
    Unlink({"v12_game_developers_v12_developer"}, {"v12_game_id", "v12_developer_id"}),
    Unlink({"v12_game_publishers_v12_publisher"}, {"v12_game_id", "v12_publisher_id"}),
    Unlink({"v12_bookmark"}, {"v12_gamevault_user_id", "v12_game_id"})>>
SessionUnlinked == <<Unlink({"session"}, {"user_id"})>>
SessionsDropped == <<DropTables(DOMAIN V12Junctions \cup {"session"})>>

\* The copy of game_metadata takes its references to media along and leaves
\* out the new columns; then the indexes of "session" are created, which its
\* own migration has created already.
CopyWithoutInstaller ==
  <<Unlink({"gamevault_game_provider_metadata_game_metadata"}, {"game_metadata_id"}),
    NotUnique({"game_metadata"}, {ProviderEntry}),
    DropColumns({"game_metadata"}, InstallerColumns)>>

InstallerParamDown ==
  <<Unique({"game_metadata"}, {ProviderEntry}),
    Indexed({"session"}, {{"user_id"}, {"revoked"}, {"expires_at"}}),
    Link([gamevault_game_provider_metadata_game_metadata |->
            [game_metadata_id |-> NoAction("game_metadata")]])>>

ApiKeyDown       == <<RenameColumns("gamevault_user", [api_key |-> "socket_secret"])>>
GameVersionsDown == <<DropTables({"game_version"})>>
ServerDown       == <<DropTables({"gamevault_server"})>>
UmuDown          == <<DropColumns({"game_metadata"}, UmuColumns)>>

Down ==
  (21 :> V13Down) @@ (22 :> V12Unlinked \o SessionUnlinked \o SessionsDropped)
    @@ (23 :> CopyWithoutInstaller \o InstallerParamDown) @@ (24 :> ApiKeyDown)
    @@ (25 :> GameVersionsDown) @@ (26 :> ServerDown) @@ (27 :> UmuDown)
=============================================================================
