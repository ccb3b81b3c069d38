SPECIFICATION Spec
CONSTANTS Lists <- MCLists
          FirstBlobs <- MCFirstBlobs
          Tokens <- MCTokens
          LongTokens <- MCLongTokens
          Connections = {k1, k2}
          Together = FALSE
          MaxFaults = 2
          Storable <- Valid
          Editable <- EditorAccepts
          EntryOf <- Blob
          ListOf <- ShortcutsLoad
          Defaults <- LoadDefaults
          EntryMax <- SHORTCUTS_BLOB_MAX
          DraftMax <- SHORTCUTS_MAX
INVARIANTS TypeOK KeepsSavedList PageInStep PairingKept NoPromptAgain
PROPERTIES BackOnline
CHECK_DEADLOCK FALSE
