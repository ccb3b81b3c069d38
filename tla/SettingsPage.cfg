SPECIFICATION Spec
CONSTANTS Lists <- MCLists
          FirstBlobs <- MCFirstBlobs
          Tokens <- MCTokens
          LongTokens <- MCLongTokens
          Connections = {k1, k2}
          Together = FALSE
          MaxFaults = 0
          Storable <- Valid
          Editable <- EditorAccepts
          EntryOf <- Blob
          ListOf <- ShortcutsLoad
          Defaults <- LoadDefaults
          EntryMax <- SHORTCUTS_BLOB_MAX
          DraftMax <- SHORTCUTS_MAX
INVARIANT SavedShown
CHECK_DEADLOCK FALSE
