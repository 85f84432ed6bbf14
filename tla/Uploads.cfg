SPECIFICATION UploadSpec
CONSTANTS
    ann = ann
    ben = ben
    up1 = up1
    up2 = up2
    NoUrl = NoUrl
    User = {ann, ben}
    Upload = {up1, up2}
    Uploader <- MCUploader
    MaxCrashes = 2
    MaxDepth = 2
CHECK_DEADLOCK FALSE
INVARIANTS
    RowsHaveBlobs
    ShownFilesOpen
    NoOrphans
    NothingIsLeftShown
    PreviewUrlsAreRevoked
    AnswersAreTrue
